---------------------------- MODULE QuotaLedger ----------------------------
(***************************************************************************)
(* The relay quota of one user of the relay server: the record in memory   *)
(* (user_quotas), the record in the database (table USERS), and everything *)
(* that reads or writes them: the handshake, the quota check and the       *)
(* billing of a relay, the cleanup after the last session, the admin       *)
(* commands, and a restart.                                                *)
(*                                                                         *)
(* An action is one DashMap operation or one redb transaction; tasks run   *)
(* on several threads, so a copy that was read may be written back after   *)
(* others have changed the record.  Sessions are counted exactly here; how *)
(* the count itself can drift is the subject of SessionRegistry.           *)
(***************************************************************************)
EXTENDS Integers, FiniteSets

CONSTANTS Conns,        \* connections of the user
          Admin,        \* the task of the admin HTTP server
          Sizes,        \* sizes of relayed messages
          SmallMax,     \* relay_small_message_max_bytes
          DefaultQuota, \* default_relay_quota_bytes
          Grants,       \* quotas an administrator gives
          MaxBilled,    \* bound: bytes relayed in all
          MaxAdmin,     \* bound: admin commands
          MaxKicks,     \* bound: sessions disconnected by the server
          MaxRestarts,  \* bound: restarts of the server
          MaxPeriods    \* bound: times the server's monthly quota is used up

ASSUME ConstantsOK ==
  /\ Admin \notin Conns
  /\ Sizes \subseteq Nat \ {0} /\ Grants \subseteq Nat
  /\ SmallMax \in Nat /\ DefaultQuota \in Nat /\ MaxBilled \in Nat
  /\ MaxAdmin \in Nat /\ MaxKicks \in Nat /\ MaxRestarts \in Nat
  /\ MaxPeriods \in Nat

VARIABLES
  mem,        \* user_quotas: the cached record, or NoRecord
  db,         \* table USERS: the stored record, or NoRecord
  task,       \* task[a]: a connection, or the admin command being handled
  registered, \* connections in the registry (users, user_session_counts)
  exhausted,  \* is_global_quota_exceeded
  billed,     \* history: bytes relayed for the user
  granted,    \* history: the quota the administrator set last
  spare       \* how much of each bound is left

records == <<mem, db>>
history == <<billed, granted>>
vars == <<records, task, registered, exhausted, history, spare>>

Actors == Conns \cup {Admin}
NoCustom == -1                       \* custom_quota = false
Fresh(n) == [used |-> n, quota |-> NoCustom]
NoRecord == [used |-> -1, quota |-> NoCustom]
Record == [used : Nat, quota : Grants \cup {NoCustom}] \cup {NoRecord}
Effective(r) == IF r.quota = NoCustom THEN DefaultQuota ELSE r.quota
Idle == [pc |-> "off", rec |-> NoRecord, size |-> 0, quota |-> NoCustom]

TypeOK ==
  /\ mem \in Record
  /\ db \in Record
  /\ task \in [Actors -> [pc : {"off", "joined", "loaded", "serving", "get", "load",
                                "insert", "relay", "leaving", "last", "retire",
                                "put", "save"},
                          rec : Record, size : Sizes \cup {0},
                          quota : Grants \cup {NoCustom}]]
  /\ registered \subseteq Conns
  /\ exhausted \in BOOLEAN
  /\ billed \in Nat
  /\ granted \in Grants \cup {NoCustom}
  /\ spare \in [admin : 0..MaxAdmin, kicks : 0..MaxKicks,
                restarts : 0..MaxRestarts, periods : 0..MaxPeriods]

Init ==
  /\ mem = NoRecord
  /\ db = NoRecord
  /\ task = [a \in Actors |-> Idle]
  /\ registered = {}
  /\ exhausted = FALSE
  /\ billed = 0
  /\ granted = NoCustom
  /\ spare = [admin |-> MaxAdmin, kicks |-> MaxKicks, restarts |-> MaxRestarts,
              periods |-> MaxPeriods]

\* The next step of a task, and what it has in hand.
Take(a, pc, r, n) ==
  task' = [task EXCEPT ![a] = [pc |-> pc, rec |-> r, size |-> n, quota |-> @.quota]]
Goto(a, pc) == Take(a, pc, task[a].rec, task[a].size)

(* Faulty variants of the operations below, one per property.                 *)

SaveSummed(c) ==                         \* adds what is cached to what is stored
  LET r == task[c].rec IN
  /\ task[c].pc = "loaded"
  /\ db' = IF r = NoRecord THEN Fresh(0)
           ELSE IF mem = NoRecord THEN r ELSE [r EXCEPT !.used = @ + mem.used]
  /\ Goto(c, "serving")
  /\ UNCHANGED <<mem, registered, exhausted, history, spare>>

SaveReset(c) ==                          \* a handshake starts a new record
  /\ task[c].pc = "loaded"
  /\ db' = Fresh(0)
  /\ Goto(c, "serving")
  /\ UNCHANGED <<mem, registered, exhausted, history, spare>>

----------------------------------------------------------------------------
\* get_or_create_user_quota, for the quota check and for admin commands.

\* check_relay_quota with the record found: below the quota, or small.  A refusal
\* looks the record up again for its message (a size of 0).
Decide(c, r) ==
  LET n == task[c].size
      allowed == n > 0 /\ (r.used < Effective(r) \/ n <= SmallMax)
  IN \/ allowed /\ Take(c, "relay", NoRecord, n)
     \/ ~allowed /\ Take(c, IF n > 0 THEN "get" ELSE "serving", NoRecord, 0)

\* An admin command that only looks ends here; the others write the record back.
Proceed(r) ==
  IF task[Admin].size = 0 THEN task' = [task EXCEPT ![Admin] = Idle]
                          ELSE Take(Admin, "put", r, 0)

Found(a, r) == IF a = Admin THEN Proceed(r) ELSE Decide(a, r)

Get(a) ==
  /\ task[a].pc = "get"
  /\ IF mem # NoRecord THEN Found(a, mem) ELSE Goto(a, "load")
  /\ UNCHANGED <<records, registered, exhausted, history, spare>>

Load(a) ==
  /\ task[a].pc = "load"
  /\ Take(a, "insert", IF db = NoRecord THEN Fresh(0) ELSE db, task[a].size)
  /\ UNCHANGED <<records, registered, exhausted, history, spare>>

Insert(a) ==
  /\ task[a].pc = "insert"
  /\ mem' = task[a].rec
  /\ Found(a, task[a].rec)
  /\ UNCHANGED <<db, registered, exhausted, history, spare>>

----------------------------------------------------------------------------
\* A connection.

Join(c) ==
  /\ task[c].pc = "off"
  /\ registered' = registered \cup {c}
  /\ Goto(c, "joined")
  /\ UNCHANGED <<records, exhausted, history, spare>>

LoadUser(c) ==
  /\ task[c].pc = "joined"
  /\ Take(c, "loaded", db, 0)
  /\ UNCHANGED <<records, registered, exhausted, history, spare>>

\* The loaded record is written back with used_bytes and quota as they were.
SaveUser(c) ==
  /\ task[c].pc = "loaded"
  /\ db' = IF task[c].rec = NoRecord THEN Fresh(0) ELSE task[c].rec
  /\ Take(c, "serving", NoRecord, 0)
  /\ UNCHANGED <<mem, registered, exhausted, history, spare>>

\* A relay command.  While the server's monthly quota is used up the user's
\* record is not looked at: small messages pass, others are refused.
Receive(c) ==
  /\ task[c].pc = "serving"
  /\ \E n \in Sizes :
       /\ billed + n <= MaxBilled
       /\ \/ exhausted /\ n <= SmallMax /\ Take(c, "relay", NoRecord, n)
          \/ exhausted /\ n > SmallMax /\ Take(c, "get", NoRecord, 0)
          \/ ~exhausted /\ Take(c, "get", NoRecord, n)
  /\ UNCHANGED <<records, registered, exhausted, history, spare>>

\* Delivered or stored in the inbox: record_relay_usage, one entry operation.
Relay(c) ==
  /\ task[c].pc = "relay"
  /\ mem' = IF mem = NoRecord THEN Fresh(task[c].size)
            ELSE [mem EXCEPT !.used = @ + task[c].size]
  /\ billed' = billed + task[c].size
  /\ Take(c, "serving", NoRecord, 0)
  /\ UNCHANGED <<db, registered, exhausted, granted, spare>>

\* Neither delivered nor stored: nothing is billed.
RelayFails(c) ==
  /\ task[c].pc = "relay"
  /\ Take(c, "serving", NoRecord, 0)
  /\ UNCHANGED <<records, registered, exhausted, history, spare>>

\* disconnect_session, disconnect_user_by_id: out of the registry, from outside.
Kick(c) ==
  /\ c \in registered /\ spare.kicks > 0
  /\ registered' = registered \ {c}
  /\ spare' = [spare EXCEPT !.kicks = @ - 1]
  /\ UNCHANGED <<records, task, exhausted, history>>

\* The loop ends; remove_user_if_current is false for a kicked connection, and
\* then nothing is cleaned up.
Leave(c) ==
  /\ task[c].pc = "serving"
  /\ registered' = registered \ {c}
  /\ Goto(c, IF c \in registered THEN "leaving" ELSE "off")
  /\ UNCHANGED <<records, exhausted, history, spare>>

CheckLast(c) ==
  /\ task[c].pc = "leaving"
  /\ Goto(c, IF registered = {} THEN "last" ELSE "off")
  /\ UNCHANGED <<records, registered, exhausted, history, spare>>

\* The cached record is saved under its lock, then removed in a second step.
Persist(c) ==
  /\ task[c].pc = "last"
  /\ db' = IF mem = NoRecord THEN db ELSE mem
  /\ Goto(c, "retire")
  /\ UNCHANGED <<mem, registered, exhausted, history, spare>>

Retire(c) ==
  /\ task[c].pc = "retire"
  /\ mem' = NoRecord
  /\ Goto(c, "off")
  /\ UNCHANGED <<db, registered, exhausted, history, spare>>

----------------------------------------------------------------------------
\* Admin commands: get_user_relay_quota (size 0) and set_user_relay_quota with a
\* quota or with reset_to_default (size marks that the record is written).

AdminStarts ==
  /\ task[Admin].pc = "off" /\ spare.admin > 0
  /\ \E q \in Grants \cup {NoCustom}, n \in {0} \cup Sizes :
       task' = [task EXCEPT ![Admin] =
                  [pc |-> "get", rec |-> NoRecord, size |-> n, quota |-> q]]
  /\ spare' = [spare EXCEPT !.admin = @ - 1]
  /\ UNCHANGED <<records, registered, exhausted, history>>

AdminPut ==
  LET r == [task[Admin].rec EXCEPT !.quota = task[Admin].quota] IN
  /\ task[Admin].pc = "put"
  /\ mem' = r
  /\ granted' = task[Admin].quota
  /\ Take(Admin, "save", r, 0)
  /\ UNCHANGED <<db, registered, exhausted, billed, spare>>

AdminSaves ==
  /\ task[Admin].pc = "save"
  /\ db' = task[Admin].rec
  /\ task' = [task EXCEPT ![Admin] = Idle]
  /\ UNCHANGED <<mem, registered, exhausted, history, spare>>

----------------------------------------------------------------------------
\* The server.

\* The traffic of all users reaches global_relay_quota_bytes.
PeriodExhausted ==
  /\ ~exhausted /\ spare.periods > 0
  /\ exhausted' = TRUE
  /\ spare' = [spare EXCEPT !.periods = @ - 1]
  /\ UNCHANGED <<records, task, registered, history>>

PeriodRolls ==
  /\ exhausted
  /\ exhausted' = FALSE
  /\ UNCHANGED <<records, task, registered, history, spare>>

\* A shutdown flushes traffic counters, not user_quotas; a crash flushes nothing.
Restart ==
  /\ spare.restarts > 0
  /\ spare' = [spare EXCEPT !.restarts = @ - 1]
  /\ mem' = NoRecord
  /\ task' = [a \in Actors |-> Idle]
  /\ registered' = {}
  /\ UNCHANGED <<db, exhausted, history>>

----------------------------------------------------------------------------
GetOrCreate(a) == Get(a) \/ Load(a) \/ Insert(a)

Step(c) ==
  \/ LoadUser(c) \/ SaveUser(c) \/ GetOrCreate(c) \/ Relay(c) \/ RelayFails(c)
  \/ CheckLast(c) \/ Persist(c) \/ Retire(c)

AdminStep == GetOrCreate(Admin) \/ AdminPut \/ AdminSaves

Next ==
  \/ \E c \in Conns : Join(c) \/ Receive(c) \/ Leave(c) \/ Step(c) \/ Kick(c)
  \/ AdminStarts \/ AdminStep
  \/ PeriodExhausted \/ PeriodRolls \/ Restart

Spec == Init /\ [][Next]_vars

\* No operation on the record is under way.
Quiet == \A a \in Actors : task[a].pc \in {"off", "serving"}

\* The steps that begin an operation on the record.
Begins ==
  \/ \E c \in Conns : Join(c) \/ Receive(c) \/ Leave(c) \/ Kick(c)
  \/ AdminStarts \/ Restart \/ PeriodExhausted \/ PeriodRolls

----------------------------------------------------------------------------
\* What get_or_create_user_quota would find.
Ledger == IF mem # NoRecord THEN mem ELSE IF db # NoRecord THEN db ELSE Fresh(0)

Copies == {mem, db} \cup {task[a].rec : a \in Actors}

\* However copies are read, kept and written back, a user is never billed for
\* more than was relayed.
NoOverbilling == \A r \in Copies : r.used <= billed

\* While operations do not overlap, the ledger is exact across handshakes,
\* cleanups and admin commands: every relayed byte is billed once.
BilledExactly == Quiet => Ledger.used = billed

\* ... and the quota an administrator set is in force.
GrantKept == Quiet => Ledger.quota = granted
=============================================================================
