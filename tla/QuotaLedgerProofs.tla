-------------------------- MODULE QuotaLedgerProofs -------------------------
(***************************************************************************)
(* Billing, for any number of connections, any message sizes, quotas and   *)
(* limits.  A user is never billed for more than was relayed, whatever     *)
(* races the database and the cached record go through: copies only move,  *)
(* and the one operation that adds to a copy adds the same to what was     *)
(* relayed.  While operations on the record do not overlap, it is exact.   *)
(***************************************************************************)
EXTENDS MCQuota, TLAPS

Copy == [used : Int, quota : Int]

\* What a task has in hand.
InHand(t) == t.rec \in Copy /\ t.size \in Nat /\ t.quota \in Int

LedgerTypes ==
  /\ mem \in Copy /\ db \in Copy /\ billed \in Nat
  /\ DOMAIN task = Actors
  /\ \A a \in Actors : InHand(task[a])

\* Every copy of the record, cached, stored or in the hands of a task.
CopiesBounded ==
  /\ mem.used <= billed /\ db.used <= billed
  /\ \A a \in Actors : task[a].rec.used <= billed

LedgerInv == LedgerTypes /\ CopiesBounded

LEMMA NewRecords ==
  /\ \A n \in Nat : Fresh(n) \in Copy /\ Fresh(n).used = n
  /\ NoRecord \in Copy /\ NoRecord.used = -1
  /\ InHand(Idle) /\ Idle.rec = NoRecord
<1>1. NoRecord \in Copy /\ NoRecord.used = -1
  BY DEF NoRecord, NoCustom, Copy
<1>2. Idle.rec = NoRecord /\ Idle.size = 0 /\ Idle.quota = NoCustom
  BY DEF Idle
<1> QED BY <1>1, <1>2 DEF Fresh, NoCustom, Copy, InHand

\* A copy is a record of two integers; its parts can be taken and replaced.
LEMMA Used == \A r \in Copy : r.used \in Int
BY DEF Copy

LEMMA Parts ==
  ASSUME NEW r \in Copy, NEW k \in Int
  PROVE  /\ [r EXCEPT !.used = k] \in Copy /\ [r EXCEPT !.used = k].used = k
         /\ [r EXCEPT !.quota = k] \in Copy /\ [r EXCEPT !.quota = k].used = r.used
BY DEF Copy

\* A task that goes on with a bounded copy keeps the invariant, if the record
\* in memory, the stored one and the total go along.
LEMMA TaskMoves ==
  ASSUME LedgerInv, NEW a \in Actors, NEW t, task' = [task EXCEPT ![a] = t],
         InHand(t), t.rec.used <= billed',
         billed' \in Nat, billed <= billed',
         mem' \in Copy, mem'.used <= billed',
         db' \in Copy, db'.used <= billed'
  PROVE  LedgerInv'
<1>1. DOMAIN task' = Actors
  BY DEF LedgerInv, LedgerTypes
<1>2. ASSUME NEW b \in Actors PROVE InHand(task'[b]) /\ task'[b].rec.used <= billed'
  <2>1. CASE b = a
    <3>1. task'[b] = t BY <2>1 DEF LedgerInv, LedgerTypes
    <3> QED BY <3>1
  <2>2. CASE b # a
    <3>1. task'[b] = task[b] BY <2>2 DEF LedgerInv, LedgerTypes
    <3>2. InHand(task[b]) /\ task[b].rec.used <= billed /\ billed \in Nat
      BY DEF LedgerInv, LedgerTypes, CopiesBounded
    <3>3. task[b].rec.used \in Int
      BY <3>2, Used DEF InHand
    <3> QED BY <3>1, <3>2, <3>3
  <2> QED BY <2>1, <2>2
<1>3. LedgerTypes'
  BY <1>1, <1>2 DEF LedgerTypes, InHand
<1> QED BY <1>2, <1>3 DEF LedgerInv, CopiesBounded

LEMMA RestMoves ==
  ASSUME LedgerInv, NEW a \in Actors, task' = [task EXCEPT ![a] = Idle],
         billed' = billed, mem' \in Copy, mem'.used <= billed,
         db' \in Copy, db'.used <= billed
  PROVE  LedgerInv'
<1>1. billed \in Nat
  BY DEF LedgerInv, LedgerTypes
<1>2. InHand(Idle) /\ Idle.rec.used = -1
  BY NewRecords
<1>3. /\ Idle.rec.used <= billed' /\ billed' \in Nat /\ billed <= billed'
      /\ mem'.used <= billed' /\ db'.used <= billed'
  BY <1>1, <1>2
<1> QED BY <1>2, <1>3, TaskMoves

\* The same for Take.
LEMMA TakeMoves ==
  ASSUME LedgerInv, NEW a \in Actors, NEW pc, NEW r \in Copy, NEW n \in Nat,
         Take(a, pc, r, n), r.used <= billed',
         billed' \in Nat, billed <= billed',
         mem' \in Copy, mem'.used <= billed',
         db' \in Copy, db'.used <= billed'
  PROVE  LedgerInv'
<1> DEFINE t == [pc |-> pc, rec |-> r, size |-> n, quota |-> task[a].quota]
<1>1. task[a].quota \in Int
  BY DEF LedgerInv, LedgerTypes, InHand
<1>2. t.rec = r /\ t.size = n /\ t.quota = task[a].quota
  OBVIOUS
<1>3. task' = [task EXCEPT ![a] = t]
  BY DEF Take
<1> HIDE DEF t
<1> QED BY <1>1, <1>2, <1>3, TaskMoves DEF InHand

\* What the invariant says of one task and of the records.
LEMMA Bounded ==
  ASSUME LedgerInv, NEW a \in Actors
  PROVE  /\ task[a].rec \in Copy /\ task[a].rec.used <= billed
         /\ task[a].rec.used \in Int
         /\ task[a].size \in Nat /\ task[a].quota \in Int
         /\ mem \in Copy /\ mem.used <= billed /\ mem.used \in Int
         /\ db \in Copy /\ db.used <= billed /\ db.used \in Int
         /\ billed \in Nat
         /\ NoRecord.used <= billed /\ Fresh(0).used <= billed
<1>1. /\ task[a].rec \in Copy /\ task[a].rec.used <= billed
      /\ task[a].size \in Nat /\ task[a].quota \in Int
      /\ mem \in Copy /\ mem.used <= billed
      /\ db \in Copy /\ db.used <= billed
      /\ billed \in Nat
  BY DEF LedgerInv, LedgerTypes, CopiesBounded, InHand
<1>2. NoRecord.used = -1 /\ Fresh(0).used = 0
  BY NewRecords
<1> QED BY <1>1, <1>2, Used

\* The continuations of get_or_create keep the copies they are given.
LEMMA FoundMoves ==
  ASSUME LedgerInv, NEW a \in Actors, NEW r \in Copy, r.used <= billed, Found(a, r),
         UNCHANGED <<db, billed>>, mem' \in Copy, mem'.used <= billed
  PROVE  LedgerInv'
<1>1. /\ billed' = billed /\ billed \in Nat /\ db' = db /\ db \in Copy
      /\ db.used <= billed /\ NoRecord.used <= billed /\ task[a].size \in Nat
  BY Bounded
<1>2. NoRecord \in Copy /\ InHand(Idle) /\ Idle.rec = NoRecord
  BY NewRecords
<1>3. CASE a = Admin
  <2>1. task' = [task EXCEPT ![a] = Idle] \/ Take(a, "put", r, 0)
    BY <1>3 DEF Found, Proceed
  <2>2. CASE task' = [task EXCEPT ![a] = Idle]
    BY <1>1, <2>2, RestMoves
  <2>3. CASE Take(a, "put", r, 0)
    BY <1>1, <2>3, TakeMoves
  <2> QED BY <2>1, <2>2, <2>3
<1>4. CASE a # Admin
  <2>1. PICK n \in {0, task[a].size} : \E p : Take(a, p, NoRecord, n)
    BY <1>4 DEF Found, Decide
  <2>2. PICK p : Take(a, p, NoRecord, n)
    BY <2>1
  <2> QED BY <1>1, <1>2, <2>2, TakeMoves
<1> QED BY <1>3, <1>4

\* Steps that change no copy of the record in a task's hand.
LEMMA OnlyPc ==
  ASSUME LedgerInv, NEW a \in Actors, NEW p, Goto(a, p), billed' = billed,
         mem' \in Copy, mem'.used <= billed, db' \in Copy, db'.used <= billed
  PROVE  LedgerInv'
BY Bounded, TakeMoves DEF Goto

LEMMA GetOrCreateStep ==
  ASSUME LedgerInv, NEW a \in Actors, GetOrCreate(a)
  PROVE  LedgerInv'
<1>1. CASE Get(a)
  <2>1. UNCHANGED <<mem, db, billed>>
    BY <1>1 DEF Get, records, history
  <2>2. CASE mem # NoRecord
    <3>1. Found(a, mem) BY <1>1, <2>2 DEF Get
    <3> QED BY <2>1, <3>1, Bounded, FoundMoves
  <2>3. CASE mem = NoRecord
    <3>1. Goto(a, "load") BY <1>1, <2>3 DEF Get
    <3> QED BY <2>1, <3>1, Bounded, OnlyPc
  <2> QED BY <2>2, <2>3
<1>2. CASE Load(a)
  <2> DEFINE r == IF db = NoRecord THEN Fresh(0) ELSE db
  <2>1. r \in Copy /\ r.used <= billed
    BY NewRecords, Bounded
  <2>2. Take(a, "insert", r, task[a].size) /\ UNCHANGED <<mem, db, billed>>
    BY <1>2 DEF Load, records, history
  <2> HIDE DEF r
  <2> QED BY <2>1, <2>2, Bounded, TakeMoves
<1>3. CASE Insert(a)
  <2>1. Found(a, task[a].rec) /\ mem' = task[a].rec /\ UNCHANGED <<db, billed>>
    BY <1>3 DEF Insert, history
  <2> QED BY <2>1, Bounded, FoundMoves
<1> QED BY <1>1, <1>2, <1>3 DEF GetOrCreate

LEMMA RelayBills ==
  ASSUME LedgerInv, NEW c \in Conns, Relay(c)
  PROVE  LedgerInv'
<1> DEFINE n == task[c].size
<1>1. c \in Actors /\ n \in Nat /\ billed \in Nat /\ db \in Copy /\ mem \in Copy
      /\ db.used <= billed /\ db.used \in Int /\ mem.used <= billed /\ mem.used \in Int
      /\ NoRecord.used = -1 /\ NoRecord \in Copy
  BY Bounded, NewRecords DEF Actors
<1>2. /\ billed' = billed + n /\ db' = db /\ Take(c, "serving", NoRecord, 0)
      /\ mem' = IF mem = NoRecord THEN Fresh(n) ELSE [mem EXCEPT !.used = mem.used + n]
  BY DEF Relay
<1>3. mem' \in Copy /\ mem'.used <= billed'
  <2>1. CASE mem = NoRecord
    BY <1>1, <1>2, <2>1, NewRecords
  <2>2. CASE mem # NoRecord
    <3>1. mem.used + n \in Int /\ mem.used + n <= billed + n BY <1>1
    <3> QED BY <1>1, <1>2, <2>2, <3>1, Parts
  <2> QED BY <2>1, <2>2
<1>4. billed' \in Nat /\ billed <= billed' /\ db'.used <= billed' /\ NoRecord.used <= billed'
  BY <1>1, <1>2
<1> QED BY <1>1, <1>2, <1>3, <1>4, TakeMoves

LEMMA ConnectionStep ==
  ASSUME LedgerInv, NEW c \in Conns, Join(c) \/ Receive(c) \/ Leave(c) \/ Step(c)
  PROVE  LedgerInv'
<1>1. c \in Actors
  BY DEF Actors
<1>2. /\ NoRecord \in Copy /\ NoRecord.used <= billed
      /\ Fresh(0) \in Copy /\ Fresh(0).used <= billed
  BY <1>1, NewRecords, Bounded
<1>3. CASE Join(c) \/ Leave(c) \/ CheckLast(c)
  <2>1. PICK p : Goto(c, p)
    BY <1>3 DEF Join, Leave, CheckLast
  <2>2. UNCHANGED <<mem, db, billed>>
    BY <1>3 DEF Join, Leave, CheckLast, records, history
  <2> QED BY <1>1, <2>1, <2>2, Bounded, OnlyPc
<1>4. CASE LoadUser(c)
  <2>1. Take(c, "loaded", db, 0) /\ UNCHANGED <<mem, db, billed>>
    BY <1>4 DEF LoadUser, records, history
  <2> QED BY <1>1, <2>1, Bounded, TakeMoves
<1>5. CASE SaveUser(c)
  <2>1. /\ Take(c, "serving", NoRecord, 0) /\ UNCHANGED <<mem, billed>>
        /\ db' = IF task[c].rec = NoRecord THEN Fresh(0) ELSE task[c].rec
    BY <1>5 DEF SaveUser, history
  <2>2. db' \in Copy /\ db'.used <= billed
    BY <1>1, <1>2, <2>1, Bounded
  <2>3. Take(c, "serving", NoRecord, 0) /\ UNCHANGED <<mem, billed>>
    BY <2>1
  <2>4. mem \in Copy /\ mem.used <= billed /\ billed \in Nat
    BY <1>1, Bounded
  <2> QED BY <1>1, <1>2, <2>2, <2>3, <2>4, TakeMoves
<1>6. CASE Receive(c)
  <2>1. PICK n \in Sizes : \E k \in {0, n} : \E p : Take(c, p, NoRecord, k)
    BY <1>6 DEF Receive
  <2>2. {0, n} \subseteq Nat /\ UNCHANGED <<mem, db, billed>>
    BY <1>6, ConstantsOK DEF Receive, records, history
  <2>3. PICK k \in {0, n} : \E p : Take(c, p, NoRecord, k)
    BY <2>1
  <2>4. PICK p : Take(c, p, NoRecord, k)
    BY <2>3
  <2> QED BY <1>1, <1>2, <2>2, <2>4, Bounded, TakeMoves
<1>7. CASE Relay(c)
  BY <1>7, RelayBills
<1>8. CASE RelayFails(c)
  <2>1. Take(c, "serving", NoRecord, 0) /\ UNCHANGED <<mem, db, billed>>
    BY <1>8 DEF RelayFails, records, history
  <2> QED BY <1>1, <1>2, <2>1, Bounded, TakeMoves
<1>9. CASE Persist(c)
  <2>1. /\ Goto(c, "retire") /\ UNCHANGED <<mem, billed>>
        /\ db' = IF mem = NoRecord THEN db ELSE mem
    BY <1>9 DEF Persist, history
  <2> QED BY <1>1, <2>1, Bounded, OnlyPc
<1>10. CASE Retire(c)
  <2>1. Goto(c, "off") /\ mem' = NoRecord /\ UNCHANGED <<db, billed>>
    BY <1>10 DEF Retire, history
  <2> QED BY <1>1, <1>2, <2>1, Bounded, OnlyPc
<1>11. CASE GetOrCreate(c)
  BY <1>1, <1>11, GetOrCreateStep
<1> QED BY <1>3, <1>4, <1>5, <1>6, <1>7, <1>8, <1>9, <1>10, <1>11 DEF Step

LEMMA AdminCommandStep ==
  ASSUME LedgerInv, AdminStarts \/ AdminStep
  PROVE  LedgerInv'
<1>1. Admin \in Actors
  BY DEF Actors
<1>2. CASE AdminStarts
  <2>1. PICK q \in Grants \cup {NoCustom}, n \in {0} \cup Sizes :
          task' = [task EXCEPT ![Admin] =
                     [pc |-> "get", rec |-> NoRecord, size |-> n, quota |-> q]]
    BY <1>2 DEF AdminStarts
  <2> DEFINE t == [pc |-> "get", rec |-> NoRecord, size |-> n, quota |-> q]
  <2>2. q \in Int /\ n \in Nat
    BY ConstantsOK DEF NoCustom
  <2>3. t.rec = NoRecord /\ t.size = n /\ t.quota = q
    OBVIOUS
  <2>4. UNCHANGED <<mem, db, billed>>
    BY <1>2 DEF AdminStarts, records, history
  <2> HIDE DEF t
  <2>5. task' = [task EXCEPT ![Admin] = t]
    BY <2>1 DEF t
  <2>6. /\ mem \in Copy /\ mem.used <= billed /\ db \in Copy /\ db.used <= billed
        /\ billed \in Nat /\ t.rec.used <= billed
    BY <1>1, <2>3, Bounded
  <2>7. InHand(t)
    BY <2>2, <2>3, NewRecords DEF InHand
  <2>8. /\ billed' \in Nat /\ billed <= billed' /\ mem' \in Copy /\ db' \in Copy
        /\ t.rec.used <= billed' /\ mem'.used <= billed' /\ db'.used <= billed'
    BY <2>4, <2>6
  <2> QED BY <1>1, <2>5, <2>7, <2>8, TaskMoves
<1>3. CASE GetOrCreate(Admin)
  BY <1>1, <1>3, GetOrCreateStep
<1>4. CASE AdminPut
  <2> DEFINE r == [task[Admin].rec EXCEPT !.quota = task[Admin].quota]
  <2>1. r \in Copy /\ r.used = task[Admin].rec.used
    BY <1>1, Bounded, Parts
  <2>2. mem' = r /\ Take(Admin, "save", r, 0) /\ UNCHANGED <<db, billed>>
    BY <1>4 DEF AdminPut
  <2> HIDE DEF r
  <2> QED BY <1>1, <2>1, <2>2, Bounded, TakeMoves
<1>5. CASE AdminSaves
  <2>1. /\ task' = [task EXCEPT ![Admin] = Idle] /\ db' = task[Admin].rec
        /\ UNCHANGED <<mem, billed>>
    BY <1>5 DEF AdminSaves, history
  <2> QED BY <1>1, <2>1, Bounded, RestMoves
<1> QED BY <1>2, <1>3, <1>4, <1>5 DEF AdminStep

LEMMA LedgerInvStep == LedgerInv /\ [Next]_vars => LedgerInv'
<1> SUFFICES ASSUME LedgerInv, [Next]_vars PROVE LedgerInv'
  OBVIOUS
<1>1. ASSUME NEW c \in Conns, Join(c) \/ Receive(c) \/ Leave(c) \/ Step(c)
      PROVE  LedgerInv'
  BY <1>1, ConnectionStep
<1>2. CASE (\E c \in Conns : Kick(c)) \/ PeriodExhausted \/ PeriodRolls \/ UNCHANGED vars
  <2>1. UNCHANGED <<mem, db, billed, task>>
    BY <1>2 DEF Kick, PeriodExhausted, PeriodRolls, vars, records, history
  <2> QED BY <2>1 DEF LedgerInv, LedgerTypes, CopiesBounded, InHand
<1>3. CASE AdminStarts \/ AdminStep
  BY <1>3, AdminCommandStep
<1>4. CASE Restart
  <2>1. task' = [a \in Actors |-> Idle] /\ mem' = NoRecord
        /\ UNCHANGED <<db, billed>>
    BY <1>4 DEF Restart, history
  <2>2. /\ db \in Copy /\ db.used <= billed /\ billed \in Nat
        /\ NoRecord.used <= billed
    BY Bounded DEF Actors
  <2>3. DOMAIN task' = Actors /\ \A a \in Actors : task'[a] = Idle
    BY <2>1
  <2> QED BY <2>1, <2>2, <2>3, NewRecords DEF LedgerInv, LedgerTypes, CopiesBounded, InHand
<1> QED BY <1>1, <1>2, <1>3, <1>4 DEF Next

LEMMA LedgerInvInit == Init => LedgerInv
<1> SUFFICES ASSUME Init PROVE LedgerInv
  OBVIOUS
<1>1. /\ mem = NoRecord /\ db = NoRecord /\ billed = 0
      /\ task = [a \in Actors |-> Idle]
  BY DEF Init
<1>2. DOMAIN task = Actors /\ \A a \in Actors : task[a] = Idle
  BY <1>1
<1>3. NoRecord.used <= 0
  BY NewRecords
<1> QED BY <1>1, <1>2, <1>3, NewRecords DEF LedgerInv, LedgerTypes, CopiesBounded

\* No copy of the record ever bills more than was relayed: a stale copy that is
\* written back can lose usage, never invent it.
THEOREM NoOverbillingHolds == Spec => []NoOverbilling
<1>1. LedgerInv => NoOverbilling
  BY DEF LedgerInv, CopiesBounded, NoOverbilling, Copies
<1> QED BY <1>1, LedgerInvInit, LedgerInvStep, PTL DEF Spec

----------------------------------------------------------------------------
(***************************************************************************)
(* Undisturbed, the record is exact: one operation at a time works on it,  *)
(* and what its task holds is what the ledger says.                        *)
(***************************************************************************)
Busy(a) == task[a].pc \notin {"off", "serving"}
Exact(r) == r.used = billed /\ r.quota = granted
Saved == IF db # NoRecord THEN db ELSE Fresh(0)

\* What is known of the copy a task works on, by where the task is.
Holds(a) ==
  /\ task[a].pc = "loaded" => task[a].rec = db
  /\ task[a].pc = "load" => mem = NoRecord
  /\ task[a].pc = "insert" => mem = NoRecord /\ task[a].rec = Saved
  /\ task[a].pc = "relay" => mem # NoRecord
  /\ task[a].pc \in {"put", "save"} => mem # NoRecord /\ task[a].rec = mem
  /\ task[a].pc = "retire" => Exact(Saved)

Serial ==
  /\ ~exhausted
  /\ \A a, b \in Actors : Busy(a) /\ Busy(b) => a = b
  /\ Exact(Ledger)
  /\ \A a \in Actors : Holds(a)

Bounds ==
  /\ DOMAIN spare = {"admin", "kicks", "restarts", "periods"}
  /\ spare.kicks \in Int /\ spare.kicks <= MaxKicks
  /\ spare.restarts \in Int /\ spare.restarts <= MaxRestarts
  /\ spare.periods \in Int /\ spare.periods <= MaxPeriods

SerialInv == LedgerInv /\ Bounds /\ overlapped \in BOOLEAN /\ (Undisturbed => Serial)

LEMMA ExactIsRecord ==
  ASSUME LedgerInv, NEW r, Exact(r)
  PROVE  r # NoRecord
BY NewRecords DEF LedgerInv, LedgerTypes, Exact

LEMMA SavedIs ==
  ASSUME LedgerInv
  PROVE  Saved \in Copy /\ Saved # NoRecord /\ (mem = NoRecord => Ledger = Saved)
<1>1. Fresh(0) \in Copy /\ Fresh(0) # NoRecord
  BY NewRecords
<1> QED BY <1>1 DEF Saved, Ledger, LedgerInv, LedgerTypes

\* The task that works on the record takes a step, or the first one begins.
LEMMA OneWorks ==
  ASSUME LedgerInv, Serial, NEW a \in Actors, Busy(a) \/ Quiet, NEW t,
         task' = [task EXCEPT ![a] = t], exhausted' = exhausted,
         Exact(Ledger)', Holds(a)'
  PROVE  Serial'
<1>1. \A b \in Actors : task'[b] = IF b = a THEN t ELSE task[b]
  BY DEF LedgerInv, LedgerTypes
<1>2. \A b \in Actors : b # a => task[b].pc \in {"off", "serving"}
  BY DEF Serial, Busy, Quiet
<1>3. \A b, d \in Actors : Busy(b)' /\ Busy(d)' => b = d
  BY <1>1, <1>2 DEF Busy
<1>4. \A b \in Actors : Holds(b)'
  <2> SUFFICES ASSUME NEW b \in Actors, b # a PROVE Holds(b)'
    OBVIOUS
  <2>1. task'[b].pc \in {"off", "serving"}
    BY <1>1, <1>2
  <2> QED BY <2>1 DEF Holds
<1> QED BY <1>3, <1>4 DEF Serial

\* A step after which nothing is held.
LEMMA OneTakes ==
  ASSUME LedgerInv, Serial, NEW a \in Actors, Busy(a) \/ Quiet,
         NEW p \in {"off", "joined", "serving", "get", "leaving", "last"},
         NEW r, NEW n, Take(a, p, r, n), exhausted' = exhausted, Exact(Ledger)'
  PROVE  Serial'
<1> DEFINE t == [pc |-> p, rec |-> r, size |-> n, quota |-> task[a].quota]
<1>1. task' = [task EXCEPT ![a] = t]
  BY DEF Take
<1>2. task'[a].pc = p
  BY <1>1 DEF LedgerInv, LedgerTypes
<1>3. Holds(a)'
  BY <1>2 DEF Holds
<1> HIDE DEF t
<1> QED BY <1>1, <1>3, OneWorks

LEMMA SameLedger ==
  ASSUME Serial, UNCHANGED <<records, history>>
  PROVE  Exact(Ledger)' /\ mem' = mem /\ db' = db /\ billed' = billed
BY DEF Serial, Exact, Ledger, records, history

\* What a task holds after Take.
LEMMA Taken ==
  ASSUME LedgerInv, NEW a \in Actors, NEW p, NEW r, NEW n, Take(a, p, r, n)
  PROVE  /\ task'[a].pc = p /\ task'[a].rec = r
         /\ \E t : task' = [task EXCEPT ![a] = t]
<1> DEFINE t == [pc |-> p, rec |-> r, size |-> n, quota |-> task[a].quota]
<1>1. task' = [task EXCEPT ![a] = t]
  BY DEF Take
<1>2. task'[a] = t
  BY <1>1 DEF LedgerInv, LedgerTypes
<1>3. t.pc = p /\ t.rec = r
  OBVIOUS
<1> HIDE DEF t
<1> QED BY <1>1, <1>2, <1>3

\* get_or_create went on with the cached record.
LEMMA SerialFound ==
  ASSUME LedgerInv, Serial, NEW a \in Actors, Busy(a), NEW r, Found(a, r),
         mem' = r, r # NoRecord, exhausted' = exhausted, Exact(Ledger)'
  PROVE  Serial'
<1>1. CASE a = Admin
  <2>1. task' = [task EXCEPT ![a] = Idle] \/ Take(a, "put", r, 0)
    BY <1>1 DEF Found, Proceed
  <2>2. CASE task' = [task EXCEPT ![a] = Idle]
    <3>1. task'[a].pc = "off"
      BY <2>2 DEF LedgerInv, LedgerTypes, Idle
    <3>2. Holds(a)'
      BY <3>1 DEF Holds
    <3> QED BY <2>2, <3>2, OneWorks
  <2>3. CASE Take(a, "put", r, 0)
    <3>1. Holds(a)'
      BY <2>3, Taken DEF Holds
    <3> QED BY <2>3, <3>1, Taken, OneWorks
  <2> QED BY <2>1, <2>2, <2>3
<1>2. CASE a # Admin
  <2>1. PICK p, n : Take(a, p, NoRecord, n) /\ p \in {"relay", "get", "serving"}
    BY <1>2 DEF Found, Decide
  <2>2. Holds(a)'
    BY <2>1, Taken DEF Holds
  <2> QED BY <2>1, <2>2, Taken, OneWorks
<1> QED BY <1>1, <1>2

LEMMA SerialGetOrCreate ==
  ASSUME LedgerInv, Serial, NEW a \in Actors, GetOrCreate(a)
  PROVE  Serial'
<1>1. CASE Get(a)
  <2>1. /\ Busy(a) /\ exhausted' = exhausted /\ Exact(Ledger)' /\ mem' = mem
    BY <1>1, SameLedger DEF Get, Busy
  <2>2. CASE mem # NoRecord
    <3>1. Found(a, mem) BY <1>1, <2>2 DEF Get
    <3> QED BY <2>1, <2>2, <3>1, SerialFound
  <2>3. CASE mem = NoRecord
    <3>1. Take(a, "load", task[a].rec, task[a].size)
      BY <1>1, <2>3 DEF Get, Goto
    <3>2. Holds(a)'
      BY <2>1, <2>3, <3>1, Taken DEF Holds
    <3> QED BY <2>1, <3>1, <3>2, Taken, OneWorks
  <2> QED BY <2>2, <2>3
<1>2. CASE Load(a)
  <2>1. /\ Busy(a) /\ exhausted' = exhausted /\ Exact(Ledger)' /\ mem' = mem /\ db' = db
    BY <1>2, SameLedger DEF Load, Busy
  <2>2. Take(a, "insert", Saved, task[a].size) /\ mem = NoRecord
    BY <1>2 DEF Load, Saved, Serial, Holds
  <2>3. Saved' = Saved
    BY <2>1 DEF Saved
  <2>4. Holds(a)'
    BY <2>1, <2>2, <2>3, Taken DEF Holds
  <2> QED BY <2>1, <2>2, <2>4, Taken, OneWorks
<1>3. CASE Insert(a)
  <2>1. /\ Busy(a) /\ exhausted' = exhausted /\ task[a].rec = Saved /\ mem = NoRecord
        /\ mem' = Saved /\ Found(a, Saved) /\ billed' = billed /\ granted' = granted
    BY <1>3 DEF Insert, Busy, Serial, Holds, history
  <2>2. Saved # NoRecord /\ Exact(Saved)
    BY <2>1, SavedIs DEF Serial
  <2>3. Exact(Ledger)'
    BY <2>1, <2>2 DEF Exact, Ledger
  <2> QED BY <2>1, <2>2, <2>3, SerialFound
<1> QED BY <1>1, <1>2, <1>3 DEF GetOrCreate

LEMMA SerialConnection ==
  ASSUME LedgerInv, Serial, NEW c \in Conns,
         \/ (Join(c) /\ Quiet) \/ (Receive(c) /\ Quiet) \/ (Leave(c) /\ Quiet)
         \/ Step(c)
  PROVE  Serial'
<1>1. c \in Actors
  BY DEF Actors
<1>2. CASE \/ (Join(c) /\ Quiet) \/ (Receive(c) /\ Quiet) \/ (Leave(c) /\ Quiet)
           \/ RelayFails(c) \/ CheckLast(c)
  <2>1. PICK p, r, n : /\ p \in {"off", "joined", "serving", "get", "leaving", "last"}
                       /\ Take(c, p, r, n)
    BY <1>2 DEF Join, Receive, Leave, RelayFails, CheckLast, Goto, Serial
  <2>2. Exact(Ledger)' /\ exhausted' = exhausted
    BY <1>2, SameLedger DEF Join, Receive, Leave, RelayFails, CheckLast
  <2>3. Busy(c) \/ Quiet
    BY <1>2 DEF Busy, RelayFails, CheckLast
  <2> QED BY <1>1, <2>1, <2>2, <2>3, OneTakes
<1>3. CASE LoadUser(c)
  <2>1. /\ Busy(c) /\ Exact(Ledger)' /\ exhausted' = exhausted /\ db' = db
        /\ Take(c, "loaded", db, 0)
    BY <1>3, SameLedger DEF LoadUser, Busy
  <2>2. Holds(c)'
    BY <1>1, <2>1, Taken DEF Holds
  <2> QED BY <1>1, <2>1, <2>2, Taken, OneWorks
<1>4. CASE SaveUser(c)
  <2>1. /\ Busy(c) /\ exhausted' = exhausted /\ mem' = mem /\ db' = Saved
        /\ billed' = billed /\ granted' = granted /\ Take(c, "serving", NoRecord, 0)
    BY <1>1, <1>4 DEF SaveUser, Busy, Saved, Serial, Holds, history
  <2>2. Saved # NoRecord
    BY SavedIs
  <2>3. Exact(Ledger)'
    BY <2>1, <2>2 DEF Exact, Ledger, Saved, Serial
  <2> QED BY <1>1, <2>1, <2>3, OneTakes
<1>5. CASE Relay(c)
  <2> DEFINE n == task[c].size
  <2>1. /\ Busy(c) /\ exhausted' = exhausted /\ mem # NoRecord
        /\ mem' = [mem EXCEPT !.used = mem.used + n]
        /\ billed' = billed + n /\ granted' = granted /\ Take(c, "serving", NoRecord, 0)
    BY <1>1, <1>5 DEF Relay, Busy, Serial, Holds
  <2>2. mem \in Copy /\ mem.used = billed /\ mem.quota = granted
    BY <1>1, <2>1, Bounded DEF Serial, Exact, Ledger
  <2>3. n \in Nat /\ billed \in Nat
    BY <1>1, Bounded
  <2>4. mem'.used = billed' /\ mem'.quota = granted'
    BY <2>1, <2>2 DEF Copy
  <2>5. mem' # NoRecord
    <3>1. NoRecord.used = -1
      BY NewRecords
    <3>2. billed' # -1
      BY <2>1, <2>3
    <3> QED BY <2>4, <3>1, <3>2
  <2>6. Exact(Ledger)'
    BY <2>4, <2>5 DEF Exact, Ledger
  <2> QED BY <1>1, <2>1, <2>6, OneTakes
<1>6. CASE Persist(c)
  <2>1. /\ Busy(c) /\ exhausted' = exhausted /\ mem' = mem
        /\ db' = IF mem = NoRecord THEN db ELSE mem
        /\ billed' = billed /\ granted' = granted
        /\ Take(c, "retire", task[c].rec, task[c].size)
    BY <1>6 DEF Persist, Busy, Goto, history
  <2>2. Saved' = Ledger /\ Ledger' = Ledger
    BY <2>1 DEF Saved, Ledger
  <2>3. Exact(Ledger)' /\ Exact(Saved)'
    BY <2>1, <2>2 DEF Exact, Serial
  <2>4. Holds(c)'
    BY <1>1, <2>1, <2>3, Taken DEF Holds
  <2> QED BY <1>1, <2>1, <2>3, <2>4, Taken, OneWorks
<1>7. CASE Retire(c)
  <2>1. /\ Busy(c) /\ exhausted' = exhausted /\ mem' = NoRecord /\ db' = db
        /\ billed' = billed /\ granted' = granted /\ Exact(Saved)
        /\ Take(c, "off", task[c].rec, task[c].size)
    BY <1>1, <1>7 DEF Retire, Busy, Goto, history, Serial, Holds
  <2>2. Ledger' = Saved
    BY <2>1 DEF Ledger, Saved
  <2>3. Exact(Ledger)'
    BY <2>1, <2>2 DEF Exact
  <2> QED BY <1>1, <2>1, <2>3, OneTakes
<1>8. CASE GetOrCreate(c)
  BY <1>1, <1>8, SerialGetOrCreate
<1> QED BY <1>2, <1>3, <1>4, <1>5, <1>6, <1>7, <1>8 DEF Step

LEMMA SerialAdmin ==
  ASSUME LedgerInv, Serial, (AdminStarts /\ Quiet) \/ AdminStep
  PROVE  Serial'
<1>1. Admin \in Actors
  BY DEF Actors
<1>2. CASE AdminStarts /\ Quiet
  <2>1. PICK q, n :
          task' = [task EXCEPT ![Admin] =
                     [pc |-> "get", rec |-> NoRecord, size |-> n, quota |-> q]]
    BY <1>2 DEF AdminStarts
  <2> DEFINE t == [pc |-> "get", rec |-> NoRecord, size |-> n, quota |-> q]
  <2>2. task'[Admin].pc = "get"
    BY <1>1, <2>1 DEF LedgerInv, LedgerTypes
  <2>3. Holds(Admin)'
    BY <2>2 DEF Holds
  <2>4. Exact(Ledger)' /\ exhausted' = exhausted
    BY <1>2, SameLedger DEF AdminStarts
  <2>5. task' = [task EXCEPT ![Admin] = t]
    BY <2>1
  <2> HIDE DEF t
  <2> QED BY <1>1, <1>2, <2>3, <2>4, <2>5, OneWorks
<1>3. CASE AdminPut
  <2> DEFINE r == [task[Admin].rec EXCEPT !.quota = task[Admin].quota]
  <2>1. /\ Busy(Admin) /\ exhausted' = exhausted /\ mem # NoRecord
        /\ task[Admin].rec = mem /\ mem' = r
        /\ billed' = billed /\ granted' = task[Admin].quota
        /\ Take(Admin, "save", r, 0)
    BY <1>1, <1>3 DEF AdminPut, Busy, Serial, Holds
  <2>2. mem \in Copy /\ mem.used = billed /\ task[Admin].quota \in Int /\ billed \in Nat
    BY <1>1, <2>1, Bounded DEF Serial, Exact, Ledger
  <2>3. r.used = billed /\ r.quota = task[Admin].quota
    BY <2>1, <2>2 DEF Copy
  <2> HIDE DEF r
  <2>4. r # NoRecord
    BY <2>2, <2>3, NewRecords
  <2>5. Exact(Ledger)'
    BY <2>1, <2>3, <2>4 DEF Exact, Ledger
  <2>6. Holds(Admin)'
    BY <1>1, <2>1, <2>4, Taken DEF Holds
  <2> QED BY <1>1, <2>1, <2>5, <2>6, Taken, OneWorks
<1>4. CASE AdminSaves
  <2>1. /\ Busy(Admin) /\ exhausted' = exhausted /\ mem # NoRecord /\ mem' = mem
        /\ billed' = billed /\ granted' = granted
        /\ task' = [task EXCEPT ![Admin] = Idle]
    BY <1>1, <1>4 DEF AdminSaves, Busy, Serial, Holds, history
  <2>2. Exact(Ledger)'
    BY <2>1 DEF Exact, Ledger, Serial
  <2>3. task'[Admin].pc = "off"
    BY <1>1, <2>1 DEF LedgerInv, LedgerTypes, Idle
  <2>4. Holds(Admin)'
    BY <2>3 DEF Holds
  <2> QED BY <1>1, <2>1, <2>2, <2>4, OneWorks
<1>5. CASE GetOrCreate(Admin)
  BY <1>1, <1>5, SerialGetOrCreate
<1> QED BY <1>2, <1>3, <1>4, <1>5 DEF AdminStep

\* The allowances only go down, so what is undisturbed was so before.
LEMMA AllowanceUsed ==
  ASSUME Bounds, NEW k \in {"kicks", "restarts", "periods"}, spare[k] > 0,
         spare' = [spare EXCEPT ![k] = @ - 1]
  PROVE  Bounds' /\ ~Undisturbed'
<1>1. \A i \in {"kicks", "restarts", "periods"} :
        spare'[i] = IF i = k THEN spare[i] - 1 ELSE spare[i]
  BY DEF Bounds
<1>2. DOMAIN spare' = {"admin", "kicks", "restarts", "periods"}
  BY DEF Bounds
<1> QED BY <1>1, <1>2, ConstantsOK DEF Bounds, Undisturbed

LEMMA SerialInvStep == SerialInv /\ [MCNext]_<<vars, overlapped>> => SerialInv'
<1> SUFFICES ASSUME SerialInv, [MCNext]_<<vars, overlapped>> PROVE SerialInv'
  OBVIOUS
<1>1. [Next]_vars
  BY DEF MCNext
<1>2. LedgerInv'
  BY <1>1, LedgerInvStep DEF SerialInv
<1>3. overlapped' \in BOOLEAN /\ (overlapped => overlapped')
  BY DEF SerialInv, MCNext
<1>s. CASE UNCHANGED <<vars, overlapped>>
  BY <1>2, <1>3, <1>s DEF SerialInv, Bounds, Undisturbed, Serial, Busy, Exact, Ledger,
     Holds, Saved, vars, records, history
<1>4. CASE (\E c \in Conns : Kick(c)) \/ Restart \/ PeriodExhausted
  <2>1. PICK k \in {"kicks", "restarts", "periods"} :
          spare[k] > 0 /\ spare' = [spare EXCEPT ![k] = @ - 1]
    BY <1>4 DEF Kick, Restart, PeriodExhausted
  <2> QED BY <1>2, <1>3, <2>1, AllowanceUsed DEF SerialInv
<1>5. CASE MCNext /\ AdminStarts
  <2>1. spare' = [spare EXCEPT !.admin = @ - 1]
    BY <1>5 DEF AdminStarts
  <2>2. Bounds' /\ (Undisturbed' => Undisturbed /\ ~overlapped')
    BY <1>3, <2>1 DEF SerialInv, Bounds, Undisturbed
  <2>3. ASSUME Undisturbed' PROVE Serial'
    <3>1. Quiet
      BY <1>5, <2>2, <2>3 DEF MCNext, Begins
    <3> QED BY <1>5, <2>2, <2>3, <3>1, SerialAdmin DEF SerialInv
  <2> QED BY <1>2, <1>3, <2>2, <2>3 DEF SerialInv
<1>6. CASE /\ MCNext
           /\ \/ \E c \in Conns : Join(c) \/ Receive(c) \/ Leave(c) \/ Step(c)
              \/ AdminStep \/ PeriodRolls
  <2>1. spare' = spare
    BY <1>6 DEF Join, Receive, Leave, Step, LoadUser, SaveUser, GetOrCreate, Get, Load,
       Insert, Relay, RelayFails, CheckLast, Persist, Retire, AdminStep, AdminPut,
       AdminSaves, PeriodRolls
  <2>2. Bounds' /\ (Undisturbed' => Undisturbed /\ ~overlapped')
    BY <1>3, <2>1 DEF SerialInv, Bounds, Undisturbed
  <2>3. ASSUME Undisturbed' PROVE Serial'
    <3>1. LedgerInv /\ Serial /\ ~exhausted
      BY <2>2, <2>3 DEF SerialInv, Serial
    <3>2. ASSUME NEW c \in Conns, Join(c) \/ Receive(c) \/ Leave(c) PROVE Serial'
      <4>1. Quiet
        BY <1>6, <2>2, <2>3, <3>2 DEF MCNext, Begins
      <4> QED BY <3>1, <3>2, <4>1, SerialConnection
    <3>3. ASSUME NEW c \in Conns, Step(c) PROVE Serial'
      BY <3>1, <3>3, SerialConnection
    <3>4. CASE AdminStep
      BY <3>1, <3>4, SerialAdmin
    <3>5. CASE PeriodRolls
      BY <3>1, <3>5 DEF PeriodRolls
    <3> QED BY <1>6, <3>2, <3>3, <3>4, <3>5
  <2> QED BY <1>2, <1>3, <2>2, <2>3 DEF SerialInv
<1> QED BY <1>s, <1>4, <1>5, <1>6 DEF MCNext, Next

\* As long as operations on the record do not overlap, and nobody is kicked, the
\* server is not restarted and its monthly quota lasts, a record between two
\* operations bills what was relayed and has the quota that was granted.
THEOREM ExactUndisturbedHolds == MCSpec => []ExactUndisturbed
<1>1. MCInit => SerialInv
  <2> SUFFICES ASSUME MCInit PROVE SerialInv
    OBVIOUS
  <2>1. LedgerInv
    BY LedgerInvInit DEF MCInit
  <2>2. /\ DOMAIN spare = {"admin", "kicks", "restarts", "periods"}
        /\ spare.kicks = MaxKicks /\ spare.restarts = MaxRestarts
        /\ spare.periods = MaxPeriods /\ overlapped = FALSE
    BY DEF MCInit, Init
  <2>3. \A a \in Actors : task[a].pc = "off"
    BY DEF MCInit, Init, Idle
  <2>4. Ledger = Fresh(0) /\ billed = 0 /\ granted = NoCustom /\ ~exhausted
    BY DEF MCInit, Init, Ledger
  <2>5. Serial
    BY <2>3, <2>4 DEF Serial, Busy, Holds, Exact, Fresh
  <2>6. Bounds
    BY <2>2, ConstantsOK DEF Bounds
  <2>7. overlapped \in BOOLEAN
    BY <2>2
  <2> QED BY <2>1, <2>5, <2>6, <2>7 DEF SerialInv
<1>2. SerialInv => ExactUndisturbed
  BY DEF SerialInv, ExactUndisturbed, Serial, BilledExactly, GrantKept, Exact
<1> QED BY <1>1, <1>2, SerialInvStep, PTL DEF MCSpec
=============================================================================
