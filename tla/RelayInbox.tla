----------------------------- MODULE RelayInbox -----------------------------
(***************************************************************************)
(* The relay server between senders and one target user: the relay command *)
(* of handler.rs (relay_deliver_and_finalize), the store-and-forward inbox *)
(* of inbox.rs, and the flush of the inbox in the target's handshakes.     *)
(*                                                                         *)
(* Connections are tokio tasks on several threads.  An action is one call  *)
(* on shared state: a DashMap operation, a send into an unbounded channel, *)
(* or a redb transaction (write transactions exclude each other).  Quota   *)
(* and failure counts of the sender are left to other modules.             *)
(***************************************************************************)
EXTENDS Integers, Sequences, FiniteSets

CONSTANTS Senders,   \* sending connections; each handles one command at a time
          PerSender, \* bound: relay commands of one sender
          Conns,     \* connection attempts of the target user
          Sessions,  \* its session ids
          None,      \* no connection, no session id
          InboxMax,  \* inbox_max_per_user
          TTL,       \* inbox_ttl_secs, in clock ticks
          MaxNow     \* bound: the clock

ASSUME ConstantsOK ==
  /\ IsFiniteSet(Senders) /\ IsFiniteSet(Conns)
  /\ None \notin Conns \cup Sessions
  /\ PerSender \in Nat /\ InboxMax \in Nat \ {0}
  /\ TTL \in Nat \ {0} /\ MaxNow \in Nat

VARIABLES
  users,   \* users: session id -> connection registered under it
  conn,    \* the task of a target connection
  chan,    \* data_tx / data_rx of a connection
  got,     \* what the client at the end of a connection received
  inbox,   \* table "inbox": rows [m, ms, seq]
  seqno,   \* SEQ
  known,   \* the target has a record in table USERS
  relay,   \* the relay command the task of a sender is working on
  answer,  \* status of the relay_response of a message
  now,     \* now_ms()
  lost     \* history: messages dropped with a channel or by the TTL

target  == <<users, conn, known>>
stored  == <<inbox, seqno>>
pipes   == <<chan, got>>
command == <<relay, answer>>
vars == <<target, stored, pipes, command, now, lost>>

Msgs == Senders \X (1..PerSender)
Row == [m : Msgs, ms : 0..MaxNow, seq : Nat]
Statuses == {"none", "ok", "queued", "inbox_full", "inbox_entry_too_large",
             "unknown_target", "error"}
Connecting == {"evicted", "joined", "saved", "flushing"}
Closed == {"off", "gone"}
Closing == {"stopping", "leaving"}
NoCommand == [pc |-> "idle", tx |-> None, keep |-> FALSE, ms |-> 0]

TypeOK ==
  /\ users \in [Sessions -> Conns \cup {None}]
  /\ conn \in [Conns -> [pc : Connecting \cup Closed \cup Closing \cup {"serving"},
                         key : Sessions \cup {None}, left : Seq(Msgs)]]
  /\ chan \in [Conns -> Seq(Msgs)]
  /\ \A c \in Conns : conn[c].pc \in Closed => chan[c] = <<>>
  /\ got \in [Conns -> Seq(Msgs)]
  /\ inbox \subseteq Row
  /\ seqno \in Nat
  /\ known \in BOOLEAN
  /\ relay \in [Senders -> [pc : {"idle", "forward", "check", "store"},
                            tx : Conns \cup {None}, keep : BOOLEAN,
                            ms : 0..MaxNow]]
  /\ answer \in [Msgs -> Statuses]
  /\ now \in 0..MaxNow
  /\ lost \subseteq Msgs

\* The target may have been here before the senders' first command.
Init ==
  /\ users = [s \in Sessions |-> None]
  /\ conn = [c \in Conns |-> [pc |-> "off", key |-> None, left |-> <<>>]]
  /\ chan = [c \in Conns |-> <<>>]
  /\ got = [c \in Conns |-> <<>>]
  /\ inbox = {}
  /\ seqno = 0
  /\ known \in BOOLEAN
  /\ relay = [s \in Senders |-> NoCommand]
  /\ answer = [m \in Msgs |-> "none"]
  /\ now = 0
  /\ lost = {}

----------------------------------------------------------------------------
Elements(q) == {q[i] : i \in 1..Len(q)}
MessagesOf(rows) == {e.m : e \in rows}
Expired(e) == e.ms + TTL <= now
Fresh == {e \in inbox : ~Expired(e)}

\* Faulty variant of the next: no seq in the key, rows of one tick in any order.
OlderByTime(a, b) == a.ms < b.ms \/ (a.ms = b.ms /\ a # b)

\* Order of the table's key (userId, stored_at_ms, seq).
Older(a, b) == a.ms < b.ms \/ (a.ms = b.ms /\ a.seq < b.seq)
InKeyOrder(rows) ==
  {q \in [1..Cardinality(rows) -> rows] :
     \A i, j \in 1..Cardinality(rows) : i < j => Older(q[i], q[j])}

Unanswered(s) == {k \in 1..PerSender : answer[<<s, k>>] = "none"}
Current(s) == <<s, CHOOSE k \in Unanswered(s) : \A i \in Unanswered(s) : k <= i>>

Answer(s, status) ==
  /\ answer' = [answer EXCEPT ![Current(s)] = status]
  /\ relay' = [relay EXCEPT ![s] = NoCommand]

(* Faulty variants of the operations below, one per property.                 *)

ReadWithoutDelete(c) ==                  \* rows are read but not removed
  /\ conn[c].pc = "saved"
  /\ \E q \in InKeyOrder(Fresh) :
       conn' = [conn EXCEPT ![c].pc = "flushing",
                            ![c].left = [i \in DOMAIN q |-> q[i].m]]
  /\ UNCHANGED <<users, known, stored, pipes, command, now, lost>>

StoreEvicting(s) ==                      \* a full inbox drops its oldest row
  LET e == [m |-> Current(s), ms |-> relay[s].ms, seq |-> seqno]
      old == IF Cardinality(Fresh) < InboxMax THEN {}
             ELSE {r \in Fresh : \A x \in Fresh : x = r \/ Older(r, x)}
  IN /\ relay[s].pc = "store"
     /\ inbox' = (Fresh \ old) \cup {e}
     /\ seqno' = seqno + 1
     /\ lost' = lost \cup MessagesOf({x \in inbox : Expired(x)})
     /\ Answer(s, "queued")
     /\ UNCHANGED <<target, pipes, now>>

NoSweep == FALSE                         \* expired rows wait for a handshake

----------------------------------------------------------------------------
\* A relay command: relay_deliver_and_finalize in the task of its sender.

\* The command names a session, or with store_if_offline none; the channel is
\* cloned out of the registry if the session is in it.
Look(s) ==
  /\ relay[s].pc = "idle" /\ Unanswered(s) # {}
  /\ \E t \in Sessions \cup {None}, keep \in BOOLEAN :
       /\ t = None => keep
       /\ relay' = [relay EXCEPT ![s] =
            [pc |-> "forward", tx |-> IF t = None THEN None ELSE users[t],
             keep |-> keep, ms |-> 0]]
  /\ UNCHANGED <<target, stored, pipes, answer, now, lost>>

\* tx.send succeeds as long as the receiver exists, read or not.
Forward(s) ==
  LET c == relay[s].tx IN
  /\ relay[s].pc = "forward"
  /\ IF c # None /\ conn[c].pc \notin Closed
     THEN /\ chan' = [chan EXCEPT ![c] = Append(@, Current(s))]
          /\ Answer(s, "ok")
     ELSE /\ relay' = [relay EXCEPT ![s].pc = "check"]
          /\ UNCHANGED <<chan, answer>>
  /\ UNCHANGED <<target, stored, got, now, lost>>

\* No session, and no inbox wanted, a payload too large for it, or a user who
\* never was here.
Refuse(s) ==
  /\ relay[s].pc = "check"
  /\ \/ ~relay[s].keep /\ Answer(s, "error")
     \/ relay[s].keep /\ Answer(s, "inbox_entry_too_large")
     \/ relay[s].keep /\ ~known /\ Answer(s, "unknown_target")
  /\ UNCHANGED <<target, stored, pipes, now, lost>>

\* stored_at_ms; the bound leaves room for the TTL.
Stamp(s) ==
  /\ relay[s].pc = "check" /\ relay[s].keep /\ known /\ now + TTL <= MaxNow
  /\ relay' = [relay EXCEPT ![s].pc = "store", ![s].ms = now]
  /\ UNCHANGED <<target, stored, pipes, answer, now, lost>>

\* inbox::store, one write transaction: collect the stale rows, then insert
\* unless the rest fills the inbox.
Store(s) ==
  LET e == [m |-> Current(s), ms |-> relay[s].ms, seq |-> seqno] IN
  /\ relay[s].pc = "store"
  /\ lost' = lost \cup MessagesOf(inbox \ Fresh)
  /\ IF Cardinality(Fresh) < InboxMax
     THEN /\ inbox' = Fresh \cup {e}
          /\ seqno' = seqno + 1
          /\ Answer(s, "queued")
     ELSE /\ inbox' = Fresh
          /\ UNCHANGED seqno
          /\ Answer(s, "inbox_full")
  /\ UNCHANGED <<target, pipes, now>>

StoreFails(s) ==
  /\ relay[s].pc = "store"
  /\ Answer(s, "error")
  /\ UNCHANGED <<target, stored, pipes, now, lost>>

----------------------------------------------------------------------------
\* A connection of the target: handle_connection.

\* add_user in two steps: a connection under the same key is taken out first.
Evict(c) ==
  /\ conn[c].pc = "off"
  /\ \E k \in Sessions :
       /\ users' = [users EXCEPT ![k] = None]
       /\ conn' = [conn EXCEPT ![c].pc = "evicted", ![c].key = k]
  /\ UNCHANGED <<known, stored, pipes, command, now, lost>>

Insert(c) ==
  /\ conn[c].pc = "evicted"
  /\ users' = [users EXCEPT ![conn[c].key] = c]
  /\ conn' = [conn EXCEPT ![c].pc = "joined"]
  /\ UNCHANGED <<known, stored, pipes, command, now, lost>>

SaveUser(c) ==
  /\ conn[c].pc = "joined"
  /\ known' = TRUE
  /\ conn' = [conn EXCEPT ![c].pc = "saved"]
  /\ UNCHANGED <<users, stored, pipes, command, now, lost>>

\* inbox::load_and_clear, one write transaction.
LoadAndClear(c) ==
  /\ conn[c].pc = "saved"
  /\ \E q \in InKeyOrder(Fresh) :
       conn' = [conn EXCEPT ![c].pc = "flushing",
                            ![c].left = [i \in DOMAIN q |-> q[i].m]]
  /\ inbox' = {}
  /\ lost' = lost \cup MessagesOf(inbox \ Fresh)
  /\ UNCHANGED <<users, known, seqno, pipes, command, now>>

LoadFails(c) ==
  /\ conn[c].pc = "saved"
  /\ conn' = [conn EXCEPT ![c].pc = "flushing"]
  /\ UNCHANGED <<users, known, stored, pipes, command, now, lost>>

FlushOne(c) ==
  /\ conn[c].pc = "flushing" /\ conn[c].left # <<>>
  /\ chan' = [chan EXCEPT ![c] = Append(@, Head(conn[c].left))]
  /\ conn' = [conn EXCEPT ![c].left = Tail(@)]
  /\ UNCHANGED <<users, known, stored, got, command, now, lost>>

Greet(c) ==
  /\ conn[c].pc = "flushing" /\ conn[c].left = <<>>
  /\ conn' = [conn EXCEPT ![c].pc = "serving"]
  /\ UNCHANGED <<users, known, stored, pipes, command, now, lost>>

\* The receiver is dropped with everything in it.
DropChannel(c) ==
  /\ conn' = [conn EXCEPT ![c].pc = "gone"]
  /\ chan' = [chan EXCEPT ![c] = <<>>]
  /\ lost' = lost \cup Elements(chan[c])
  /\ UNCHANGED <<known, stored, got, command, now>>

\* The greeting cannot be sent: the ? leaves handle_connection, and the session
\* stays in the registry.
GreetFails(c) ==
  /\ conn[c].pc = "flushing" /\ conn[c].left = <<>>
  /\ DropChannel(c)
  /\ UNCHANGED users

Deliver(c) ==
  /\ conn[c].pc = "serving" /\ chan[c] # <<>>
  /\ got' = [got EXCEPT ![c] = Append(@, Head(chan[c]))]
  /\ chan' = [chan EXCEPT ![c] = Tail(@)]
  /\ UNCHANGED <<target, stored, command, now, lost>>

\* The message is out of the channel when its write fails and ends the loop.
DeliverFails(c) ==
  /\ conn[c].pc = "serving" /\ chan[c] # <<>>
  /\ conn' = [conn EXCEPT ![c].pc = "stopping"]
  /\ chan' = [chan EXCEPT ![c] = Tail(@)]
  /\ lost' = lost \cup {Head(chan[c])}
  /\ UNCHANGED <<users, known, stored, got, command, now>>

\* The loop ends: a close, an error, a missed heartbeat, a disconnect signal.
Stop(c) ==
  /\ conn[c].pc = "serving"
  /\ conn' = [conn EXCEPT ![c].pc = "stopping"]
  /\ UNCHANGED <<users, known, stored, pipes, command, now, lost>>

\* remove_user_if_current
Unregister(c) ==
  /\ conn[c].pc = "stopping"
  /\ users' = [users EXCEPT ![conn[c].key] = IF @ = c THEN None ELSE @]
  /\ conn' = [conn EXCEPT ![c].pc = "leaving"]
  /\ UNCHANGED <<known, stored, pipes, command, now, lost>>

Return(c) ==
  /\ conn[c].pc = "leaving"
  /\ DropChannel(c)
  /\ UNCHANGED users

----------------------------------------------------------------------------
Tick ==
  /\ now < MaxNow
  /\ now' = now + 1
  /\ UNCHANGED <<target, stored, pipes, command, lost>>

\* inbox::sweep_expired, called by the flush timer.
Sweep ==
  /\ inbox # Fresh
  /\ inbox' = Fresh
  /\ lost' = lost \cup MessagesOf(inbox \ Fresh)
  /\ UNCHANGED <<target, seqno, pipes, command, now>>

Command(s) == Forward(s) \/ Refuse(s) \/ Stamp(s) \/ Store(s) \/ StoreFails(s)

Handshake(c) ==
  \/ Insert(c) \/ SaveUser(c) \/ LoadAndClear(c) \/ LoadFails(c) \/ FlushOne(c)
  \/ Greet(c) \/ GreetFails(c)

Next ==
  \/ \E s \in Senders : Look(s) \/ Command(s)
  \/ \E c \in Conns : Evict(c) \/ Handshake(c) \/ Deliver(c) \/ DeliverFails(c)
                      \/ Stop(c) \/ Unregister(c) \/ Return(c)
  \/ Tick \/ Sweep

Spec == Init /\ [][Next]_vars

\* tokio polls a task that can go on, and the clock and the flush timer go on.
\* Clients owe nothing: they may never connect, command or close.
FairSpec ==
  /\ Spec
  /\ WF_vars(Tick) /\ WF_vars(Sweep)
  /\ \A s \in Senders : WF_vars(Command(s))
  /\ \A c \in Conns : WF_vars(Handshake(c)) /\ WF_vars(Deliver(c))

----------------------------------------------------------------------------
InPipe(c) == Elements(chan[c]) \cup Elements(conn[c].left)
Pending == MessagesOf(inbox) \cup UNION {InPipe(c) : c \in Conns}
Received == UNION {Elements(got[c]) : c \in Conns}

\* A message the server accepted ("ok" or "queued") is on its way, received, or
\* was dropped for one of two reasons: its channel closed or its TTL passed.  A
\* full inbox and a handshake racing a store lose nothing silently.
AcceptedIsAccounted ==
  \A m \in Msgs : answer[m] \in {"ok", "queued"} =>
    m \in Pending \cup Received \cup lost

\* An accepted message leaves its place unreceived for one of two reasons: its
\* row is past the TTL, or the connection in whose channel it is fails or ends
\* in that step (handler.rs:1027: a failed handshake, a failed write).
KeptUntilDue ==
  \A m \in Pending \ (Pending' \cup Received') :
    \/ \E e \in inbox : e.m = m /\ Expired(e)
    \/ \E c \in Conns : /\ m \in Elements(chan[c])
                        /\ conn[c].pc \in {"flushing", "serving", "leaving"}
                        /\ conn'[c].pc \in {"stopping", "gone"}

\* Places a message is at, counted with repetitions.
Copies(m) ==
  Cardinality({e \in inbox : e.m = m})
  + Cardinality({x \in Conns \X (1..Cardinality(Msgs)) :
       x[2] <= Len(chan[x[1]]) /\ chan[x[1]][x[2]] = m})
  + Cardinality({x \in Conns \X (1..Cardinality(Msgs)) :
       x[2] <= Len(conn[x[1]].left) /\ conn[x[1]].left[x[2]] = m})
  + Cardinality({x \in Conns \X (1..Cardinality(Msgs)) :
       x[2] <= Len(got[x[1]]) /\ got[x[1]][x[2]] = m})

\* Read-and-delete: however handshakes of several sessions race, the server
\* sends a message to at most one of them, once.
AtMostOnce == \A m \in Msgs : Copies(m) <= 1

\* The rows of one user never exceed inbox_max_per_user, stale ones included:
\* the disk the inbox takes is bounded.
InboxBounded == Cardinality(inbox) <= InboxMax

\* Stored messages of one sender reach a client in the order they were sent,
\* also those stored within one millisecond.
BacklogInOrder ==
  \A c \in Conns : \A i, j \in 1..Len(got[c]) :
    LET a == got[c][i]  b == got[c][j] IN
    /\ i < j /\ a[1] = b[1]
    /\ answer[a] = "queued" /\ answer[b] = "queued"
    => a[2] < b[2]

\* A row leaves the inbox by a handshake or by its TTL, also when the target
\* never returns.
RowsLeave == \A m \in Msgs : m \in MessagesOf(inbox) ~> m \notin MessagesOf(inbox)

(* The channels, the rows and the trails are one mailbox: a session, a        *)
(* handshake or a sweep that races a command neither doubles a message nor    *)
(* drops one unrecorded (handler.rs relay_deliver_and_finalize, inbox.rs).    *)
Verdict(status) == IF status = "none" THEN "none"
                   ELSE IF status \in {"ok", "queued"} THEN "accepted" ELSE "refused"
Mail == INSTANCE Mailbox WITH
          Messages <- Msgs,
          verdict <- [m \in Msgs |-> Verdict(answer[m])],
          held <- Pending, given <- Received, dropped <- lost
RelayIsMailbox == Mail!Spec
=============================================================================
