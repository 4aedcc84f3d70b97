-------------------------- MODULE RelayInboxProofs --------------------------
(***************************************************************************)
(* What the inbox and the handshakes of a user owe the senders, for any    *)
(* number of them, of commands and of connections, and for any TTL: the    *)
(* inbox is bounded (rows are added only by Store, after the stale ones    *)
(* were collected and the rest was counted), an accepted message is        *)
(* accounted for, it is at one place at most, and the stored messages of a *)
(* sender stay in order.                                                   *)
(***************************************************************************)
EXTENDS RelayInbox, FiniteSetTheorems, SequenceTheorems, TLAPS

BoundInv == IsFiniteSet(inbox) /\ InboxBounded

\* Collecting, clearing and leaving rows alone keep the bound.
LEMMA FewerRows ==
  ASSUME BoundInv, inbox' \subseteq inbox
  PROVE  BoundInv'
<1>1. IsFiniteSet(inbox') /\ Cardinality(inbox') <= Cardinality(inbox)
  BY FS_Subset DEF BoundInv
<1>2. Cardinality(inbox') \in Nat /\ Cardinality(inbox) \in Nat
  BY <1>1, FS_CardinalityType DEF BoundInv
<1> QED BY <1>1, <1>2, ConstantsOK DEF BoundInv, InboxBounded

LEMMA StoreKeepsBound ==
  ASSUME BoundInv, NEW s, Store(s)
  PROVE  BoundInv'
<1>1. Fresh \subseteq inbox
  BY DEF Fresh
<1>2. CASE Cardinality(Fresh) < InboxMax
  <2>1. PICK e : inbox' = Fresh \cup {e}
    BY <1>2 DEF Store
  <2>2. IsFiniteSet(Fresh) /\ Cardinality(Fresh) \in Nat
    BY <1>1, FS_Subset, FS_CardinalityType DEF BoundInv
  <2>3. /\ IsFiniteSet(inbox')
        /\ Cardinality(inbox') \in {Cardinality(Fresh), Cardinality(Fresh) + 1}
    BY <2>1, <2>2, FS_AddElement
  <2> QED BY <1>2, <2>2, <2>3, ConstantsOK DEF BoundInv, InboxBounded
<1>3. CASE ~(Cardinality(Fresh) < InboxMax)
  BY <1>1, <1>3, FewerRows DEF Store
<1> QED BY <1>2, <1>3

LEMMA BoundInvStep == BoundInv /\ [Next]_vars => BoundInv'
<1> SUFFICES ASSUME BoundInv, [Next]_vars PROVE BoundInv'
  OBVIOUS
<1>1. Fresh \subseteq inbox
  BY DEF Fresh
<1>2. ASSUME NEW s \in Senders, Look(s) \/ Command(s) PROVE BoundInv'
  <2>1. CASE Store(s)
    BY <2>1, StoreKeepsBound
  <2>2. CASE ~Store(s)
    BY <1>2, <2>2, FewerRows DEF Look, Command, Forward, Refuse, Stamp, StoreFails,
       stored
  <2> QED BY <2>1, <2>2
<1>3. ASSUME NEW c \in Conns,
             \/ Evict(c) \/ Handshake(c) \/ Deliver(c) \/ DeliverFails(c)
             \/ Stop(c) \/ Unregister(c) \/ Return(c)
      PROVE  BoundInv'
  BY <1>3, FewerRows DEF Evict, Handshake, Insert, SaveUser, LoadAndClear,
     LoadFails, FlushOne, Greet, GreetFails, DropChannel, Deliver, DeliverFails, Stop,
     Unregister, Return, stored
<1>4. CASE Tick
  BY <1>4, FewerRows DEF Tick, stored
<1>5. CASE Sweep
  BY <1>1, <1>5, FewerRows DEF Sweep
<1>6. CASE UNCHANGED vars
  BY <1>6, FewerRows DEF vars, stored
<1> QED BY <1>2, <1>3, <1>4, <1>5, <1>6 DEF Next

\* The inbox of a user never holds more rows than inbox_max_per_user, stale rows
\* included (inbox.rs store: collect, count and insert in one transaction).
THEOREM InboxBoundedHolds == Spec => []InboxBounded
<1>1. Init => BoundInv
  <2> SUFFICES ASSUME Init PROVE BoundInv
    OBVIOUS
  <2>1. inbox = {}
    BY DEF Init
  <2>2. IsFiniteSet(inbox) /\ Cardinality(inbox) = 0
    BY <2>1, FS_EmptySet
  <2> QED BY <2>2, ConstantsOK DEF BoundInv, InboxBounded
<1>2. BoundInv => InboxBounded
  BY DEF BoundInv
<1> QED BY <1>1, <1>2, BoundInvStep, PTL DEF Spec

----------------------------------------------------------------------------
(***************************************************************************)
(* Where a message is.  The trail of a connection is what went to its      *)
(* client, what is in its channel and what its handshake still holds, in   *)
(* this order.  A message the server accepted is in one row of the inbox,  *)
(* or at one place of one trail, or lost; rows and trails list the stored  *)
(* messages of a sender in the order they were sent.                       *)
(***************************************************************************)

\* Commands are answered in turn, and a task at work has one to answer.
Turns ==
  \A s \in Senders : \E n \in 0..PerSender :
    /\ \A k \in 1..PerSender : answer[<<s, k>>] = "none" <=> n < k
    /\ relay[s].pc # "idle" => n < PerSender

Stored ==
  /\ \A e \in inbox : answer[e.m] = "queued" /\ e.seq < seqno /\ e.ms <= now
  /\ \A e, f \in inbox : e.m = f.m => e = f
  /\ \A e, f \in inbox : e.m[1] = f.m[1] /\ e.m[2] < f.m[2] => Older(e, f)
  /\ \A s \in Senders : relay[s].pc = "store" =>
       /\ relay[s].ms <= now
       /\ \A e \in inbox : e.m[1] = s => e.ms <= relay[s].ms

Trail(c) == Elements(got[c]) \cup Elements(chan[c]) \cup Elements(conn[c].left)

\* a may stand before b in a trail, by the answers ans.
Ahead(ans, a, b) ==
  /\ a # b
  /\ a[1] = b[1] /\ ans[a] = "queued" /\ ans[b] = "queued" => a[2] < b[2]
InLine(ans, q) == \A i, j \in 1..Len(q) : i < j => Ahead(ans, q[i], q[j])
AllAhead(ans, S, T) == \A a \in S, b \in T : Ahead(ans, a, b)

Lines ==
  \A c \in Conns :
    /\ InLine(answer, got[c]) /\ InLine(answer, chan[c])
    /\ InLine(answer, conn[c].left)
    /\ AllAhead(answer, Elements(got[c]), Elements(chan[c]))
    /\ AllAhead(answer, Elements(got[c]), Elements(conn[c].left))
    /\ AllAhead(answer, Elements(chan[c]), Elements(conn[c].left))

Apart ==
  /\ \A c, d \in Conns : c # d => Trail(c) \cap Trail(d) = {}
  /\ \A c \in Conns : Trail(c) \cap MessagesOf(inbox) = {}

\* What travels was accepted.
Sent == \A c \in Conns : \A m \in Trail(c) : answer[m] \in {"ok", "queued"}

\* Before its handshake reads the inbox a connection has nothing of it.
Unread ==
  \A c \in Conns : conn[c].pc \in {"off", "evicted", "joined", "saved"} =>
    /\ conn[c].left = <<>> /\ got[c] = <<>>
    /\ \A m \in Elements(chan[c]) : answer[m] # "queued"

IInv == /\ TypeOK /\ BoundInv /\ Turns /\ Stored
        /\ Lines /\ Apart /\ Sent /\ Unread /\ AcceptedIsAccounted
(* Sequences.                                                              *)
LEMMA AppendIs ==
  ASSUME NEW S, NEW q \in Seq(S), NEW e \in S
  PROVE  /\ Append(q, e) \in Seq(S) /\ Len(q) \in Nat
         /\ Len(Append(q, e)) = Len(q) + 1 /\ Append(q, e)[Len(q) + 1] = e
         /\ \A j \in 1..Len(q) : Append(q, e)[j] = q[j]
BY AppendProperties, LenProperties

LEMMA TailIs ==
  ASSUME NEW S, NEW q \in Seq(S), q # <<>>
  PROVE  /\ Len(q) \in Nat \ {0} /\ Head(q) = q[1]
         /\ Tail(q) \in Seq(S) /\ Len(Tail(q)) = Len(q) - 1
         /\ \A j \in 1..Len(Tail(q)) : Tail(q)[j] = q[j + 1]
BY HeadTailProperties, EmptySeq, LenProperties

LEMMA ElementsIn ==
  ASSUME NEW S, NEW q \in Seq(S)
  PROVE  /\ Elements(q) \subseteq S /\ Len(q) \in Nat
         /\ \A i \in 1..Len(q) : q[i] \in Elements(q) /\ q[i] \in S
BY ElementOfSeq, LenProperties DEF Elements

LEMMA ElementsOfNone == Elements(<<>>) = {} /\ Len(<<>>) = 0
BY DEF Elements

LEMMA ElementsOfAppend ==
  ASSUME NEW S, NEW q \in Seq(S), NEW e \in S
  PROVE  Elements(Append(q, e)) = Elements(q) \cup {e}
<1>1. /\ Len(q) \in Nat
      /\ Len(Append(q, e)) = Len(q) + 1 /\ Append(q, e)[Len(q) + 1] = e
      /\ \A j \in 1..Len(q) : Append(q, e)[j] = q[j]
  BY AppendIs
<1>2. 1..(Len(q) + 1) = (1..Len(q)) \cup {Len(q) + 1}
  BY <1>1
<1> QED BY <1>1, <1>2 DEF Elements

LEMMA ElementsOfTail ==
  ASSUME NEW S, NEW q \in Seq(S), q # <<>>
  PROVE  Elements(q) = {Head(q)} \cup Elements(Tail(q))
<1>1. /\ Len(q) \in Nat \ {0} /\ Head(q) = q[1] /\ Len(Tail(q)) = Len(q) - 1
      /\ \A j \in 1..Len(Tail(q)) : Tail(q)[j] = q[j + 1]
  BY TailIs
<1>2. \A j \in 2..Len(q) : q[j] = Tail(q)[j - 1] /\ j - 1 \in 1..Len(Tail(q))
  BY <1>1
<1>3. \A j \in 1..Len(Tail(q)) : j + 1 \in 1..Len(q) /\ Tail(q)[j] = q[j + 1]
  BY <1>1
<1>4. 1..Len(q) = {1} \cup 2..Len(q)
  BY <1>1
<1> QED BY <1>1, <1>2, <1>3, <1>4 DEF Elements

LEMMA LineAppend ==
  ASSUME NEW S, NEW q \in Seq(S), NEW e \in S, NEW ans,
         InLine(ans, q), AllAhead(ans, Elements(q), {e})
  PROVE  InLine(ans, Append(q, e))
<1> SUFFICES ASSUME NEW i \in 1..Len(Append(q, e)), NEW j \in 1..Len(Append(q, e)), i < j
             PROVE  Ahead(ans, Append(q, e)[i], Append(q, e)[j])
  BY DEF InLine
<1>1. /\ Len(q) \in Nat
      /\ Len(Append(q, e)) = Len(q) + 1 /\ Append(q, e)[Len(q) + 1] = e
      /\ \A k \in 1..Len(q) : Append(q, e)[k] = q[k]
  BY AppendIs
<1>2. i \in 1..Len(q) /\ Append(q, e)[i] = q[i] /\ q[i] \in Elements(q)
  BY <1>1 DEF Elements
<1>3. CASE j = Len(q) + 1
  BY <1>1, <1>2, <1>3 DEF AllAhead
<1>4. CASE j # Len(q) + 1
  BY <1>1, <1>2, <1>4 DEF InLine
<1> QED BY <1>3, <1>4

LEMMA LineTail ==
  ASSUME NEW S, NEW q \in Seq(S), q # <<>>, NEW ans, InLine(ans, q)
  PROVE  InLine(ans, Tail(q)) /\ AllAhead(ans, {Head(q)}, Elements(Tail(q)))
<1>1. /\ Len(q) \in Nat \ {0} /\ Head(q) = q[1] /\ Len(Tail(q)) = Len(q) - 1
      /\ \A j \in 1..Len(Tail(q)) : Tail(q)[j] = q[j + 1]
  BY TailIs
<1>2. \A j \in 1..Len(Tail(q)) : j + 1 \in 1..Len(q)
  BY <1>1
<1>3. InLine(ans, Tail(q))
  BY <1>1, <1>2 DEF InLine
<1>4. AllAhead(ans, {Head(q)}, Elements(Tail(q)))
  <2> SUFFICES ASSUME NEW j \in 1..Len(Tail(q)) PROVE Ahead(ans, Head(q), Tail(q)[j])
    BY DEF AllAhead, Elements
  <2>1. 1 \in 1..Len(q) /\ j + 1 \in 1..Len(q) /\ 1 < j + 1
    BY <1>1
  <2> QED BY <1>1, <2>1 DEF InLine
<1> QED BY <1>3, <1>4

\* A line stays one when the answers of its messages stay.
LEMMA SameAnswers ==
  ASSUME NEW ans, NEW new, NEW q, InLine(ans, q),
         \A m \in Elements(q) : new[m] = ans[m]
  PROVE  InLine(new, q)
BY DEF InLine, Ahead, Elements

LEMMA SameAnswersAll ==
  ASSUME NEW ans, NEW new, NEW S, NEW T, AllAhead(ans, S, T),
         \A m \in S \cup T : new[m] = ans[m]
  PROVE  AllAhead(new, S, T)
BY DEF AllAhead, Ahead

(* The message a task works on is the first unanswered one of its sender.   *)
LEMMA CurrentIs ==
  ASSUME TypeOK, Turns, NEW s \in Senders, relay[s].pc # "idle"
  PROVE  /\ Current(s) \in Msgs /\ Current(s)[1] = s /\ answer[Current(s)] = "none"
         /\ Current(s)[2] \in 1..PerSender /\ Current(s) = <<s, Current(s)[2]>>
         /\ \A k \in 1..PerSender : answer[<<s, k>>] = "none" <=> Current(s)[2] <= k
<1>1. PICK n \in 0..PerSender :
        /\ \A k \in 1..PerSender : answer[<<s, k>>] = "none" <=> n < k
        /\ n < PerSender
  BY DEF Turns
<1>2. PerSender \in Nat /\ Unanswered(s) = (n + 1)..PerSender
  BY <1>1, ConstantsOK DEF Unanswered
<1> DEFINE first == CHOOSE k \in Unanswered(s) : \A i \in Unanswered(s) : k <= i
<1>3. n + 1 \in Unanswered(s) /\ \A i \in Unanswered(s) : n + 1 <= i
  BY <1>1, <1>2
<1>4. first \in Unanswered(s) /\ \A i \in Unanswered(s) : first <= i
  BY <1>3
<1>5. first = n + 1
  BY <1>2, <1>3, <1>4
<1>6. Current(s) = <<s, n + 1>>
  BY <1>5 DEF Current
<1> QED BY <1>1, <1>2, <1>3, <1>6 DEF Msgs, Unanswered
(* Types.                                                                  *)
LEMMA ConnTyped ==
  ASSUME TypeOK, NEW c \in Conns
  PROVE  /\ chan[c] \in Seq(Msgs) /\ got[c] \in Seq(Msgs) /\ conn[c].left \in Seq(Msgs)
         /\ conn[c] = [pc |-> conn[c].pc, key |-> conn[c].key, left |-> conn[c].left]
         /\ conn[c].key \in Sessions \cup {None}
         /\ Elements(chan[c]) \subseteq Msgs /\ Elements(got[c]) \subseteq Msgs
         /\ Elements(conn[c].left) \subseteq Msgs
<1>1. /\ chan[c] \in Seq(Msgs) /\ got[c] \in Seq(Msgs) /\ conn[c].left \in Seq(Msgs)
      /\ conn[c] = [pc |-> conn[c].pc, key |-> conn[c].key, left |-> conn[c].left]
      /\ conn[c].key \in Sessions \cup {None}
  BY DEF TypeOK
<1> QED BY <1>1, ElementsIn

\* The rows in the order of the key, each at one place.
LEMMA KeyOrderIs ==
  ASSUME TypeOK, BoundInv, NEW q \in InKeyOrder(Fresh)
  PROVE  /\ Cardinality(Fresh) \in Nat /\ DOMAIN q = 1..Cardinality(Fresh)
         /\ \A i \in DOMAIN q : q[i] \in Fresh
         /\ \A e \in Fresh : \E i \in DOMAIN q : q[i] = e
         /\ \A i, j \in DOMAIN q : i < j => Older(q[i], q[j])
<1> DEFINE N == 1..Cardinality(Fresh)
<1>1. IsFiniteSet(Fresh) /\ Fresh \subseteq Row
  BY FS_Subset DEF BoundInv, Fresh, TypeOK
<1>2. Cardinality(Fresh) \in Nat
  BY <1>1, FS_CardinalityType
<1>3. q \in [N -> Fresh] /\ \A i, j \in N : i < j => Older(q[i], q[j])
  BY DEF InKeyOrder
<1>4. \A i, j \in N : i # j => q[i] # q[j]
  <2> SUFFICES ASSUME NEW i \in N, NEW j \in N, i < j PROVE q[i] # q[j]
    BY <1>2
  <2>1. Older(q[i], q[j]) /\ q[i].ms \in Int /\ q[i].seq \in Int
    BY <1>1, <1>3, ConstantsOK DEF Row
  <2> QED BY <2>1 DEF Older
<1>5. q \in Injection(N, Fresh)
  BY <1>3, <1>4 DEF Injection, IsInjective
<1>6. IsFiniteSet(N) /\ Cardinality(N) = Cardinality(Fresh)
  BY <1>2, FS_Interval
<1>7. q \in Surjection(N, Fresh)
  BY <1>1, <1>5, <1>6, FS_Injection
<1> QED BY <1>2, <1>3, <1>7 DEF Surjection

LEMMA LoadedIs ==
  ASSUME TypeOK, BoundInv, NEW q \in InKeyOrder(Fresh),
         NEW left, left = [i \in DOMAIN q |-> q[i].m]
  PROVE  /\ left \in Seq(Msgs) /\ Len(left) = Cardinality(Fresh)
         /\ Elements(left) = MessagesOf(Fresh)
<1>1. /\ Cardinality(Fresh) \in Nat /\ DOMAIN q = 1..Cardinality(Fresh)
      /\ \A i \in DOMAIN q : q[i] \in Fresh
      /\ \A e \in Fresh : \E i \in DOMAIN q : q[i] = e
  BY KeyOrderIs
<1>2. Fresh \subseteq Row
  BY DEF Fresh, TypeOK
<1>3. left \in [1..Cardinality(Fresh) -> Msgs]
  BY <1>1, <1>2 DEF Row
<1>4. left \in Seq(Msgs) /\ Len(left) = Cardinality(Fresh)
  BY <1>1, <1>3, ConstantsOK
<1> QED BY <1>1, <1>4 DEF Elements, MessagesOf

Pcs == {"evicted", "joined", "saved", "flushing", "off", "gone", "stopping",
        "leaving", "serving"}
ConnType == [pc : Pcs, key : Sessions \cup {None}, left : Seq(Msgs)]
RelayType == [pc : {"idle", "forward", "check", "store"}, tx : Conns \cup {None},
              keep : BOOLEAN, ms : 0..MaxNow]

LEMMA PcsAre == Pcs = Connecting \cup Closed \cup Closing \cup {"serving"}
BY DEF Pcs, Connecting, Closed, Closing

\* A connection that is not closed may have any channel.
LEMMA TypeOfConn ==
  ASSUME TypeOK, NEW c \in Conns, NEW r \in ConnType, conn' = [conn EXCEPT ![c] = r],
         chan' \in [Conns -> Seq(Msgs)], r.pc \in Closed => chan'[c] = <<>>,
         \A d \in Conns \ {c} : chan'[d] = chan[d]
  PROVE  /\ conn' \in [Conns -> ConnType]
         /\ \A d \in Conns : conn'[d].pc \in Closed => chan'[d] = <<>>
<1>1. conn \in [Conns -> ConnType]
  BY PcsAre DEF TypeOK, ConnType
<1>2. \A d \in Conns : conn'[d] = IF d = c THEN r ELSE conn[d]
  BY <1>1
<1> QED BY <1>1, <1>2 DEF TypeOK

LEMMA TypeOfAnswer ==
  ASSUME TypeOK, NEW s \in Senders, NEW st \in Statuses, Answer(s, st)
  PROVE  answer' \in [Msgs -> Statuses] /\ relay' \in [Senders -> RelayType]
<1>1. NoCommand \in RelayType
  BY ConstantsOK DEF NoCommand, RelayType
<1>2. relay' = [relay EXCEPT ![s] = NoCommand] /\ relay \in [Senders -> RelayType]
  BY DEF Answer, TypeOK, RelayType
<1>3. relay' \in [Senders -> RelayType]
  BY <1>1, <1>2
<1>4. answer' \in [Msgs -> Statuses]
  BY DEF Answer, TypeOK
<1> QED BY <1>3, <1>4

LEMMA TypeOfCommand ==
  ASSUME TypeOK, Turns, NEW s \in Senders, Look(s) \/ Command(s)
  PROVE  TypeOK'
<1>t. relay \in [Senders -> RelayType]
  BY DEF TypeOK, RelayType
<1>1. CASE Look(s)
  <2>1. PICK t \in Sessions \cup {None}, keep \in BOOLEAN :
          relay' = [relay EXCEPT ![s] =
            [pc |-> "forward", tx |-> IF t = None THEN None ELSE users[t],
             keep |-> keep, ms |-> 0]]
    BY <1>1 DEF Look
  <2>2. (IF t = None THEN None ELSE users[t]) \in Conns \cup {None} /\ 0 \in 0..MaxNow
    BY ConstantsOK DEF TypeOK
  <2>3. relay' \in [Senders -> RelayType]
    BY <1>t, <2>1, <2>2 DEF RelayType
  <2> QED BY <1>1, <2>3 DEF Look, TypeOK, RelayType, target, stored, pipes
<1>2. CASE Forward(s)
  <2>1. Current(s) \in Msgs
    BY <1>2, CurrentIs DEF Forward
  <2> DEFINE c == relay[s].tx
  <2>2. CASE c # None /\ conn[c].pc \notin Closed
    <3>1. c \in Conns /\ chan[c] \in Seq(Msgs)
      BY <2>2 DEF TypeOK
    <3>2. Append(chan[c], Current(s)) \in Seq(Msgs)
      BY <2>1, <3>1, AppendIs
    <3>3. chan' = [chan EXCEPT ![c] = Append(@, Current(s))] /\ Answer(s, "ok")
      BY <1>2, <2>2 DEF Forward
    <3>4. answer' \in [Msgs -> Statuses] /\ relay' \in [Senders -> RelayType]
      BY <3>3, TypeOfAnswer DEF Statuses
    <3>5. /\ chan' \in [Conns -> Seq(Msgs)]
          /\ \A d \in Conns : conn[d].pc \in Closed => chan'[d] = <<>>
      BY <2>2, <3>1, <3>2, <3>3 DEF TypeOK
    <3> QED BY <1>2, <3>4, <3>5 DEF Forward, RelayType, TypeOK, target, stored
  <2>3. CASE ~(c # None /\ conn[c].pc \notin Closed)
    <3>1. relay' = [relay EXCEPT ![s].pc = "check"]
      BY <1>2, <2>3 DEF Forward
    <3>2. relay' \in [Senders -> RelayType]
      BY <1>t, <3>1 DEF RelayType
    <3> QED BY <1>2, <2>3, <3>2 DEF Forward, TypeOK, RelayType, target, stored
  <2> QED BY <2>2, <2>3
<1>3. CASE Refuse(s) \/ StoreFails(s)
  <2>1. PICK st \in {"error", "inbox_entry_too_large", "unknown_target"} : Answer(s, st)
    BY <1>3 DEF Refuse, StoreFails
  <2>2. answer' \in [Msgs -> Statuses] /\ relay' \in [Senders -> RelayType]
    BY <2>1, TypeOfAnswer DEF Statuses
  <2> QED BY <1>3, <2>2
          DEF Refuse, StoreFails, TypeOK, RelayType, target, stored, pipes
<1>4. CASE Stamp(s)
  <2>1. relay' \in [Senders -> RelayType]
    BY <1>4, <1>t DEF Stamp, RelayType, TypeOK
  <2> QED BY <1>4, <2>1 DEF Stamp, TypeOK, RelayType, target, stored, pipes
<1>5. CASE Store(s)
  <2>1. Current(s) \in Msgs
    BY <1>5, CurrentIs DEF Store
  <2> DEFINE e == [m |-> Current(s), ms |-> relay[s].ms, seq |-> seqno]
  <2>2. e \in Row /\ Fresh \subseteq inbox
    BY <2>1 DEF Row, TypeOK, Fresh
  <2>3. inbox' \subseteq Row /\ seqno' \in Nat
    BY <1>5, <2>2 DEF Store, TypeOK
  <2>4. lost' \subseteq Msgs
    BY <1>5 DEF Store, TypeOK, MessagesOf, Row
  <2>5. PICK st \in {"queued", "inbox_full"} : Answer(s, st)
    BY <1>5 DEF Store
  <2>6. answer' \in [Msgs -> Statuses] /\ relay' \in [Senders -> RelayType]
    BY <2>5, TypeOfAnswer DEF Statuses
  <2> QED BY <1>5, <2>3, <2>4, <2>6 DEF Store, TypeOK, RelayType, target, pipes
<1> QED BY <1>1, <1>2, <1>3, <1>4, <1>5 DEF Command

LEMMA TypeOfDrop ==
  ASSUME TypeOK, NEW c \in Conns, DropChannel(c), UNCHANGED users
  PROVE  TypeOK'
<1>1. <<>> \in Seq(Msgs) /\ lost' \subseteq Msgs
  BY ConnTyped, EmptySeq DEF DropChannel, TypeOK
<1>t. conn \in [Conns -> ConnType] /\ conn[c] \in ConnType
  BY PcsAre DEF TypeOK, ConnType
<1>2. [conn[c] EXCEPT !.pc = "gone"] \in ConnType
  BY <1>t DEF ConnType, Pcs
<1>3. /\ conn' = [conn EXCEPT ![c] = [conn[c] EXCEPT !.pc = "gone"]]
      /\ chan' \in [Conns -> Seq(Msgs)] /\ chan'[c] = <<>>
      /\ \A d \in Conns \ {c} : chan'[d] = chan[d]
  BY <1>1 DEF DropChannel, TypeOK
<1>4. /\ conn' \in [Conns -> ConnType]
      /\ \A d \in Conns : conn'[d].pc \in Closed => chan'[d] = <<>>
  BY <1>2, <1>3, TypeOfConn
<1> QED BY <1>1, <1>3, <1>4, PcsAre DEF DropChannel, TypeOK, stored, command, ConnType

LEMMA TypeOfHandshake ==
  ASSUME TypeOK, BoundInv, NEW c \in Conns, Evict(c) \/ Handshake(c)
  PROVE  TypeOK'
<1>t. conn \in [Conns -> ConnType] /\ conn[c] \in ConnType /\ chan \in [Conns -> Seq(Msgs)]
  BY PcsAre DEF TypeOK, ConnType
<1>1. CASE Evict(c)
  <2>1. PICK k \in Sessions :
          conn' = [conn EXCEPT ![c].pc = "evicted", ![c].key = k]
          /\ users' = [users EXCEPT ![k] = None]
    BY <1>1 DEF Evict
  <2> DEFINE r == [conn[c] EXCEPT !.pc = "evicted", !.key = k]
  <2>2. r \in ConnType /\ r.pc = "evicted" /\ conn' = [conn EXCEPT ![c] = r]
    BY <1>t, <2>1 DEF ConnType, Pcs
  <2>3. chan' = chan /\ users' \in [Sessions -> Conns \cup {None}]
    BY <1>1, <2>1 DEF Evict, pipes, TypeOK
  <2>4. /\ conn' \in [Conns -> ConnType]
        /\ \A d \in Conns : conn'[d].pc \in Closed => chan'[d] = <<>>
    BY <1>t, <2>2, <2>3, TypeOfConn DEF Closed
  <2> QED BY <1>1, <2>3, <2>4, PcsAre DEF Evict, TypeOK, stored, pipes, command, ConnType
<1>2. CASE Insert(c) \/ SaveUser(c) \/ LoadFails(c) \/ Greet(c)
  <2>1. PICK p \in {"joined", "saved", "flushing", "serving"} :
          conn' = [conn EXCEPT ![c].pc = p]
    BY <1>2 DEF Insert, SaveUser, LoadFails, Greet
  <2> DEFINE r == [conn[c] EXCEPT !.pc = p]
  <2>2. r \in ConnType /\ r.pc = p /\ conn' = [conn EXCEPT ![c] = r]
    BY <1>t, <2>1 DEF ConnType, Pcs
  <2>3. chan' = chan /\ users' \in [Sessions -> Conns \cup {None}] /\ known' \in BOOLEAN
    <3>1. CASE Insert(c)
      BY <3>1 DEF Insert, pipes, TypeOK
    <3>2. CASE ~Insert(c)
      BY <1>2, <3>2 DEF SaveUser, LoadFails, Greet, pipes, TypeOK
    <3> QED BY <3>1, <3>2
  <2>4. /\ conn' \in [Conns -> ConnType]
        /\ \A d \in Conns : conn'[d].pc \in Closed => chan'[d] = <<>>
    BY <1>t, <2>2, <2>3, TypeOfConn DEF Closed
  <2> QED BY <1>2, <2>3, <2>4, PcsAre
          DEF Insert, SaveUser, LoadFails, Greet, TypeOK, stored, pipes, command, ConnType
<1>4. CASE LoadAndClear(c)
  <2>1. PICK q \in InKeyOrder(Fresh) :
          conn' = [conn EXCEPT ![c].pc = "flushing",
                               ![c].left = [i \in DOMAIN q |-> q[i].m]]
    BY <1>4 DEF LoadAndClear
  <2> DEFINE left == [i \in DOMAIN q |-> q[i].m]
             r == [conn[c] EXCEPT !.pc = "flushing", !.left = left]
  <2>2. left \in Seq(Msgs)
    BY LoadedIs
  <2>3. r \in ConnType /\ r.pc = "flushing" /\ conn' = [conn EXCEPT ![c] = r]
    <3> HIDE DEF left
    <3>1. r \in ConnType /\ r.pc = "flushing"
      BY <1>t, <2>2 DEF ConnType, Pcs
    <3>2. conn' = [conn EXCEPT ![c] = r]
      BY <2>1, <1>t DEF left
    <3> QED BY <3>1, <3>2
  <2>4. lost' \subseteq Msgs /\ chan' = chan
    BY <1>4 DEF LoadAndClear, TypeOK, MessagesOf, Row, pipes
  <2> HIDE DEF r
  <2>5. /\ conn' \in [Conns -> ConnType]
        /\ \A d \in Conns : conn'[d].pc \in Closed => chan'[d] = <<>>
    BY <1>t, <2>3, <2>4, TypeOfConn DEF Closed
  <2> QED BY <1>4, <2>4, <2>5, PcsAre DEF LoadAndClear, TypeOK, pipes, command, ConnType
<1>5. CASE FlushOne(c)
  <2>1. Head(conn[c].left) \in Msgs /\ Tail(conn[c].left) \in Seq(Msgs)
    BY <1>5, ConnTyped, HeadTailProperties DEF FlushOne
  <2>2. Append(chan[c], Head(conn[c].left)) \in Seq(Msgs)
    BY <2>1, ConnTyped, AppendIs
  <2> DEFINE r == [conn[c] EXCEPT !.left = Tail(conn[c].left)]
  <2>3. r \in ConnType /\ r.pc = "flushing" /\ conn' = [conn EXCEPT ![c] = r]
    BY <1>5, <1>t, <2>1 DEF ConnType, FlushOne
  <2>4. /\ chan' \in [Conns -> Seq(Msgs)]
        /\ \A d \in Conns \ {c} : chan'[d] = chan[d]
    BY <1>5, <1>t, <2>2 DEF FlushOne
  <2> HIDE DEF r
  <2>5. /\ conn' \in [Conns -> ConnType]
        /\ \A d \in Conns : conn'[d].pc \in Closed => chan'[d] = <<>>
    BY <2>3, <2>4, TypeOfConn DEF Closed
  <2> QED BY <1>5, <2>4, <2>5, PcsAre DEF FlushOne, TypeOK, stored, command, ConnType
<1>6. CASE GreetFails(c)
  BY <1>6, TypeOfDrop DEF GreetFails
<1> QED BY <1>1, <1>2, <1>4, <1>5, <1>6 DEF Handshake

LEMMA TypeOfServing ==
  ASSUME TypeOK, NEW c \in Conns,
         Deliver(c) \/ DeliverFails(c) \/ Stop(c) \/ Unregister(c) \/ Return(c)
  PROVE  TypeOK'
<1>t. conn \in [Conns -> ConnType] /\ conn[c] \in ConnType /\ chan \in [Conns -> Seq(Msgs)]
  BY PcsAre DEF TypeOK, ConnType
<1>1. CASE Deliver(c) \/ DeliverFails(c)
  <2>1. Head(chan[c]) \in Msgs /\ Tail(chan[c]) \in Seq(Msgs)
    BY <1>1, ConnTyped, HeadTailProperties DEF Deliver, DeliverFails
  <2>2. Append(got[c], Head(chan[c])) \in Seq(Msgs)
    BY <2>1, ConnTyped, AppendIs
  <2>3. /\ chan' \in [Conns -> Seq(Msgs)]
        /\ \A d \in Conns \ {c} : chan'[d] = chan[d]
    BY <1>1, <1>t, <2>1 DEF Deliver, DeliverFails
  <2>4. CASE Deliver(c)
    <3>1. got' \in [Conns -> Seq(Msgs)]
      BY <2>2, <2>4 DEF Deliver, TypeOK
    <3>2. \A d \in Conns : conn[d].pc \in Closed => chan'[d] = <<>>
      BY <2>3, <2>4 DEF Deliver, TypeOK, Closed
    <3> QED BY <2>3, <2>4, <3>1, <3>2 DEF Deliver, TypeOK, target, stored, command
  <2>5. CASE DeliverFails(c)
    <3> DEFINE r == [conn[c] EXCEPT !.pc = "stopping"]
    <3>1. r \in ConnType /\ r.pc = "stopping" /\ conn' = [conn EXCEPT ![c] = r]
      BY <1>t, <2>5 DEF ConnType, Pcs, DeliverFails
    <3> HIDE DEF r
    <3>2. /\ conn' \in [Conns -> ConnType]
          /\ \A d \in Conns : conn'[d].pc \in Closed => chan'[d] = <<>>
      BY <2>3, <3>1, TypeOfConn DEF Closed
    <3>3. lost' \subseteq Msgs
      BY <2>1, <2>5 DEF DeliverFails, TypeOK
    <3> QED BY <2>3, <2>5, <3>2, <3>3, PcsAre
            DEF DeliverFails, TypeOK, stored, command, ConnType
  <2> QED BY <1>1, <2>4, <2>5
<1>2. CASE Stop(c) \/ Unregister(c)
  <2>1. PICK p \in {"stopping", "leaving"} : conn' = [conn EXCEPT ![c].pc = p]
    BY <1>2 DEF Stop, Unregister
  <2> DEFINE r == [conn[c] EXCEPT !.pc = p]
  <2>2. r \in ConnType /\ r.pc = p /\ conn' = [conn EXCEPT ![c] = r]
    BY <1>t, <2>1 DEF ConnType, Pcs
  <2>3. chan' = chan /\ users' \in [Sessions -> Conns \cup {None}]
    BY <1>2 DEF Stop, Unregister, pipes, TypeOK
  <2>4. /\ conn' \in [Conns -> ConnType]
        /\ \A d \in Conns : conn'[d].pc \in Closed => chan'[d] = <<>>
    BY <1>t, <2>2, <2>3, TypeOfConn DEF Closed
  <2> QED BY <1>2, <2>3, <2>4, PcsAre
          DEF Stop, Unregister, TypeOK, stored, pipes, command, ConnType
<1>4. CASE Return(c)
  BY <1>4, TypeOfDrop DEF Return
<1> QED BY <1>1, <1>2, <1>4

LEMMA TypeStep ==
  ASSUME TypeOK, BoundInv, Turns, [Next]_vars
  PROVE  TypeOK'
<1>1. CASE Tick
  <2>1. now' \in 0..MaxNow
    BY <1>1, ConstantsOK DEF Tick, TypeOK
  <2> QED BY <1>1, <2>1 DEF Tick, TypeOK, target, stored, pipes, command
<1>2. CASE Sweep
  BY <1>2 DEF Sweep, TypeOK, target, pipes, command, Fresh, MessagesOf, Row
<1>3. CASE UNCHANGED vars
  BY <1>3 DEF vars, TypeOK, target, stored, pipes, command
<1> QED BY <1>1, <1>2, <1>3, TypeOfCommand, TypeOfHandshake, TypeOfServing DEF Next
----------------------------------------------------------------------------
(* The other parts, step by step.                                          *)
LEMMA TurnsKept ==
  ASSUME TypeOK, Turns, NEW s \in Senders, answer' = answer,
         \A t \in Senders : relay'[t].pc # "idle" =>
           relay[t].pc # "idle" \/ (t = s /\ Unanswered(s) # {})
  PROVE  Turns'
<1> SUFFICES ASSUME NEW t \in Senders
             PROVE  \E n \in 0..PerSender :
                      /\ \A k \in 1..PerSender : answer[<<t, k>>] = "none" <=> n < k
                      /\ relay'[t].pc # "idle" => n < PerSender
  BY DEF Turns
<1>1. PICK n \in 0..PerSender :
        /\ \A k \in 1..PerSender : answer[<<t, k>>] = "none" <=> n < k
        /\ relay[t].pc # "idle" => n < PerSender
  BY DEF Turns
<1>2. Unanswered(t) # {} => n < PerSender
  <2> SUFFICES ASSUME NEW k \in Unanswered(t) PROVE n < PerSender
    OBVIOUS
  <2>1. k \in 1..PerSender /\ answer[<<t, k>>] = "none" /\ PerSender \in Nat
    BY ConstantsOK DEF Unanswered
  <2> QED BY <1>1, <2>1
<1> QED BY <1>1, <1>2

LEMMA TurnsAnswered ==
  ASSUME TypeOK, Turns, NEW s \in Senders, relay[s].pc # "idle",
         NEW st, st # "none", Answer(s, st)
  PROVE  Turns'
<1>1. /\ Current(s) \in Msgs /\ Current(s)[1] = s /\ Current(s) = <<s, Current(s)[2]>>
      /\ Current(s)[2] \in 1..PerSender
      /\ \A k \in 1..PerSender : answer[<<s, k>>] = "none" <=> Current(s)[2] <= k
  BY CurrentIs
<1>2. /\ \A m \in Msgs : answer'[m] = IF m = Current(s) THEN st ELSE answer[m]
      /\ \A t \in Senders : relay'[t] = IF t = s THEN NoCommand ELSE relay[t]
  BY DEF Answer, TypeOK
<1> SUFFICES ASSUME NEW t \in Senders
             PROVE  \E n \in 0..PerSender :
                      /\ \A k \in 1..PerSender : answer'[<<t, k>>] = "none" <=> n < k
                      /\ relay'[t].pc # "idle" => n < PerSender
  BY DEF Turns
<1>3. \A k \in 1..PerSender : <<t, k>> \in Msgs
  BY DEF Msgs
<1>4. CASE t = s
  <2> DEFINE n == Current(s)[2]
  <2>1. \A k \in 1..PerSender : <<s, k>> = Current(s) <=> k = n
    BY <1>1
  <2>2. \A k \in 1..PerSender : answer'[<<s, k>>] = "none" <=> n < k
    BY <1>1, <1>2, <1>3, <1>4, <2>1
  <2>3. n \in 0..PerSender /\ relay'[t].pc = "idle"
    BY <1>1, <1>2, <1>4, ConstantsOK DEF NoCommand
  <2> HIDE DEF n
  <2> QED BY <1>4, <2>2, <2>3
<1>5. CASE t # s
  BY <1>1, <1>2, <1>3, <1>5 DEF Turns
<1> QED BY <1>4, <1>5

\* Nothing gets into a trail or the inbox, and nothing is newly accepted: what
\* leaves the inbox is lost.
Calm ==
  /\ \A c \in Conns :
       /\ chan'[c] = chan[c] /\ got'[c] = got[c] /\ conn'[c].left = conn[c].left
       /\ conn'[c].pc \in {"off", "evicted", "joined", "saved"} =>
            conn[c].pc \in {"off", "evicted", "joined", "saved"}
  /\ inbox' \subseteq inbox /\ seqno' = seqno /\ now' \in Nat /\ now <= now'
  /\ lost \subseteq lost' /\ MessagesOf(inbox \ inbox') \subseteq lost'
  /\ \A m \in Msgs :
       \/ answer'[m] = answer[m]
       \/ answer[m] = "none" /\ answer'[m] \notin {"ok", "queued"}
  /\ \A s \in Senders : relay'[s].pc = "store" =>
       relay'[s] = relay[s] \/ relay'[s].ms = now'

LEMMA CalmStored ==
  ASSUME TypeOK, Stored, Calm
  PROVE  Stored'
<1>1. inbox \subseteq Row /\ inbox' \subseteq inbox /\ now \in Nat /\ now' \in Nat
      /\ now <= now' /\ seqno' = seqno
  BY ConstantsOK DEF Calm, TypeOK
<1>2. \A e \in inbox : e.m \in Msgs /\ e.ms \in Nat
  BY <1>1, ConstantsOK DEF Row
<1>3. \A e \in inbox' : answer'[e.m] = "queued" /\ e.seq < seqno' /\ e.ms <= now'
  BY <1>1, <1>2 DEF Calm, Stored
<1>4. /\ \A e, f \in inbox' : e.m = f.m => e = f
      /\ \A e, f \in inbox' : e.m[1] = f.m[1] /\ e.m[2] < f.m[2] => Older(e, f)
  BY <1>1 DEF Stored
<1>5. ASSUME NEW s \in Senders, relay'[s].pc = "store"
      PROVE  /\ relay'[s].ms <= now'
             /\ \A e \in inbox' : e.m[1] = s => e.ms <= relay'[s].ms
  <2>1. relay[s].ms \in Nat
    BY ConstantsOK DEF TypeOK
  <2>2. CASE relay'[s] = relay[s]
    BY <1>1, <1>5, <2>1, <2>2 DEF Stored
  <2>3. CASE relay'[s].ms = now'
    BY <1>1, <1>3, <2>3
  <2> QED BY <1>5, <2>2, <2>3 DEF Calm
<1> QED BY <1>3, <1>4, <1>5 DEF Stored

LEMMA CalmTrails ==
  ASSUME TypeOK, Lines, Apart, Sent, Unread, Calm
  PROVE  Lines' /\ Apart' /\ Sent' /\ Unread'
<1>1. \A c \in Conns : chan'[c] = chan[c] /\ got'[c] = got[c] /\ conn'[c].left = conn[c].left
  BY DEF Calm
<1>2. \A c \in Conns : Trail(c)' = Trail(c) /\ Trail(c) \subseteq Msgs
  BY <1>1, ConnTyped DEF Trail
<1>3. \A c \in Conns : \A m \in Trail(c) : answer'[m] = answer[m]
  BY <1>2 DEF Calm, Sent
<1>4. Lines'
  <2> SUFFICES ASSUME NEW c \in Conns
               PROVE  /\ InLine(answer', got[c]) /\ InLine(answer', chan[c])
                      /\ InLine(answer', conn[c].left)
                      /\ AllAhead(answer', Elements(got[c]), Elements(chan[c]))
                      /\ AllAhead(answer', Elements(got[c]), Elements(conn[c].left))
                      /\ AllAhead(answer', Elements(chan[c]), Elements(conn[c].left))
    BY <1>1 DEF Lines
  <2>1. \A m \in Elements(got[c]) \cup Elements(chan[c]) \cup Elements(conn[c].left) :
          answer'[m] = answer[m]
    BY <1>3 DEF Trail
  <2>2. /\ InLine(answer, got[c]) /\ InLine(answer, chan[c])
        /\ InLine(answer, conn[c].left)
        /\ AllAhead(answer, Elements(got[c]), Elements(chan[c]))
        /\ AllAhead(answer, Elements(got[c]), Elements(conn[c].left))
        /\ AllAhead(answer, Elements(chan[c]), Elements(conn[c].left))
    BY DEF Lines
  <2>3. /\ InLine(answer', got[c]) /\ InLine(answer', chan[c])
        /\ InLine(answer', conn[c].left)
    BY <2>1, <2>2, SameAnswers
  <2> QED BY <2>1, <2>2, <2>3, SameAnswersAll
<1>5. Apart'
  BY <1>2 DEF Apart, Calm, MessagesOf
<1>6. Sent'
  BY <1>2, <1>3 DEF Sent
<1>7. Unread'
  <2> SUFFICES ASSUME NEW c \in Conns,
                      conn'[c].pc \in {"off", "evicted", "joined", "saved"}
               PROVE  /\ conn'[c].left = <<>> /\ got'[c] = <<>>
                      /\ \A m \in Elements(chan'[c]) : answer'[m] # "queued"
    BY DEF Unread
  <2>1. /\ conn[c].left = <<>> /\ got[c] = <<>>
        /\ \A m \in Elements(chan[c]) : answer[m] # "queued"
    BY DEF Calm, Unread
  <2> QED BY <1>1, <1>3, <2>1 DEF Trail
<1> QED BY <1>4, <1>5, <1>6, <1>7

LEMMA CalmAccounted ==
  ASSUME TypeOK, AcceptedIsAccounted, Calm
  PROVE  AcceptedIsAccounted'
<1> SUFFICES ASSUME NEW m \in Msgs, answer'[m] \in {"ok", "queued"}
             PROVE  m \in Pending' \cup Received' \cup lost'
  BY DEF AcceptedIsAccounted
<1>1. answer[m] \in {"ok", "queued"}
  BY DEF Calm
<1>2. m \in Pending \cup Received \cup lost
  BY <1>1 DEF AcceptedIsAccounted
<1>3. \A c \in Conns : InPipe(c)' = InPipe(c) /\ got'[c] = got[c]
  BY DEF Calm, InPipe
<1>4. MessagesOf(inbox) \subseteq MessagesOf(inbox') \cup lost' /\ lost \subseteq lost'
  BY DEF Calm, MessagesOf
<1> QED BY <1>2, <1>3, <1>4 DEF Pending, Received

LEMMA CalmStep ==
  ASSUME IInv, TypeOK', Turns', BoundInv', Calm
  PROVE  IInv'
BY CalmStored, CalmTrails, CalmAccounted DEF IInv
\* The steps of a command that queue nothing.
LEMMA CalmCommand ==
  ASSUME IInv, TypeOK', NEW s \in Senders,
         \/ Look(s) \/ Refuse(s) \/ Stamp(s) \/ StoreFails(s)
         \/ (Forward(s) /\ chan' = chan)
         \/ (Store(s) /\ inbox' = Fresh)
  PROVE  Turns' /\ Calm
<1>i. TypeOK /\ Turns /\ Stored
  BY DEF IInv
<1>n. now \in Nat
  BY <1>i, ConstantsOK DEF TypeOK
<1>c. relay[s].pc # "idle" =>
        Current(s) \in Msgs /\ answer[Current(s)] = "none"
  BY <1>i, CurrentIs
<1>r. relay \in [Senders -> RelayType] /\ answer \in [Msgs -> Statuses]
  BY <1>i DEF TypeOK, RelayType
<1>f. Fresh \subseteq inbox
  BY DEF Fresh
<1>1. CASE Look(s)
  <2>1. \A t \in Senders : relay'[t].pc # "idle" =>
           relay[t].pc # "idle" \/ (t = s /\ Unanswered(s) # {})
    BY <1>1, <1>r DEF Look
  <2>2. answer' = answer
    BY <1>1 DEF Look
  <2>3. \A t \in Senders : relay'[t].pc = "store" => relay'[t] = relay[t]
    BY <1>1, <1>r DEF Look
  <2>4. Turns'
    BY <1>i, <2>1, <2>2, TurnsKept
  <2> QED BY <1>1, <1>n, <2>2, <2>3, <2>4
          DEF Look, Calm, target, stored, pipes, MessagesOf
<1>2. CASE Stamp(s) \/ (Forward(s) /\ answer' = answer)
  <2>1. PICK p \in {"check", "store"} :
          /\ relay' = [relay EXCEPT ![s].pc = p] \/ relay' = [relay EXCEPT ![s].pc = p, ![s].ms = now]
          /\ relay[s].pc # "idle" /\ answer' = answer
          /\ p = "store" => relay' = [relay EXCEPT ![s].pc = p, ![s].ms = now]
    <3>1. CASE Stamp(s)
      BY <3>1 DEF Stamp
    <3>2. CASE Forward(s) /\ answer' = answer
      <4>1. answer' # [answer EXCEPT ![Current(s)] = "ok"]
        BY <1>c, <1>r, <3>2 DEF Forward
      <4> QED BY <3>2, <4>1 DEF Forward, Answer
    <3> QED BY <1>2, <3>1, <3>2
  <2>2. \A t \in Senders : relay'[t].pc # "idle" => relay[t].pc # "idle"
    BY <1>r, <2>1 DEF RelayType
  <2>3. now' = now
    BY <1>2 DEF Stamp, Forward
  <2>4. \A t \in Senders : relay'[t].pc = "store" => relay'[t] = relay[t] \/ relay'[t].ms = now'
    BY <1>r, <2>1, <2>3 DEF RelayType
  <2>5. UNCHANGED <<target, stored, got, now, lost>> /\ chan' = chan
    <3>1. CASE Stamp(s)
      BY <3>1 DEF Stamp, pipes
    <3>2. CASE Forward(s) /\ answer' = answer
      <4>1. answer' # [answer EXCEPT ![Current(s)] = "ok"]
        BY <1>c, <1>r, <3>2 DEF Forward
      <4> QED BY <3>2, <4>1 DEF Forward, Answer
    <3> QED BY <1>2, <3>1, <3>2
  <2>6. Turns'
    <3>1. \A t \in Senders : relay'[t].pc # "idle" =>
            relay[t].pc # "idle" \/ (t = s /\ Unanswered(s) # {})
      BY <2>2
    <3>2. answer' = answer
      BY <2>1
    <3> QED BY <1>i, <3>1, <3>2, TurnsKept
  <2>7. /\ conn' = conn /\ chan' = chan /\ got' = got /\ inbox' = inbox /\ seqno' = seqno
        /\ now' = now /\ lost' = lost /\ answer' = answer /\ MessagesOf(inbox \ inbox') = {}
    BY <2>1, <2>5 DEF target, stored, MessagesOf
  <2> QED BY <1>n, <2>4, <2>6, <2>7 DEF Calm
<1>3. CASE Refuse(s) \/ StoreFails(s) \/ (Store(s) /\ inbox' = Fresh)
  <2>1. PICK st \in {"error", "inbox_entry_too_large", "unknown_target", "inbox_full"} :
          Answer(s, st) /\ relay[s].pc # "idle"
    <3>1. CASE Refuse(s) \/ StoreFails(s)
      BY <3>1 DEF Refuse, StoreFails
    <3>2. CASE Store(s) /\ inbox' = Fresh
      <4> DEFINE e == [m |-> Current(s), ms |-> relay[s].ms, seq |-> seqno]
      <4>1. relay[s].pc # "idle"
        BY <3>2 DEF Store
      <4>2. e \notin Fresh
        BY <1>i, <1>c, <1>f, <4>1 DEF Stored
      <4>3. inbox' # Fresh \cup {e}
        BY <3>2, <4>2
      <4> QED BY <3>2, <4>1, <4>3 DEF Store
    <3> QED BY <1>3, <3>1, <3>2
  <2>2. Turns'
    BY <1>i, <2>1, TurnsAnswered
  <2>3. \A m \in Msgs : \/ answer'[m] = answer[m]
                        \/ answer[m] = "none" /\ answer'[m] \notin {"ok", "queued"}
    BY <1>c, <1>r, <2>1 DEF Answer
  <2>4. \A t \in Senders : relay'[t].pc = "store" => relay'[t] = relay[t]
    BY <1>r, <2>1 DEF Answer, NoCommand
  <2>5. /\ UNCHANGED <<target, pipes, now>> /\ inbox' \subseteq inbox
        /\ lost \subseteq lost' /\ MessagesOf(inbox \ inbox') \subseteq lost' /\ seqno' = seqno
    <3>1. CASE Refuse(s) \/ StoreFails(s)
      BY <3>1 DEF Refuse, StoreFails, stored, MessagesOf
    <3>2. CASE Store(s) /\ inbox' = Fresh
      <4> DEFINE e == [m |-> Current(s), ms |-> relay[s].ms, seq |-> seqno]
      <4>1. relay[s].pc # "idle"
        BY <3>2 DEF Store
      <4>2. e \notin Fresh
        BY <1>i, <1>c, <1>f, <4>1 DEF Stored
      <4>3. inbox' # Fresh \cup {e}
        BY <3>2, <4>2
      <4> QED BY <1>f, <3>2, <4>3 DEF Store
    <3> QED BY <1>3, <3>1, <3>2
  <2>6. /\ conn' = conn /\ chan' = chan /\ got' = got /\ seqno' = seqno /\ now' = now
    BY <2>5 DEF target, pipes
  <2>7. inbox' \subseteq inbox /\ lost \subseteq lost' /\ MessagesOf(inbox \ inbox') \subseteq lost'
    BY <2>5
  <2> QED BY <1>n, <2>2, <2>3, <2>4, <2>6, <2>7 DEF Calm
<1>4. CASE Forward(s) /\ chan' = chan /\ answer' # answer
  <2>1. /\ relay[s].tx \in Conns /\ Current(s) \in Msgs
        /\ chan' = [chan EXCEPT ![relay[s].tx] = Append(@, Current(s))]
    BY <1>4, <1>c, <1>r DEF Forward, RelayType
  <2>2. chan[relay[s].tx] \in Seq(Msgs) /\ chan'[relay[s].tx] = Append(chan[relay[s].tx], Current(s))
    BY <1>i, <2>1 DEF TypeOK
  <2>3. Append(chan[relay[s].tx], Current(s)) # chan[relay[s].tx]
    BY <2>1, <2>2, AppendProperties, LenProperties
  <2> QED BY <1>4, <2>2, <2>3
<1>5. CASE Forward(s) /\ chan' = chan
  BY <1>2, <1>4, <1>5
<1> QED BY <1>1, <1>2, <1>3, <1>5

\* The steps of a connection that move no message.
LEMMA CalmConn ==
  ASSUME IInv, NEW c \in Conns,
         \/ Evict(c) \/ Insert(c) \/ SaveUser(c) \/ LoadFails(c) \/ Greet(c)
         \/ Stop(c) \/ Unregister(c)
  PROVE  Turns' /\ Calm
<1>n. now \in Nat /\ Turns
  BY ConstantsOK DEF TypeOK, IInv
<1>1. UNCHANGED <<stored, pipes, command, now, lost>>
  BY DEF Evict, Insert, SaveUser, LoadFails, Greet, Stop, Unregister
<1>2. Turns'
  BY <1>n, <1>1 DEF Turns, command
<1>3. PICK p \in {"evicted", "joined", "saved", "flushing", "serving", "stopping", "leaving"} :
        /\ \/ conn' = [conn EXCEPT ![c].pc = p]
           \/ \E k \in Sessions : conn' = [conn EXCEPT ![c].pc = p, ![c].key = k]
        /\ p \in {"evicted", "joined", "saved"} =>
             conn[c].pc \in {"off", "evicted", "joined", "saved"}
  BY DEF Evict, Insert, SaveUser, LoadFails, Greet, Stop, Unregister
<1>4. conn \in [Conns -> ConnType]
  BY PcsAre DEF IInv, TypeOK, ConnType
<1>5. \A d \in Conns :
        /\ conn'[d].left = conn[d].left
        /\ conn'[d].pc \in {"off", "evicted", "joined", "saved"} =>
             conn[d].pc \in {"off", "evicted", "joined", "saved"}
  BY <1>3, <1>4 DEF ConnType
<1> QED BY <1>n, <1>1, <1>2, <1>5 DEF Calm, stored, pipes, command, MessagesOf

LEMMA CalmClock ==
  ASSUME IInv, Tick \/ Sweep \/ UNCHANGED vars
  PROVE  Turns' /\ Calm
<1>n. now \in Nat /\ Turns /\ Fresh \subseteq inbox
  BY ConstantsOK DEF TypeOK, IInv, Fresh
<1>1. UNCHANGED <<target, pipes, command>>
  BY DEF Tick, Sweep, vars
<1>2. Turns'
  BY <1>n, <1>1 DEF Turns, command
<1>3. /\ inbox' \subseteq inbox /\ seqno' = seqno /\ now' \in Nat /\ now <= now'
      /\ lost \subseteq lost' /\ MessagesOf(inbox \ inbox') \subseteq lost'
  BY <1>n DEF Tick, Sweep, vars, stored, MessagesOf
<1> QED BY <1>1, <1>2, <1>3 DEF Calm, target, pipes, command
\* The pieces of the trail of c, one after the other.
OneLine(ans, g, h, l) ==
  /\ InLine(ans, g) /\ InLine(ans, h) /\ InLine(ans, l)
  /\ AllAhead(ans, Elements(g), Elements(h)) /\ AllAhead(ans, Elements(g), Elements(l))
  /\ AllAhead(ans, Elements(h), Elements(l))

LEMMA LinesAre ==
  Lines <=> \A c \in Conns : OneLine(answer, got[c], chan[c], conn[c].left)
BY DEF Lines, OneLine

\* A step of connection c that moves messages along its trail, or loses some.
LEMMA TrailStep ==
  ASSUME IInv, TypeOK', NEW c \in Conns,
         inbox' = inbox, seqno' = seqno, answer' = answer, relay' = relay, now' = now,
         \A d \in Conns \ {c} : /\ conn'[d] = conn[d]
                                /\ chan'[d] = chan[d] /\ got'[d] = got[d],
         OneLine(answer, got'[c], chan'[c], conn'[c].left),
         conn'[c].pc \notin {"off", "evicted", "joined", "saved"},
         Trail(c)' \subseteq Trail(c), Trail(c) \subseteq Trail(c)' \cup lost',
         lost \subseteq lost'
  PROVE  IInv'
<1>1. BoundInv' /\ Turns' /\ Stored'
  BY DEF IInv, BoundInv, InboxBounded, Turns, Stored
<1>2. \A d \in Conns \ {c} : Trail(d)' = Trail(d)
  BY DEF Trail
<1>3. \A d \in Conns : Trail(d)' \subseteq Trail(d) /\ Trail(d) \subseteq Trail(d)' \cup lost'
  BY <1>2
<1>4. Lines'
  <2>1. \A d \in Conns : OneLine(answer, got'[d], chan'[d], conn'[d].left)
    BY LinesAre DEF IInv
  <2> QED BY <2>1 DEF Lines, OneLine
<1>5. Apart'
  BY <1>3 DEF IInv, Apart
<1>6. Sent'
  BY <1>3 DEF IInv, Sent
<1>7. Unread'
  BY DEF IInv, Unread
<1>8. AcceptedIsAccounted'
  <2> SUFFICES ASSUME NEW m \in Msgs, answer[m] \in {"ok", "queued"}
               PROVE  m \in Pending' \cup Received' \cup lost'
    BY DEF AcceptedIsAccounted
  <2>1. m \in Pending \cup Received \cup lost
    BY DEF IInv, AcceptedIsAccounted
  <2>2. m \in MessagesOf(inbox) \cup lost \/ \E d \in Conns : m \in Trail(d)
    BY <2>1 DEF Pending, Received, InPipe, Trail
  <2>3. m \in MessagesOf(inbox') \cup lost' \/ \E d \in Conns : m \in Trail(d)'
    BY <1>3, <2>2
  <2> QED BY <2>3 DEF Pending, Received, InPipe, Trail
<1> QED BY <1>1, <1>4, <1>5, <1>6, <1>7, <1>8 DEF IInv

LEMMA FlushStep ==
  ASSUME IInv, TypeOK', NEW c \in Conns, FlushOne(c)
  PROVE  IInv'
<1> DEFINE l == conn[c].left
           m == Head(l)
<1>1. TypeOK /\ OneLine(answer, got[c], chan[c], l)
  BY LinesAre DEF IInv
<1>2. /\ l \in Seq(Msgs) /\ l # <<>> /\ chan[c] \in Seq(Msgs)
      /\ m \in Msgs /\ Tail(l) \in Seq(Msgs)
  BY <1>1, ConnTyped, HeadTailProperties DEF FlushOne
<1>3. /\ chan' = [chan EXCEPT ![c] = Append(chan[c], m)] /\ got' = got
      /\ conn' = [conn EXCEPT ![c].left = Tail(l)]
      /\ conn[c].pc = "flushing"
      /\ UNCHANGED <<inbox, seqno, answer, relay, now, lost>>
  BY DEF FlushOne, stored, command
<1>4. /\ chan'[c] = Append(chan[c], m) /\ conn'[c].left = Tail(l)
      /\ conn'[c].pc = "flushing"
      /\ \A d \in Conns \ {c} : conn'[d] = conn[d] /\ chan'[d] = chan[d]
  BY <1>1, <1>3 DEF TypeOK
<1>5. /\ Elements(Append(chan[c], m)) = Elements(chan[c]) \cup {m}
      /\ Elements(l) = {m} \cup Elements(Tail(l))
  BY <1>2, ElementsOfAppend, ElementsOfTail
<1>6. InLine(answer, Tail(l)) /\ AllAhead(answer, {m}, Elements(Tail(l)))
  BY <1>1, <1>2, LineTail DEF OneLine
<1>7. InLine(answer, Append(chan[c], m))
  <2>1. InLine(answer, chan[c]) /\ AllAhead(answer, Elements(chan[c]), {m})
    BY <1>1, <1>5 DEF OneLine, AllAhead
  <2> QED BY <1>2, <2>1, LineAppend
<1> HIDE DEF m, l
<1>8. OneLine(answer, got'[c], chan'[c], conn'[c].left)
  BY <1>1, <1>3, <1>4, <1>5, <1>6, <1>7 DEF OneLine, AllAhead
<1>9. Trail(c)' = Trail(c)
  BY <1>3, <1>4, <1>5 DEF Trail, l
<1> QED BY <1>3, <1>4, <1>8, <1>9, TrailStep

LEMMA DeliverStep ==
  ASSUME IInv, TypeOK', NEW c \in Conns, Deliver(c) \/ DeliverFails(c)
  PROVE  IInv'
<1> DEFINE h == chan[c]
           m == Head(h)
<1>1. TypeOK /\ OneLine(answer, got[c], h, conn[c].left)
  BY LinesAre DEF IInv
<1>2. /\ h \in Seq(Msgs) /\ h # <<>> /\ got[c] \in Seq(Msgs)
      /\ m \in Msgs /\ Tail(h) \in Seq(Msgs)
  BY <1>1, ConnTyped, HeadTailProperties DEF Deliver, DeliverFails
<1>3. /\ chan' = [chan EXCEPT ![c] = Tail(h)]
      /\ UNCHANGED <<inbox, seqno, answer, relay, now>>
  BY DEF Deliver, DeliverFails, stored, command
<1>4. chan'[c] = Tail(h) /\ \A d \in Conns \ {c} : chan'[d] = chan[d]
  BY <1>1, <1>3 DEF TypeOK
<1>5. Elements(h) = {m} \cup Elements(Tail(h))
  BY <1>2, ElementsOfTail
<1>6. InLine(answer, Tail(h)) /\ AllAhead(answer, {m}, Elements(Tail(h)))
  BY <1>1, <1>2, LineTail DEF OneLine
<1>7. CASE Deliver(c)
  <2>1. got' = [got EXCEPT ![c] = Append(got[c], m)] /\ conn' = conn /\ lost' = lost
    BY <1>7 DEF Deliver, target
  <2>2. /\ got'[c] = Append(got[c], m) /\ \A d \in Conns \ {c} : got'[d] = got[d]
        /\ conn[c].pc = "serving"
    BY <1>1, <1>7, <2>1 DEF TypeOK, Deliver
  <2>3. Elements(Append(got[c], m)) = Elements(got[c]) \cup {m}
    BY <1>2, ElementsOfAppend
  <2>4. InLine(answer, Append(got[c], m))
    <3>1. InLine(answer, got[c]) /\ AllAhead(answer, Elements(got[c]), {m})
      BY <1>1, <1>5 DEF OneLine, AllAhead
    <3> QED BY <1>2, <3>1, LineAppend
  <2> HIDE DEF m, h
  <2>5. OneLine(answer, got'[c], chan'[c], conn'[c].left)
    BY <1>1, <1>4, <1>5, <1>6, <2>1, <2>2, <2>3, <2>4 DEF OneLine, AllAhead
  <2>6. Trail(c)' = Trail(c)
    BY <1>4, <1>5, <2>1, <2>2, <2>3 DEF Trail, h
  <2> QED BY <1>3, <1>4, <2>1, <2>2, <2>5, <2>6, TrailStep
<1>8. CASE DeliverFails(c)
  <2>1. /\ got' = got /\ conn' = [conn EXCEPT ![c].pc = "stopping"] /\ lost' = lost \cup {m}
    BY <1>8 DEF DeliverFails
  <2>2. /\ conn'[c].left = conn[c].left /\ conn'[c].pc = "stopping"
        /\ \A d \in Conns \ {c} : conn'[d] = conn[d]
    BY <1>1, <2>1 DEF TypeOK
  <2> HIDE DEF m, h
  <2>3. OneLine(answer, got'[c], chan'[c], conn'[c].left)
    BY <1>1, <1>4, <1>5, <1>6, <2>1, <2>2 DEF OneLine, AllAhead
  <2>4. Trail(c)' \subseteq Trail(c) /\ Trail(c) \subseteq Trail(c)' \cup lost'
    BY <1>4, <1>5, <2>1, <2>2 DEF Trail, h
  <2> QED BY <1>3, <1>4, <2>1, <2>2, <2>3, <2>4, TrailStep
<1> QED BY <1>7, <1>8

LEMMA DropStep ==
  ASSUME IInv, TypeOK', NEW c \in Conns, DropChannel(c)
  PROVE  IInv'
<1>1. TypeOK /\ OneLine(answer, got[c], chan[c], conn[c].left)
  BY LinesAre DEF IInv
<1>2. /\ conn' = [conn EXCEPT ![c].pc = "gone"] /\ chan' = [chan EXCEPT ![c] = <<>>]
      /\ lost' = lost \cup Elements(chan[c]) /\ got' = got
      /\ UNCHANGED <<inbox, seqno, answer, relay, now>>
  BY DEF DropChannel, stored, command
<1>3. /\ chan'[c] = <<>> /\ conn'[c].left = conn[c].left /\ conn'[c].pc = "gone"
      /\ \A d \in Conns \ {c} : conn'[d] = conn[d] /\ chan'[d] = chan[d]
  BY <1>1, <1>2 DEF TypeOK
<1>4. OneLine(answer, got'[c], chan'[c], conn'[c].left)
  BY <1>1, <1>2, <1>3, ElementsOfNone DEF OneLine, AllAhead, InLine
<1>5. Trail(c)' \subseteq Trail(c) /\ Trail(c) \subseteq Trail(c)' \cup lost'
  BY <1>2, <1>3, ElementsOfNone DEF Trail
<1> QED BY <1>2, <1>3, <1>4, <1>5, TrailStep

\* The rows a handshake reads become what it holds, in the order of their keys.
LEMMA LoadStep ==
  ASSUME IInv, TypeOK', NEW c \in Conns, LoadAndClear(c)
  PROVE  IInv'
<1>1. TypeOK /\ BoundInv /\ Stored /\ Apart /\ OneLine(answer, got[c], chan[c], conn[c].left)
  BY LinesAre DEF IInv
<1>2. PICK q \in InKeyOrder(Fresh) :
        conn' = [conn EXCEPT ![c].pc = "flushing",
                             ![c].left = [i \in DOMAIN q |-> q[i].m]]
  BY DEF LoadAndClear
<1> DEFINE l == [i \in DOMAIN q |-> q[i].m]
<1>3. /\ Cardinality(Fresh) \in Nat /\ DOMAIN q = 1..Cardinality(Fresh)
      /\ \A i \in DOMAIN q : q[i] \in Fresh
      /\ \A i, j \in DOMAIN q : i < j => Older(q[i], q[j])
  BY <1>1, KeyOrderIs
<1>4. /\ l \in Seq(Msgs) /\ Len(l) = Cardinality(Fresh)
      /\ Elements(l) = MessagesOf(Fresh)
  BY <1>1, LoadedIs
<1>5. /\ conn[c].left = <<>> /\ got[c] = <<>>
      /\ \A m \in Elements(chan[c]) : answer[m] # "queued"
  BY DEF IInv, Unread, LoadAndClear
<1>6. /\ inbox' = {} /\ lost' = lost \cup MessagesOf(inbox \ Fresh)
      /\ UNCHANGED <<chan, got, answer, relay, seqno, now>>
  BY DEF LoadAndClear, pipes, command
<1>7. /\ conn'[c].left = l /\ conn'[c].pc = "flushing"
      /\ \A d \in Conns \ {c} : conn'[d] = conn[d]
  BY <1>1, <1>2 DEF TypeOK
<1>f. Fresh \subseteq inbox /\ inbox \subseteq Row
  BY <1>1 DEF Fresh, TypeOK
<1>8. InLine(answer, l)
  <2> SUFFICES ASSUME NEW i \in 1..Len(l), NEW j \in 1..Len(l), i < j
               PROVE  Ahead(answer, l[i], l[j])
    BY DEF InLine
  <2> DEFINE e == q[i]
             f == q[j]
  <2>1. l[i] = e.m /\ l[j] = f.m /\ e \in inbox /\ f \in inbox /\ Older(e, f)
    BY <1>3, <1>4, <1>f
  <2>2. /\ e.ms \in Int /\ e.seq \in Int /\ f.ms \in Int /\ f.seq \in Int
        /\ e.m \in Msgs /\ f.m \in Msgs
    BY <1>f, <2>1, ConstantsOK DEF Row
  <2>3. e.m[2] \in Int /\ f.m[2] \in Int /\ e.m = <<e.m[1], e.m[2]>> /\ f.m = <<f.m[1], f.m[2]>>
    BY <2>2, ConstantsOK DEF Msgs
  <2> HIDE DEF e, f
  <2>4. ~Older(f, e) /\ e # f
    BY <2>1, <2>2 DEF Older
  <2>5. e.m # f.m
    BY <1>1, <2>1, <2>4 DEF Stored
  <2>6. ASSUME e.m[1] = f.m[1] PROVE e.m[2] < f.m[2]
    <3>1. e.m[2] # f.m[2]
      BY <2>3, <2>5, <2>6
    <3>2. ~(f.m[2] < e.m[2])
      BY <1>1, <2>1, <2>4, <2>6 DEF Stored
    <3> QED BY <2>3, <3>1, <3>2
  <2> QED BY <2>1, <2>5, <2>6 DEF Ahead
<1>9. AllAhead(answer, Elements(chan[c]), Elements(l))
  <2> SUFFICES ASSUME NEW a \in Elements(chan[c]), NEW b \in Elements(l)
               PROVE  Ahead(answer, a, b)
    BY DEF AllAhead
  <2>1. a \in Trail(c) /\ b \in MessagesOf(inbox)
    BY <1>4, <1>f DEF Trail, MessagesOf
  <2>2. a # b /\ answer[a] # "queued"
    BY <1>1, <1>5, <2>1 DEF Apart
  <2> QED BY <2>2 DEF Ahead
<1> HIDE DEF l
<1>10. OneLine(answer, got'[c], chan'[c], conn'[c].left)
  BY <1>1, <1>5, <1>6, <1>7, <1>8, <1>9, ElementsOfNone DEF OneLine, AllAhead
<1>11. \A d \in Conns \ {c} : Trail(d)' = Trail(d)
  BY <1>6, <1>7 DEF Trail
<1>12. Trail(c) \subseteq Trail(c)' /\ Trail(c)' \subseteq Trail(c) \cup MessagesOf(inbox)
  BY <1>4, <1>5, <1>6, <1>7, <1>f, ElementsOfNone DEF Trail, MessagesOf
<1>13. Lines'
  <2>1. \A d \in Conns : OneLine(answer', got'[d], chan'[d], conn'[d].left)
    BY <1>6, <1>7, <1>10, LinesAre DEF IInv
  <2> QED BY <2>1 DEF Lines, OneLine
<1>14. Apart'
  BY <1>1, <1>6, <1>11, <1>12 DEF Apart, MessagesOf
<1>15. Sent'
  <2>1. \A m \in MessagesOf(inbox) : answer[m] = "queued"
    BY <1>1 DEF Stored, MessagesOf
  <2> QED BY <1>6, <1>11, <1>12, <2>1 DEF IInv, Sent
<1>16. Unread'
  BY <1>6, <1>7 DEF IInv, Unread
<1>17. BoundInv'
  BY <1>1, <1>6, FewerRows
<1>18. Turns' /\ Stored'
  BY <1>1, <1>6 DEF IInv, Turns, Stored
<1>19. AcceptedIsAccounted'
  <2> SUFFICES ASSUME NEW m \in Msgs, answer[m] \in {"ok", "queued"}
               PROVE  m \in Pending' \cup Received' \cup lost'
    BY <1>6 DEF AcceptedIsAccounted
  <2>1. m \in Pending \cup Received \cup lost
    BY DEF IInv, AcceptedIsAccounted
  <2>2. m \in MessagesOf(inbox) \cup lost \/ \E d \in Conns : m \in Trail(d)
    BY <2>1 DEF Pending, Received, InPipe, Trail
  <2>3. MessagesOf(inbox) \subseteq Trail(c)' \cup lost'
    BY <1>4, <1>6, <1>7 DEF Trail, MessagesOf
  <2>4. m \in lost' \/ \E d \in Conns : m \in Trail(d)'
    BY <1>6, <1>11, <1>12, <2>2, <2>3
  <2> QED BY <2>4 DEF Pending, Received, InPipe, Trail
<1> QED BY <1>13, <1>14, <1>15, <1>16, <1>17, <1>18, <1>19 DEF IInv
\* The message of an open connection, sent without a detour through the inbox.
LEMMA ForwardStep ==
  ASSUME IInv, TypeOK', NEW s \in Senders, Forward(s), chan' # chan
  PROVE  IInv'
<1>1. TypeOK /\ Turns /\ BoundInv /\ Stored /\ Apart /\ Sent
  BY DEF IInv
<1>2. relay[s].pc # "idle" /\ relay[s].tx # None /\ conn[relay[s].tx].pc \notin Closed
  BY DEF Forward
<1>3. PICK c \in Conns, m \in Msgs :
        /\ m = Current(s) /\ answer[m] = "none" /\ conn[c].pc \notin Closed
        /\ chan' = [chan EXCEPT ![c] = Append(@, m)] /\ Answer(s, "ok")
        /\ UNCHANGED <<conn, got, inbox, seqno, now, lost>>
  <2>1. relay[s].tx \in Conns
    BY <1>1, <1>2 DEF TypeOK
  <2>2. Current(s) \in Msgs /\ answer[Current(s)] = "none"
    BY <1>1, <1>2, CurrentIs
  <2>3. /\ chan' = [chan EXCEPT ![relay[s].tx] = Append(@, Current(s))]
        /\ Answer(s, "ok") /\ UNCHANGED <<conn, got, inbox, seqno, now, lost>>
    BY <1>2 DEF Forward, target, stored
  <2> QED BY <1>2, <2>1, <2>2, <2>3
<1>4. m \in Msgs /\ answer[m] = "none"
  BY <1>3
<1>5. /\ \A x \in Msgs : answer'[x] = IF x = m THEN "ok" ELSE answer[x]
      /\ \A t \in Senders : relay'[t].pc = "store" => relay'[t] = relay[t]
  BY <1>1, <1>3 DEF Answer, NoCommand, TypeOK
<1>6. chan[c] \in Seq(Msgs) /\ chan'[c] = Append(chan[c], m)
      /\ \A d \in Conns \ {c} : chan'[d] = chan[d]
  BY <1>1, <1>3 DEF TypeOK
<1>7. Elements(chan'[c]) = Elements(chan[c]) \cup {m}
  BY <1>4, <1>6, ElementsOfAppend
<1>8. \A d \in Conns : m \notin Trail(d) /\ Trail(d) \subseteq Msgs
  BY <1>1, <1>4, ConnTyped DEF Sent, Trail
<1>9. /\ Trail(c)' = Trail(c) \cup {m}
      /\ \A d \in Conns \ {c} : Trail(d)' = Trail(d)
  BY <1>3, <1>6, <1>7 DEF Trail
<1>10. m \notin MessagesOf(inbox)
  BY <1>1, <1>4 DEF Stored, MessagesOf
<1>11. Turns'
  BY <1>1, <1>2, <1>3, TurnsAnswered
<1>12. Stored'
  <2>1. \A e \in inbox : e.m \in Msgs /\ e.m # m
    BY <1>1, <1>10 DEF TypeOK, Row, MessagesOf
  <2> QED BY <1>1, <1>3, <1>5, <2>1 DEF Stored, Older
<1>13. Lines'
  <2> SUFFICES ASSUME NEW d \in Conns
               PROVE  OneLine(answer', got[d], chan'[d], conn[d].left)
    BY <1>3 DEF Lines, OneLine
  <2>1. OneLine(answer, got[d], chan[d], conn[d].left)
    BY LinesAre DEF IInv
  <2>2. \A x \in Elements(got[d]) \cup Elements(chan[d]) \cup Elements(conn[d].left) :
          x # m /\ answer'[x] = answer[x]
    BY <1>5, <1>8 DEF Trail
  <2>3. /\ InLine(answer', got[d]) /\ InLine(answer', chan[d])
        /\ InLine(answer', conn[d].left)
    BY <2>1, <2>2, SameAnswers DEF OneLine
  <2>4. /\ AllAhead(answer', Elements(got[d]), Elements(chan[d]))
        /\ AllAhead(answer', Elements(got[d]), Elements(conn[d].left))
        /\ AllAhead(answer', Elements(chan[d]), Elements(conn[d].left))
    BY <2>1, <2>2, SameAnswersAll DEF OneLine
  <2>5. CASE d # c
    BY <1>6, <2>3, <2>4, <2>5 DEF OneLine
  <2>6. CASE d = c
    <3>1. \A x \in Trail(c) : Ahead(answer', x, m) /\ Ahead(answer', m, x)
      BY <1>4, <1>5, <1>8, <2>6 DEF Ahead
    <3>2. AllAhead(answer', Elements(chan[c]), {m})
      BY <3>1 DEF AllAhead, Trail
    <3>3. InLine(answer', Append(chan[c], m))
      BY <1>4, <1>6, <2>3, <2>6, <3>2, LineAppend
    <3> QED BY <1>6, <1>7, <2>3, <2>4, <2>6, <3>1, <3>3 DEF OneLine, AllAhead, Trail
  <2> QED BY <2>5, <2>6
<1>13a. \A d \in Conns : \A x \in Trail(d)' : x \in Trail(d) \/ (x = m /\ d = c)
  BY <1>9
<1>14. Apart'
  BY <1>1, <1>3, <1>8, <1>10, <1>13a DEF Apart
<1>15. Sent'
  <2>1. m \in Msgs /\ answer'[m] = "ok"
    BY <1>4, <1>5
  <2> QED BY <1>1, <1>5, <1>8, <1>13a, <2>1 DEF Sent
<1>16. Unread'
  <2> SUFFICES ASSUME NEW d \in Conns,
                      conn[d].pc \in {"off", "evicted", "joined", "saved"}
               PROVE  /\ conn[d].left = <<>> /\ got[d] = <<>>
                      /\ \A x \in Elements(chan'[d]) : answer'[x] # "queued"
    BY <1>3 DEF Unread
  <2>1. /\ conn[d].left = <<>> /\ got[d] = <<>>
        /\ \A x \in Elements(chan[d]) : answer[x] # "queued"
    BY DEF IInv, Unread
  <2>2. Elements(chan'[d]) \subseteq Elements(chan[d]) \cup {m} /\ Elements(chan[d]) \subseteq Msgs
    BY <1>1, <1>6, <1>7, ConnTyped
  <2> QED BY <1>4, <1>5, <2>1, <2>2
<1>17. BoundInv'
  BY <1>1, <1>3, FewerRows
<1>18. AcceptedIsAccounted'
  <2> SUFFICES ASSUME NEW x \in Msgs, answer'[x] \in {"ok", "queued"}
               PROVE  x \in Pending' \cup Received' \cup lost'
    BY DEF AcceptedIsAccounted
  <2>1. CASE x = m
    BY <1>3, <1>7, <2>1 DEF Pending, InPipe
  <2>2. CASE x # m
    <3>1. x \in Pending \cup Received \cup lost
      BY <1>5, <2>2 DEF IInv, AcceptedIsAccounted
    <3>2. \A d \in Conns : InPipe(d) \subseteq InPipe(d)'
      BY <1>3, <1>6, <1>7 DEF InPipe
    <3> QED BY <1>3, <3>1, <3>2 DEF Pending, Received
  <2> QED BY <2>1, <2>2
<1> QED BY <1>11, <1>12, <1>13, <1>14, <1>15, <1>16, <1>17, <1>18 DEF IInv

\* A message that goes into the inbox gets the last place there.
LEMMA StoreStep ==
  ASSUME IInv, TypeOK', NEW s \in Senders, Store(s), inbox' # Fresh
  PROVE  IInv'
<1> DEFINE m == Current(s)
           e == [m |-> m, ms |-> relay[s].ms, seq |-> seqno]
<1>1. TypeOK /\ Turns /\ BoundInv /\ Stored /\ Apart /\ Sent
  BY DEF IInv
<1>2. relay[s].pc = "store" /\ inbox' = Fresh \cup {e} /\ seqno' = seqno + 1
      /\ Answer(s, "queued")
      /\ UNCHANGED <<users, conn, known, chan, got, now>>
      /\ lost' = lost \cup MessagesOf(inbox \ Fresh)
  BY DEF Store, target, pipes
<1>3. /\ m \in Msgs /\ m[1] = s /\ answer[m] = "none" /\ m = <<s, m[2]>>
      /\ m[2] \in 1..PerSender
      /\ \A k \in 1..PerSender : answer[<<s, k>>] = "none" <=> m[2] <= k
  BY <1>1, <1>2, CurrentIs
<1>4. /\ \A x \in Msgs : answer'[x] = IF x = m THEN "queued" ELSE answer[x]
      /\ \A t \in Senders : relay'[t].pc = "store" => t # s /\ relay'[t] = relay[t]
  BY <1>1, <1>2 DEF Answer, NoCommand, TypeOK
<1>5. e.m = m /\ e.ms = relay[s].ms /\ e.seq = seqno /\ Fresh \subseteq inbox
  BY DEF Fresh
<1>6. /\ inbox \subseteq Row /\ seqno \in Nat /\ now \in Nat /\ relay[s].ms \in Nat
  BY <1>1, ConstantsOK DEF TypeOK
<1> HIDE DEF m, e
<1>7. \A f \in inbox : f.m \in Msgs /\ f.m # m /\ f.ms \in Int /\ f.seq \in Int
                       /\ f.m = <<f.m[1], f.m[2]>> /\ f.m[2] \in 1..PerSender
  BY <1>1, <1>3, <1>6, ConstantsOK DEF Stored, Row, Msgs
<1>8. m \notin MessagesOf(inbox)
  BY <1>7 DEF MessagesOf
<1>9. \A d \in Conns : Trail(d)' = Trail(d) /\ m \notin Trail(d) /\ Trail(d) \subseteq Msgs
  BY <1>1, <1>2, <1>3, ConnTyped DEF Sent, Trail
<1>10. \A d \in Conns : \A x \in Trail(d) : answer'[x] = answer[x]
  BY <1>4, <1>9
<1>11. Turns'
  BY <1>1, <1>2, TurnsAnswered
<1>12. Stored'
  <2>1. \A f \in inbox' : answer'[f.m] = "queued" /\ f.seq < seqno' /\ f.ms <= now'
    BY <1>1, <1>2, <1>3, <1>4, <1>5, <1>6, <1>7 DEF Stored
  <2>2. \A f, g \in inbox' : f.m = g.m => f = g
    BY <1>1, <1>2, <1>5, <1>7 DEF Stored
  <2>3. ASSUME NEW f \in Fresh, f.m[1] = s
        PROVE  f.m[2] < m[2] /\ Older(f, e)
    <3>1. answer[f.m] = "queued" /\ f.seq < seqno /\ f.ms <= relay[s].ms
      BY <1>1, <1>2, <1>5, <2>3 DEF Stored
    <3>2. f.m = <<s, f.m[2]>> /\ f.m[2] \in 1..PerSender
      BY <1>5, <1>7, <2>3
    <3>3. ~(m[2] <= f.m[2])
      BY <1>3, <3>1, <3>2
    <3>4. Older(f, e)
      BY <1>5, <1>6, <1>7, <3>1 DEF Older
    <3>5. m[2] \in Int /\ f.m[2] \in Int
      BY <1>3, <3>2, ConstantsOK
    <3> QED BY <3>3, <3>4, <3>5
  <2>4. \A f, g \in inbox' : f.m[1] = g.m[1] /\ f.m[2] < g.m[2] => Older(f, g)
    <3> SUFFICES ASSUME NEW f \in inbox', NEW g \in inbox',
                        f.m[1] = g.m[1], f.m[2] < g.m[2]
                 PROVE  Older(f, g)
      OBVIOUS
    <3>1. f \in Fresh \cup {e} /\ g \in Fresh \cup {e}
      BY <1>2
    <3>2. CASE f \in Fresh /\ g \in Fresh
      BY <1>1, <1>5, <3>2 DEF Stored
    <3>3. CASE f \in Fresh /\ g = e
      BY <1>3, <1>5, <2>3, <3>3
    <3>4. CASE f = e /\ g \in Fresh
      <4>1. g.m[2] < m[2] /\ m[2] < g.m[2]
        BY <1>3, <1>5, <2>3, <3>4
      <4>2. m[2] \in Int /\ g.m[2] \in Int
        BY <1>3, <1>5, <1>7, <3>4, ConstantsOK
      <4> QED BY <4>1, <4>2
    <3>5. CASE f = e /\ g = e
      <4>1. m[2] < m[2] /\ m[2] \in Int
        BY <1>3, <1>5, <3>5, ConstantsOK
      <4> QED BY <4>1
    <3> QED BY <3>1, <3>2, <3>3, <3>4, <3>5
  <2>5. ASSUME NEW t \in Senders, relay'[t].pc = "store"
        PROVE  /\ relay'[t].ms <= now'
               /\ \A f \in inbox' : f.m[1] = t => f.ms <= relay'[t].ms
    <3>1. t # s /\ relay'[t] = relay[t]
      BY <1>4, <2>5
    <3> QED BY <1>1, <1>2, <1>3, <1>5, <2>5, <3>1 DEF Stored
  <2> QED BY <2>1, <2>2, <2>4, <2>5 DEF Stored
<1>13. Lines'
  <2> SUFFICES ASSUME NEW d \in Conns
               PROVE  OneLine(answer', got[d], chan[d], conn[d].left)
    BY <1>2 DEF Lines, OneLine
  <2>1. OneLine(answer, got[d], chan[d], conn[d].left)
    BY LinesAre DEF IInv
  <2>2. \A x \in Elements(got[d]) \cup Elements(chan[d]) \cup Elements(conn[d].left) :
          answer'[x] = answer[x]
    BY <1>10 DEF Trail
  <2>3. /\ InLine(answer', got[d]) /\ InLine(answer', chan[d])
        /\ InLine(answer', conn[d].left)
    BY <2>1, <2>2, SameAnswers DEF OneLine
  <2> QED BY <2>1, <2>2, <2>3, SameAnswersAll DEF OneLine
<1>14. Apart'
  <2>1. MessagesOf(inbox') \subseteq MessagesOf(inbox) \cup {m}
    BY <1>2, <1>5 DEF MessagesOf
  <2> QED BY <1>1, <1>9, <2>1 DEF Apart
<1>15. Sent'
  BY <1>1, <1>9, <1>10 DEF Sent
<1>16. Unread'
  BY <1>2, <1>10 DEF IInv, Unread, Trail
<1>17. BoundInv'
  BY <1>1, StoreKeepsBound
<1>18. AcceptedIsAccounted'
  <2> SUFFICES ASSUME NEW x \in Msgs, answer'[x] \in {"ok", "queued"}
               PROVE  x \in Pending' \cup Received' \cup lost'
    BY DEF AcceptedIsAccounted
  <2>1. CASE x = m
    BY <1>2, <1>5, <2>1 DEF Pending, MessagesOf
  <2>2. CASE x # m
    <3>1. x \in Pending \cup Received \cup lost
      BY <1>4, <2>2 DEF IInv, AcceptedIsAccounted
    <3>2. \A d \in Conns : InPipe(d)' = InPipe(d)
      BY <1>2 DEF InPipe
    <3>3. MessagesOf(inbox) \subseteq MessagesOf(inbox') \cup lost' /\ lost \subseteq lost'
      BY <1>2 DEF MessagesOf
    <3> QED BY <1>2, <3>1, <3>2, <3>3 DEF Pending, Received
  <2> QED BY <2>1, <2>2
<1> QED BY <1>11, <1>12, <1>13, <1>14, <1>15, <1>16, <1>17, <1>18 DEF IInv

----------------------------------------------------------------------------
LEMMA IInvInit == Init => IInv
<1> SUFFICES ASSUME Init PROVE IInv
  OBVIOUS
<1>1. TypeOK
  <2>1. <<>> \in Seq(Msgs) /\ NoCommand \in RelayType
    BY EmptySeq, ConstantsOK DEF NoCommand, RelayType
  <2>2. conn \in [Conns -> ConnType]
    BY <2>1 DEF Init, ConnType, Pcs
  <2> QED BY <2>1, <2>2, PcsAre, ConstantsOK
          DEF Init, TypeOK, ConnType, RelayType, Statuses
<1>2. BoundInv
  <2>1. IsFiniteSet(inbox) /\ Cardinality(inbox) = 0
    BY FS_EmptySet DEF Init
  <2> QED BY <2>1, ConstantsOK DEF BoundInv, InboxBounded
<1>3. Turns
  <2> SUFFICES ASSUME NEW s \in Senders
               PROVE  /\ \A k \in 1..PerSender : answer[<<s, k>>] = "none" <=> 0 < k
                      /\ relay[s].pc = "idle" /\ 0 \in 0..PerSender
    BY DEF Turns
  <2>1. \A k \in 1..PerSender : <<s, k>> \in Msgs /\ 0 < k
    BY ConstantsOK DEF Msgs
  <2> QED BY <2>1, ConstantsOK DEF Init, NoCommand
<1>4. Stored
  BY DEF Init, Stored, NoCommand
<1>5. \A c \in Conns : /\ Trail(c) = {} /\ chan[c] = <<>> /\ got[c] = <<>>
                       /\ conn[c].left = <<>>
  BY ElementsOfNone DEF Init, Trail
<1>6. Lines /\ Apart /\ Sent /\ Unread
  BY <1>5, ElementsOfNone DEF Lines, InLine, AllAhead, Apart, Sent, Unread
<1>7. AcceptedIsAccounted
  BY DEF Init, AcceptedIsAccounted
<1> QED BY <1>1, <1>2, <1>3, <1>4, <1>6, <1>7 DEF IInv

LEMMA IInvStep == IInv /\ [Next]_vars => IInv'
<1> SUFFICES ASSUME IInv, [Next]_vars PROVE IInv'
  OBVIOUS
<1>1. TypeOK'
  BY TypeStep DEF IInv
<1>2. BoundInv'
  BY BoundInvStep DEF IInv
<1>3. ASSUME NEW s \in Senders, Look(s) \/ Command(s) PROVE IInv'
  <2>1. CASE Forward(s) /\ chan' # chan
    BY <1>1, <2>1, ForwardStep
  <2>2. CASE Store(s) /\ inbox' # Fresh
    BY <1>1, <2>2, StoreStep
  <2>3. CASE \/ Look(s) \/ Refuse(s) \/ Stamp(s) \/ StoreFails(s)
             \/ (Forward(s) /\ chan' = chan)
             \/ (Store(s) /\ inbox' = Fresh)
    BY <1>1, <1>2, <2>3, CalmCommand, CalmStep
  <2> QED BY <1>3, <2>1, <2>2, <2>3 DEF Command
<1>4. ASSUME NEW c \in Conns,
             \/ Evict(c) \/ Handshake(c) \/ Deliver(c) \/ DeliverFails(c)
             \/ Stop(c) \/ Unregister(c) \/ Return(c)
      PROVE  IInv'
  <2>1. CASE \/ Evict(c) \/ Insert(c) \/ SaveUser(c) \/ LoadFails(c) \/ Greet(c)
             \/ Stop(c) \/ Unregister(c)
    BY <1>1, <1>2, <2>1, CalmConn, CalmStep
  <2>2. CASE GreetFails(c) \/ Return(c)
    BY <1>1, <2>2, DropStep DEF GreetFails, Return
  <2> QED BY <1>1, <1>4, <2>1, <2>2, LoadStep, FlushStep, DeliverStep DEF Handshake
<1>5. CASE Tick \/ Sweep \/ UNCHANGED vars
  BY <1>1, <1>2, <1>5, CalmClock, CalmStep
<1> QED BY <1>3, <1>4, <1>5 DEF Next

LEMMA IInvHolds == Spec => []IInv
BY IInvInit, IInvStep, PTL DEF Spec

\* The state of the inbox, its commands and its connections is well-typed.
THEOREM RelayInboxTyped == Spec => []TypeOK
<1>1. IInv => TypeOK
  BY DEF IInv
<1> QED BY <1>1, IInvHolds, PTL

\* Stored messages of one sender reach a client in the order they were sent
\* (inbox.rs: the key of a row is its time and then its number).
THEOREM BacklogInOrderHolds == Spec => []BacklogInOrder
<1>1. ASSUME IInv PROVE BacklogInOrder
  <2> SUFFICES ASSUME NEW c \in Conns, NEW i \in 1..Len(got[c]), NEW j \in 1..Len(got[c]),
                      i < j, got[c][i][1] = got[c][j][1],
                      answer[got[c][i]] = "queued", answer[got[c][j]] = "queued"
               PROVE  got[c][i][2] < got[c][j][2]
    BY DEF BacklogInOrder
  <2>1. Ahead(answer, got[c][i], got[c][j])
    BY <1>1 DEF IInv, Lines, InLine
  <2> QED BY <2>1 DEF Ahead
<1> QED BY <1>1, IInvHolds, PTL

(* Copies of a message: the places of each kind hold one of them at most, and  *)
(* no two kinds hold one.                                                      *)
LEMMA AtMostOneElement ==
  ASSUME NEW S, \A x, y \in S : x = y
  PROVE  /\ IsFiniteSet(S) /\ Cardinality(S) \in {0, 1}
         /\ S = {} => Cardinality(S) = 0
<1>1. CASE S = {}
  BY <1>1, FS_EmptySet
<1>2. CASE S # {}
  <2>1. PICK x \in S : S = {x}
    BY <1>2
  <2> QED BY <2>1, FS_Singleton
<1> QED BY <1>1, <1>2

\* Places of m in the sequences that a function of the connections holds.
Places(f, n, m) == {x \in Conns \X (1..n) : x[2] <= Len(f[x[1]]) /\ f[x[1]][x[2]] = m}

LEMMA PlacesIs ==
  ASSUME NEW f, NEW n, NEW m, NEW ans,
         \A c \in Conns : f[c] \in Seq(Msgs) /\ InLine(ans, f[c]),
         \A c, d \in Conns : m \in Elements(f[c]) /\ m \in Elements(f[d]) => c = d
  PROVE  /\ Cardinality(Places(f, n, m)) \in {0, 1}
         /\ (\A c \in Conns : m \notin Elements(f[c])) => Cardinality(Places(f, n, m)) = 0
<1>1. ASSUME NEW x \in Places(f, n, m)
      PROVE  /\ x[1] \in Conns /\ x[2] \in 1..Len(f[x[1]]) /\ f[x[1]][x[2]] = m
             /\ m \in Elements(f[x[1]]) /\ x = <<x[1], x[2]>>
  <2>1. /\ x[1] \in Conns /\ x[2] \in Int /\ 1 <= x[2] /\ x = <<x[1], x[2]>>
        /\ x[2] <= Len(f[x[1]]) /\ f[x[1]][x[2]] = m
    BY DEF Places
  <2>2. Len(f[x[1]]) \in Nat
    BY <2>1, LenProperties
  <2> QED BY <2>1, <2>2 DEF Elements
<1>2. ASSUME NEW x \in Places(f, n, m), NEW y \in Places(f, n, m) PROVE x = y
  <2>1. x[1] = y[1]
    BY <1>1
  <2>2. Len(f[x[1]]) \in Nat
    BY <1>1, LenProperties
  <2>3. ~(x[2] < y[2]) /\ ~(y[2] < x[2])
    BY <1>1, <2>1 DEF InLine, Ahead
  <2>4. x[2] \in Int /\ y[2] \in Int
    BY <1>1, <2>1, <2>2
  <2> QED BY <1>1, <2>1, <2>3, <2>4
<1>3. (\A c \in Conns : m \notin Elements(f[c])) => Places(f, n, m) = {}
  BY <1>1
<1> QED BY <1>2, <1>3, AtMostOneElement

\* The server sends a message to at most one session of the target, once: reading
\* and deleting the rows is one transaction.
THEOREM AtMostOnceHolds == Spec => []AtMostOnce
<1>1. ASSUME IInv PROVE AtMostOnce
  <2> SUFFICES ASSUME NEW m \in Msgs PROVE Copies(m) <= 1
    BY DEF AtMostOnce
  <2> DEFINE n == Cardinality(Msgs)
             left == [c \in Conns |-> conn[c].left]
             rows == {e \in inbox : e.m = m}
             a == Cardinality(rows)
             b == Cardinality(Places(chan, n, m))
             d == Cardinality(Places(left, n, m))
             g == Cardinality(Places(got, n, m))
  <2>1. TypeOK /\ Stored /\ Apart /\ Lines
    BY <1>1 DEF IInv
  <2>2. Copies(m) = a + b + d + g
    <3>1. Places(left, n, m) = {x \in Conns \X (1..Cardinality(Msgs)) :
             x[2] <= Len(conn[x[1]].left) /\ conn[x[1]].left[x[2]] = m}
      BY DEF Places
    <3> QED BY <3>1 DEF Copies, Places
  <2>3. a \in {0, 1} /\ ((\A e \in inbox : e.m # m) => a = 0)
    <3>1. \A x, y \in rows : x = y
      BY <2>1 DEF Stored
    <3>2. (\A e \in inbox : e.m # m) => rows = {}
      OBVIOUS
    <3> HIDE DEF rows
    <3> QED BY <3>1, <3>2, AtMostOneElement
  <2>4. \A c, e \in Conns : m \in Trail(c) /\ m \in Trail(e) => c = e
    BY <2>1 DEF Apart
  <2>5. b \in {0, 1} /\ ((\A c \in Conns : m \notin Elements(chan[c])) => b = 0)
    <3>1. \A c \in Conns : chan[c] \in Seq(Msgs) /\ InLine(answer, chan[c])
      BY <2>1, ConnTyped DEF Lines
    <3>2. \A c, e \in Conns : m \in Elements(chan[c]) /\ m \in Elements(chan[e]) => c = e
      BY <2>4 DEF Trail
    <3> QED BY <3>1, <3>2, PlacesIs
  <2>6. d \in {0, 1} /\ ((\A c \in Conns : m \notin Elements(conn[c].left)) => d = 0)
    <3>1. \A c \in Conns : left[c] \in Seq(Msgs) /\ InLine(answer, left[c])
      BY <2>1, ConnTyped DEF Lines
    <3>2. \A c, e \in Conns : m \in Elements(left[c]) /\ m \in Elements(left[e]) => c = e
      BY <2>4 DEF Trail
    <3>3. \A c \in Conns : left[c] = conn[c].left
      OBVIOUS
    <3> HIDE DEF left
    <3>4. d \in {0, 1} /\ ((\A c \in Conns : m \notin Elements(left[c])) => d = 0)
      BY <3>1, <3>2, PlacesIs
    <3> QED BY <3>3, <3>4
  <2>7. g \in {0, 1} /\ ((\A c \in Conns : m \notin Elements(got[c])) => g = 0)
    <3>1. \A c \in Conns : got[c] \in Seq(Msgs) /\ InLine(answer, got[c])
      BY <2>1, ConnTyped DEF Lines
    <3>2. \A c, e \in Conns : m \in Elements(got[c]) /\ m \in Elements(got[e]) => c = e
      BY <2>4 DEF Trail
    <3> QED BY <3>1, <3>2, PlacesIs
  <2> HIDE DEF a, b, d, g, left, rows, n
  <2>8. CASE \E e \in inbox : e.m = m
    <3>1. \A c \in Conns : m \notin Trail(c)
      BY <2>1, <2>8 DEF Apart, MessagesOf
    <3>2. b = 0 /\ d = 0 /\ g = 0
      BY <2>5, <2>6, <2>7, <3>1 DEF Trail
    <3> QED BY <2>2, <2>3, <3>2
  <2>9. CASE \A c \in Conns : m \notin Trail(c)
    <3>1. b = 0 /\ d = 0 /\ g = 0
      BY <2>5, <2>6, <2>7, <2>9 DEF Trail
    <3> QED BY <2>2, <2>3, <3>1
  <2>10. ASSUME NEW c \in Conns, m \in Trail(c), \A e \in inbox : e.m # m
         PROVE  Copies(m) <= 1
    <3>1. \A e \in Conns : m \in Trail(e) => e = c
      BY <2>4, <2>10
    <3>2. /\ m \in Elements(got[c]) => m \notin Elements(chan[c]) /\ m \notin Elements(conn[c].left)
          /\ m \in Elements(chan[c]) => m \notin Elements(conn[c].left)
      BY <2>1 DEF Lines, AllAhead, Ahead
    <3>3. /\ b # 0 => m \in Elements(chan[c])
          /\ d # 0 => m \in Elements(conn[c].left)
          /\ g # 0 => m \in Elements(got[c])
      BY <2>5, <2>6, <2>7, <3>1 DEF Trail
    <3> QED BY <2>2, <2>3, <2>5, <2>6, <2>7, <2>10, <3>2, <3>3
  <2> QED BY <2>8, <2>9, <2>10
<1> QED BY <1>1, IInvHolds, PTL
----------------------------------------------------------------------------
(* The refinement of the mailbox: what each step does to the messages held,  *)
(* given and dropped.                                                        *)

\* A message in a pipe is nowhere else.
LEMMA PipesApart ==
  ASSUME IInv, NEW c \in Conns
  PROVE  /\ Elements(chan[c]) \cap Elements(conn[c].left) = {}
         /\ InPipe(c) \cap MessagesOf(inbox) = {}
         /\ \A d \in Conns \ {c} : InPipe(c) \cap InPipe(d) = {}
         /\ InPipe(c) \cap Elements(got[c]) = {}
<1>1. Lines /\ Apart
  BY DEF IInv
<1>2. OneLine(answer, got[c], chan[c], conn[c].left)
  BY <1>1, LinesAre
<1>3. /\ Elements(chan[c]) \cap Elements(conn[c].left) = {}
      /\ InPipe(c) \cap Elements(got[c]) = {}
  BY <1>2 DEF OneLine, AllAhead, Ahead, InPipe
<1>4. \A d \in Conns : InPipe(d) \subseteq Trail(d)
  BY DEF InPipe, Trail
<1> QED BY <1>1, <1>3, <1>4 DEF Apart

\* What the mailbox holds when only the pipe of c or only the inbox changes.
LEMMA HeldInPipes ==
  ASSUME NEW c \in Conns, inbox' = inbox,
         \A d \in Conns \ {c} : InPipe(d)' = InPipe(d)
  PROVE  /\ InPipe(c) \subseteq Pending /\ InPipe(c)' \subseteq Pending'
         /\ Pending \ InPipe(c) \subseteq Pending'
         /\ Pending' \ InPipe(c)' \subseteq Pending
<1>1. /\ Pending = MessagesOf(inbox) \cup UNION {InPipe(d) : d \in Conns}
      /\ Pending' = MessagesOf(inbox) \cup UNION {InPipe(d)' : d \in Conns}
  BY DEF Pending
<1>2. \A m : m \in Pending <=> m \in MessagesOf(inbox) \/ \E d \in Conns : m \in InPipe(d)
  BY <1>1
<1>3. \A m : m \in Pending' <=> m \in MessagesOf(inbox) \/ \E d \in Conns : m \in InPipe(d)'
  BY <1>1
<1> QED BY <1>2, <1>3

LEMMA OthersApart ==
  ASSUME IInv, NEW c \in Conns, NEW m \in InPipe(c), inbox' = inbox,
         \A d \in Conns \ {c} : InPipe(d)' = InPipe(d), m \notin InPipe(c)'
  PROVE  m \notin Pending'
<1>1. m \notin MessagesOf(inbox') /\ \A d \in Conns : m \notin InPipe(d)'
  BY PipesApart DEF MessagesOf
<1> QED BY <1>1 DEF Pending

\* A step that drops the set D of the messages that were held.
MailDrops(D) ==
  /\ D \subseteq Pending /\ Pending' = Pending \ D /\ lost' = lost \cup D
  /\ Received' = Received /\ answer' = answer

LEMMA DropsRefine ==
  ASSUME NEW D, MailDrops(D)
  PROVE  [Mail!Next]_(Mail!mailVars)
BY DEF MailDrops, Mail!Next, Mail!Drop

\* A step that judges the message m and drops D; a message that is not
\* accepted is not held.
MailJudges(m, status, D) ==
  /\ m \in Msgs /\ answer[m] = "none" /\ status # "none"
  /\ \A x \in Msgs : answer'[x] = IF x = m THEN status ELSE answer[x]
  /\ D \subseteq Pending /\ lost' = lost \cup D /\ Received' = Received
  /\ Pending' = (Pending \ D) \cup (IF status \in {"ok", "queued"} THEN {m} ELSE {})

LEMMA JudgesRefine ==
  ASSUME NEW m, NEW status, NEW D, MailJudges(m, status, D)
  PROVE  Mail!Next
<1> DEFINE verdict == [x \in Msgs |-> Verdict(answer[x])]
           after == [x \in Msgs |-> Verdict(answer'[x])]
<1>1. /\ m \in Msgs /\ D \subseteq Pending /\ lost' = lost \cup D /\ Received' = Received
      /\ verdict[m] = "none"
  BY DEF MailJudges, Verdict
<1>2. after = [verdict EXCEPT ![m] = Verdict(status)]
  <2>1. \A x \in Msgs : after[x] = IF x = m THEN Verdict(status) ELSE verdict[x]
    BY DEF MailJudges
  <2> QED BY <2>1
<1>3. CASE status \in {"ok", "queued"}
  <2>1. Verdict(status) = "accepted" /\ Pending' = (Pending \ D) \cup {m}
    BY <1>3 DEF MailJudges, Verdict
  <2>2. Mail!Accept(m, D)
    BY <1>1, <1>2, <2>1 DEF Mail!Accept
  <2> QED BY <1>1, <2>2 DEF Mail!Next
<1>4. CASE status \notin {"ok", "queued"}
  <2>1. Verdict(status) = "refused" /\ Pending' = Pending \ D
    BY <1>4 DEF MailJudges, Verdict
  <2>2. Mail!Refuse(m, D)
    BY <1>1, <1>2, <2>1 DEF Mail!Refuse
  <2> QED BY <1>1, <2>2 DEF Mail!Next
<1> QED BY <1>3, <1>4

\* Rows that leave the inbox are held no longer: a message has one row.
LEMMA StaleAreApart ==
  ASSUME IInv
  PROVE  /\ MessagesOf(inbox \ Fresh) \subseteq Pending
         /\ MessagesOf(inbox) = MessagesOf(inbox \ Fresh) \cup MessagesOf(Fresh)
         /\ MessagesOf(inbox \ Fresh) \cap MessagesOf(Fresh) = {}
         /\ \A c \in Conns : MessagesOf(inbox \ Fresh) \cap InPipe(c) = {}
<1>1. Fresh \subseteq inbox /\ Stored
  BY DEF Fresh, IInv
<1>2. MessagesOf(inbox) = MessagesOf(inbox \ Fresh) \cup MessagesOf(Fresh)
  BY <1>1 DEF MessagesOf
<1>3. MessagesOf(inbox \ Fresh) \cap MessagesOf(Fresh) = {}
  BY <1>1 DEF MessagesOf, Stored
<1>4. \A c \in Conns : MessagesOf(inbox \ Fresh) \cap InPipe(c) = {}
  BY <1>2, PipesApart
<1> QED BY <1>2, <1>3, <1>4 DEF Pending

LEMMA LookOnMail ==
  ASSUME IInv, NEW s \in Senders, Look(s) \/ Stamp(s) \/ (Forward(s) /\ chan' = chan)
  PROVE  UNCHANGED Mail!mailVars
<1>1. answer' = answer /\ UNCHANGED <<conn, chan, got, inbox, lost>>
  <2>1. CASE Look(s) \/ Stamp(s)
    BY <2>1 DEF Look, Stamp, target, stored, pipes
  <2>2. CASE Forward(s) /\ chan' = chan
    <3>1. ~(relay[s].tx # None /\ conn[relay[s].tx].pc \notin Closed)
      <4> SUFFICES ASSUME relay[s].tx # None, conn[relay[s].tx].pc \notin Closed PROVE FALSE
        OBVIOUS
      <4>1. relay[s].tx \in Conns /\ relay[s].pc # "idle" /\ TypeOK /\ Turns
        BY <2>2 DEF IInv, TypeOK, Forward
      <4>2. Current(s) \in Msgs
        BY <4>1, CurrentIs
      <4>3. chan[relay[s].tx] = Append(chan[relay[s].tx], Current(s))
        BY <2>2, <4>1 DEF Forward, TypeOK
      <4>4. chan[relay[s].tx] \in Seq(Msgs)
        BY <4>1, ConnTyped
      <4>5. Len(Append(chan[relay[s].tx], Current(s))) = Len(chan[relay[s].tx]) + 1
            /\ Len(chan[relay[s].tx]) \in Nat
        BY <4>2, <4>4, AppendIs
      <4> QED BY <4>3, <4>5
    <3> QED BY <2>2, <3>1 DEF Forward, target, stored
  <2> QED BY <2>1, <2>2
<1>2. Pending' = Pending /\ Received' = Received
  BY <1>1 DEF Pending, Received, InPipe
<1> QED BY <1>1, <1>2 DEF Mail!mailVars

\* What an answer does: the message was unanswered and gets this status.
LEMMA AnswerIs ==
  ASSUME IInv, NEW s \in Senders, relay[s].pc # "idle", NEW status, Answer(s, status)
  PROVE  /\ Current(s) \in Msgs /\ answer[Current(s)] = "none"
         /\ \A x \in Msgs : answer'[x] = IF x = Current(s) THEN status ELSE answer[x]
<1>1. TypeOK /\ Turns
  BY DEF IInv
<1>2. Current(s) \in Msgs /\ answer[Current(s)] = "none"
  BY <1>1, CurrentIs
<1> QED BY <1>1, <1>2 DEF Answer, TypeOK

LEMMA RefuseOnMail ==
  ASSUME IInv, NEW s \in Senders, Refuse(s) \/ StoreFails(s)
  PROVE  Mail!Next
<1>1. PICK status \in {"error", "inbox_entry_too_large", "unknown_target"} :
        Answer(s, status) /\ relay[s].pc # "idle"
  BY DEF Refuse, StoreFails
<1>2. PICK m : m = Current(s)
  OBVIOUS
<1>3. UNCHANGED <<conn, chan, got, inbox, lost>>
  BY DEF Refuse, StoreFails, target, stored, pipes
<1>4. Pending' = Pending /\ Received' = Received
  BY <1>3 DEF Pending, Received, InPipe
<1>5. /\ m \in Msgs /\ answer[m] = "none"
      /\ \A x \in Msgs : answer'[x] = IF x = m THEN status ELSE answer[x]
  BY <1>1, <1>2, AnswerIs
<1>6. MailJudges(m, status, {})
  BY <1>3, <1>4, <1>5 DEF MailJudges
<1> QED BY <1>6, JudgesRefine

LEMMA ForwardOnMail ==
  ASSUME IInv, NEW s \in Senders, Forward(s), chan' # chan
  PROVE  Mail!Next
<1>1. relay[s].tx # None /\ relay[s].pc # "idle" /\ relay[s].tx \in Conns /\ TypeOK
  BY DEF Forward, IInv, TypeOK
<1>a. PICK c \in Conns : c = relay[s].tx
  BY <1>1
<1>b. PICK m : m = Current(s)
  OBVIOUS
<1>2. c = relay[s].tx /\ m = Current(s)
  BY <1>a, <1>b
<1>3. /\ chan' = [chan EXCEPT ![c] = Append(@, m)] /\ Answer(s, "ok")
      /\ UNCHANGED <<conn, got, inbox, lost>>
  BY <1>1, <1>2 DEF Forward, target, stored
<1>4. /\ m \in Msgs /\ answer[m] = "none"
      /\ \A x \in Msgs : answer'[x] = IF x = m THEN "ok" ELSE answer[x]
  BY <1>1, <1>2, <1>3, AnswerIs
<1>5. chan[c] \in Seq(Msgs) /\ chan'[c] = Append(chan[c], m)
      /\ \A d \in Conns \ {c} : chan'[d] = chan[d]
  BY <1>1, <1>3, ConnTyped DEF TypeOK
<1>6. InPipe(c)' = InPipe(c) \cup {m}
  BY <1>3, <1>4, <1>5, ElementsOfAppend DEF InPipe
<1>7. \A d \in Conns \ {c} : InPipe(d)' = InPipe(d)
  BY <1>3, <1>5 DEF InPipe
<1>8. Pending' = Pending \cup {m}
  BY <1>3, <1>6, <1>7, HeldInPipes
<1>9. Received' = Received
  BY <1>3 DEF Received
<1>10. MailJudges(m, "ok", {})
  BY <1>3, <1>4, <1>8, <1>9 DEF MailJudges
<1> QED BY <1>10, JudgesRefine

LEMMA StoreOnMail ==
  ASSUME IInv, NEW s \in Senders, Store(s)
  PROVE  Mail!Next
<1> DEFINE D == MessagesOf(inbox \ Fresh)
<1>1. /\ D \subseteq Pending /\ MessagesOf(inbox) = D \cup MessagesOf(Fresh)
      /\ D \cap MessagesOf(Fresh) = {} /\ \A c \in Conns : D \cap InPipe(c) = {}
  BY StaleAreApart
<1>2. PICK m : m = Current(s)
  OBVIOUS
<1>3. /\ relay[s].pc # "idle" /\ lost' = lost \cup D /\ UNCHANGED <<conn, chan, got>>
      /\ \A c \in Conns : InPipe(c)' = InPipe(c)
      /\ Received' = Received
  BY DEF Store, target, pipes, InPipe, Received
<1>4. PICK status, new :
        /\ Answer(s, status) /\ MessagesOf(inbox') = MessagesOf(Fresh) \cup new
        /\ \/ status = "queued" /\ new = {m}
           \/ status = "inbox_full" /\ new = {}
  <2>1. CASE Cardinality(Fresh) < InboxMax
    <3>1. /\ inbox' = Fresh \cup {[m |-> Current(s), ms |-> relay[s].ms, seq |-> seqno]}
          /\ Answer(s, "queued")
      BY <2>1 DEF Store
    <3>2. PICK e : e.m = m /\ inbox' = Fresh \cup {e}
      BY <1>2, <3>1
    <3>3. MessagesOf(inbox') = MessagesOf(Fresh) \cup {m}
      BY <3>2 DEF MessagesOf
    <3> QED BY <3>1, <3>3
  <2>2. CASE ~(Cardinality(Fresh) < InboxMax)
    BY <2>2 DEF Store
  <2> QED BY <2>1, <2>2
<1>5. /\ m \in Msgs /\ answer[m] = "none"
      /\ \A x \in Msgs : answer'[x] = IF x = m THEN status ELSE answer[x]
  BY <1>2, <1>3, <1>4, AnswerIs
<1> HIDE DEF D
<1>6. m \notin D \/ new = {}
  <2>1. \A e \in inbox : e.m # m
    BY <1>5 DEF IInv, Stored
  <2> QED BY <2>1 DEF D, MessagesOf
<1>7. Pending' = (Pending \ D) \cup new
  BY <1>1, <1>3, <1>4, <1>6 DEF Pending
<1>8. MailJudges(m, status, D)
  BY <1>1, <1>3, <1>4, <1>5, <1>7 DEF MailJudges
<1> QED BY <1>8, JudgesRefine

\* A handshake takes over the rows it reads; the stale ones are dropped.
LEMMA LoadOnMail ==
  ASSUME IInv, NEW c \in Conns, LoadAndClear(c)
  PROVE  [Mail!Next]_(Mail!mailVars)
<1> DEFINE D == MessagesOf(inbox \ Fresh)
<1>1. /\ D \subseteq Pending /\ MessagesOf(inbox) = D \cup MessagesOf(Fresh)
      /\ D \cap MessagesOf(Fresh) = {} /\ \A d \in Conns : D \cap InPipe(d) = {}
  BY StaleAreApart
<1>2. TypeOK /\ BoundInv /\ conn[c].left = <<>>
  BY DEF IInv, Unread, LoadAndClear
<1>3. PICK q \in InKeyOrder(Fresh) :
        conn' = [conn EXCEPT ![c].pc = "flushing",
                             ![c].left = [i \in DOMAIN q |-> q[i].m]]
  BY DEF LoadAndClear
<1> DEFINE l == [i \in DOMAIN q |-> q[i].m]
<1>4. Elements(l) = MessagesOf(Fresh)
  BY <1>2, LoadedIs
<1>5. /\ inbox' = {} /\ lost' = lost \cup D /\ answer' = answer
      /\ UNCHANGED <<chan, got>>
  BY DEF LoadAndClear, pipes, command
<1>6. conn'[c].left = l /\ \A d \in Conns \ {c} : conn'[d] = conn[d]
  BY <1>2, <1>3 DEF TypeOK
<1> HIDE DEF l, D
<1>7. /\ InPipe(c) = Elements(chan[c])
      /\ InPipe(c)' = Elements(chan[c]) \cup MessagesOf(Fresh)
      /\ \A d \in Conns \ {c} : InPipe(d)' = InPipe(d)
  BY <1>2, <1>4, <1>5, <1>6, ElementsOfNone DEF InPipe
<1>8. \A m : m \in Pending <=> m \in D \cup MessagesOf(Fresh) \/ \E d \in Conns : m \in InPipe(d)
  BY <1>1 DEF Pending
<1>9. \A m : m \in Pending' <=> \E d \in Conns : m \in InPipe(d)'
  BY <1>5 DEF Pending, MessagesOf
<1>10. Pending' = Pending \ D
  BY <1>1, <1>7, <1>8, <1>9
<1>11. Received' = Received
  BY <1>5 DEF Received
<1>12. MailDrops(D)
  BY <1>1, <1>5, <1>10, <1>11 DEF MailDrops
<1> QED BY <1>12, DropsRefine

LEMMA FlushOnMail ==
  ASSUME IInv, NEW c \in Conns, FlushOne(c)
  PROVE  UNCHANGED Mail!mailVars
<1> DEFINE l == conn[c].left
           m == Head(l)
<1>1. TypeOK /\ l \in Seq(Msgs) /\ l # <<>> /\ chan[c] \in Seq(Msgs) /\ m \in Msgs
  BY ConnTyped, HeadTailProperties DEF FlushOne, IInv
<1>2. /\ chan' = [chan EXCEPT ![c] = Append(chan[c], m)] /\ got' = got
      /\ conn' = [conn EXCEPT ![c].left = Tail(l)]
      /\ UNCHANGED <<inbox, answer, lost>>
  BY DEF FlushOne, stored, command
<1>3. /\ chan'[c] = Append(chan[c], m) /\ conn'[c].left = Tail(l)
      /\ \A d \in Conns \ {c} : conn'[d] = conn[d] /\ chan'[d] = chan[d]
  BY <1>1, <1>2 DEF TypeOK
<1>4. /\ Elements(Append(chan[c], m)) = Elements(chan[c]) \cup {m}
      /\ Elements(l) = {m} \cup Elements(Tail(l))
  BY <1>1, ElementsOfAppend, ElementsOfTail
<1> HIDE DEF m
<1>5. \A d \in Conns : InPipe(d)' = InPipe(d)
  BY <1>3, <1>4 DEF InPipe
<1>6. Pending' = Pending /\ Received' = Received
  BY <1>2, <1>5 DEF Pending, Received
<1> QED BY <1>2, <1>6 DEF Mail!mailVars

\* The message that leaves a channel is the only one of its kind.
LEMMA DeliverOnMail ==
  ASSUME IInv, NEW c \in Conns, Deliver(c) \/ DeliverFails(c)
  PROVE  [Mail!Next]_(Mail!mailVars)
<1> DEFINE h == chan[c]
<1>1. TypeOK /\ OneLine(answer, got[c], h, conn[c].left)
  BY LinesAre DEF IInv
<1>2. /\ h \in Seq(Msgs) /\ h # <<>> /\ got[c] \in Seq(Msgs)
      /\ Head(h) \in Msgs /\ Tail(h) \in Seq(Msgs)
  BY <1>1, ConnTyped, HeadTailProperties DEF Deliver, DeliverFails
<1>3. PICK m \in Msgs : m = Head(h)
  BY <1>2
<1>4. /\ chan'[c] = Tail(h) /\ \A d \in Conns \ {c} : chan'[d] = chan[d]
      /\ UNCHANGED <<inbox, answer>>
  <2>1. chan' = [chan EXCEPT ![c] = Tail(h)] /\ UNCHANGED <<inbox, answer>>
    BY DEF Deliver, DeliverFails, stored, command
  <2> QED BY <1>1, <2>1 DEF TypeOK
<1>5. \A d \in Conns : conn'[d].left = conn[d].left
  <2>1. conn' = conn \/ conn' = [conn EXCEPT ![c].pc = "stopping"]
    BY DEF Deliver, DeliverFails, target
  <2>2. conn \in [Conns -> ConnType]
    BY PcsAre DEF IInv, TypeOK, ConnType
  <2>3. CASE conn' = [conn EXCEPT ![c].pc = "stopping"]
    <3> SUFFICES ASSUME NEW d \in Conns PROVE conn'[d].left = conn[d].left
      OBVIOUS
    <3>1. conn[d] = [pc |-> conn[d].pc, key |-> conn[d].key, left |-> conn[d].left]
      BY <2>2 DEF ConnType
    <3> QED BY <2>2, <2>3, <3>1
  <2> QED BY <2>1, <2>3
<1>6. Elements(h) = {m} \cup Elements(Tail(h)) /\ m \notin Elements(Tail(h))
  <2>1. InLine(answer, h)
    BY <1>1 DEF OneLine
  <2>2. AllAhead(answer, {m}, Elements(Tail(h))) /\ Elements(h) = {m} \cup Elements(Tail(h))
    BY <1>2, <1>3, <2>1, LineTail, ElementsOfTail
  <2> QED BY <2>2 DEF AllAhead, Ahead
<1>7. m \notin Elements(conn[c].left)
  BY <1>6, PipesApart
<1>8. /\ m \in InPipe(c) /\ InPipe(c)' = InPipe(c) \ {m}
      /\ \A d \in Conns \ {c} : InPipe(d)' = InPipe(d)
  BY <1>4, <1>5, <1>6, <1>7 DEF InPipe
<1>9. m \notin Pending'
  BY <1>4, <1>8, OthersApart
<1>10. Pending' = Pending \ {m} /\ m \in Pending
  BY <1>4, <1>8, <1>9, HeldInPipes
<1>11. CASE Deliver(c)
  <2>1. lost' = lost /\ got'[c] = Append(got[c], m) /\ \A d \in Conns \ {c} : got'[d] = got[d]
    BY <1>1, <1>3, <1>11 DEF Deliver, TypeOK
  <2>2. Elements(got'[c]) = Elements(got[c]) \cup {m}
    BY <1>2, <1>3, <2>1, ElementsOfAppend
  <2>3. Received' = Received \cup {m}
    BY <2>1, <2>2 DEF Received
  <2>4. Mail!Give(m)
    BY <1>4, <1>10, <2>1, <2>3 DEF Mail!Give
  <2> QED BY <1>3, <2>4 DEF Mail!Next
<1>12. CASE DeliverFails(c)
  <2>1. lost' = lost \cup {m} /\ got' = got
    BY <1>3, <1>12 DEF DeliverFails
  <2>2. MailDrops({m})
    BY <1>4, <1>10, <2>1 DEF MailDrops, Received
  <2> QED BY <2>2, DropsRefine
<1> QED BY <1>11, <1>12

LEMMA DropOnMail ==
  ASSUME IInv, NEW c \in Conns, DropChannel(c)
  PROVE  [Mail!Next]_(Mail!mailVars)
<1> DEFINE D == Elements(chan[c])
<1>1. TypeOK
  BY DEF IInv
<1>2. /\ chan'[c] = <<>> /\ conn'[c].left = conn[c].left
      /\ \A d \in Conns \ {c} : conn'[d] = conn[d] /\ chan'[d] = chan[d]
      /\ lost' = lost \cup D /\ UNCHANGED <<inbox, got, answer>>
  BY <1>1 DEF DropChannel, stored, command, TypeOK
<1>3. D \cap Elements(conn[c].left) = {}
  BY PipesApart
<1>4. /\ D \subseteq InPipe(c) /\ InPipe(c)' = InPipe(c) \ D
      /\ \A d \in Conns \ {c} : InPipe(d)' = InPipe(d)
  BY <1>2, <1>3, ElementsOfNone DEF InPipe
<1> HIDE DEF D
<1>5. ASSUME NEW m \in D PROVE m \notin Pending'
  BY <1>2, <1>4, <1>5, OthersApart
<1>6. D \subseteq Pending /\ Pending' = Pending \ D
  BY <1>2, <1>4, <1>5, HeldInPipes
<1>7. MailDrops(D)
  BY <1>2, <1>6 DEF MailDrops, Received
<1> QED BY <1>7, DropsRefine

LEMMA SweepOnMail ==
  ASSUME IInv, Sweep
  PROVE  [Mail!Next]_(Mail!mailVars)
<1> DEFINE D == MessagesOf(inbox \ Fresh)
<1>1. /\ D \subseteq Pending /\ MessagesOf(inbox) = D \cup MessagesOf(Fresh)
      /\ D \cap MessagesOf(Fresh) = {} /\ \A d \in Conns : D \cap InPipe(d) = {}
  BY StaleAreApart
<1>2. /\ inbox' = Fresh /\ lost' = lost \cup D /\ answer' = answer
      /\ Received' = Received /\ \A c \in Conns : InPipe(c)' = InPipe(c)
  BY DEF Sweep, target, pipes, command, Received, InPipe
<1>3. Pending' = Pending \ D
  BY <1>1, <1>2 DEF Pending
<1>4. MailDrops(D)
  BY <1>1, <1>2, <1>3 DEF MailDrops
<1> QED BY <1>4, DropsRefine

\* The other steps of a connection, and the clock, do not touch messages.
LEMMA IdleOnMail ==
  ASSUME UNCHANGED <<inbox, chan, got, answer, lost>>,
         \A c \in Conns : conn'[c].left = conn[c].left
  PROVE  UNCHANGED Mail!mailVars
BY DEF Mail!mailVars, Pending, Received, InPipe

LEMMA ConnIdle ==
  ASSUME IInv, NEW c \in Conns,
         \/ Evict(c) \/ Insert(c) \/ SaveUser(c) \/ LoadFails(c) \/ Greet(c)
         \/ Stop(c) \/ Unregister(c)
  PROVE  UNCHANGED Mail!mailVars
<1>1. Calm
  BY CalmConn
<1>2. UNCHANGED <<inbox, chan, got, answer, lost>>
  BY DEF Evict, Insert, SaveUser, LoadFails, Greet, Stop, Unregister, stored, pipes, command
<1> QED BY <1>1, <1>2, IdleOnMail DEF Calm

LEMMA MailStep == IInv /\ [Next]_vars => [Mail!Next]_(Mail!mailVars)
<1> SUFFICES ASSUME IInv, [Next]_vars PROVE [Mail!Next]_(Mail!mailVars)
  OBVIOUS
<1>1. ASSUME NEW s \in Senders, Look(s) \/ Command(s) PROVE [Mail!Next]_(Mail!mailVars)
  <2>1. CASE Look(s) \/ Stamp(s) \/ (Forward(s) /\ chan' = chan)
    BY <2>1, LookOnMail
  <2>2. CASE Refuse(s) \/ StoreFails(s)
    BY <2>2, RefuseOnMail
  <2>3. CASE Forward(s) /\ chan' # chan
    BY <2>3, ForwardOnMail
  <2>4. CASE Store(s)
    BY <2>4, StoreOnMail
  <2> QED BY <1>1, <2>1, <2>2, <2>3, <2>4 DEF Command
<1>2. ASSUME NEW c \in Conns,
             \/ Evict(c) \/ Handshake(c) \/ Deliver(c) \/ DeliverFails(c)
             \/ Stop(c) \/ Unregister(c) \/ Return(c)
      PROVE  [Mail!Next]_(Mail!mailVars)
  <2>1. CASE \/ Evict(c) \/ Insert(c) \/ SaveUser(c) \/ LoadFails(c) \/ Greet(c)
             \/ Stop(c) \/ Unregister(c)
    BY <2>1, ConnIdle
  <2>2. CASE GreetFails(c) \/ Return(c)
    BY <2>2, DropOnMail DEF GreetFails, Return
  <2> QED BY <1>2, <2>1, <2>2, LoadOnMail, FlushOnMail, DeliverOnMail DEF Handshake
<1>3. CASE Sweep
  BY <1>3, SweepOnMail
<1>4. CASE Tick \/ UNCHANGED vars
  <2>1. UNCHANGED <<conn, inbox, chan, got, answer, lost>>
    BY <1>4 DEF Tick, vars, target, stored, pipes, command
  <2> QED BY <2>1, IdleOnMail
<1> QED BY <1>1, <1>2, <1>3, <1>4 DEF Next

LEMMA MailInit == Init => Mail!Init
<1> SUFFICES ASSUME Init PROVE Mail!Init
  OBVIOUS
<1>1. \A c \in Conns : InPipe(c) = {} /\ Elements(got[c]) = {}
  BY ElementsOfNone DEF Init, InPipe
<1>2. Pending = {} /\ Received = {} /\ lost = {}
  BY <1>1 DEF Init, Pending, Received, MessagesOf
<1>3. \A m \in Msgs : Verdict(answer[m]) = "none"
  BY DEF Init, Verdict
<1> QED BY <1>2, <1>3 DEF Mail!Init

\* The channels, the inbox and the handshakes of a user are one mailbox, which
\* judges a message once, gives it once and loses none unrecorded (handler.rs
\* relay_deliver_and_finalize, inbox.rs store, load_and_clear and sweep_expired).
THEOREM RelayIsMailboxHolds == Spec => RelayIsMailbox
BY MailInit, MailStep, IInvHolds, PTL DEF Spec, RelayIsMailbox, Mail!Spec

\* What a mailbox implies, and with it the relay: the accepted messages are held,
\* given or dropped, each one of these.
THEOREM OneFateHolds == Spec => []Mail!OneFate
<1> DEFINE verdict == [m \in Msgs |-> Verdict(answer[m])]
<1>1. Mail!Init => Mail!OneFate
  BY DEF Mail!Init, Mail!OneFate
<1>2. Mail!OneFate /\ [Mail!Next]_(Mail!mailVars) => Mail!OneFate'
  <2> SUFFICES ASSUME Mail!OneFate, [Mail!Next]_(Mail!mailVars) PROVE Mail!OneFate'
    OBVIOUS
  <2>1. /\ \A m \in Msgs : verdict[m] = "accepted" <=> m \in Pending \cup Received \cup lost
        /\ Pending \cup Received \cup lost \subseteq Msgs
        /\ Pending \cap Received = {} /\ Pending \cap lost = {} /\ Received \cap lost = {}
    BY DEF Mail!OneFate
  <2>2. verdict' = [m \in Msgs |-> verdict'[m]] /\ verdict = [m \in Msgs |-> verdict[m]]
    OBVIOUS
  <2>3. ASSUME NEW m \in Msgs, NEW D \in SUBSET Pending, NEW status \in {"accepted", "refused"},
               verdict[m] = "none", verdict' = [verdict EXCEPT ![m] = status],
               Pending' = (Pending \ D) \cup (IF status = "accepted" THEN {m} ELSE {}),
               lost' = lost \cup D, Received' = Received
        PROVE  Mail!OneFate'
    <3> HIDE DEF verdict
    <3>1. \A x \in Msgs : verdict'[x] = IF x = m THEN status ELSE verdict[x]
      BY <2>2, <2>3
    <3>2. \A x \in Msgs : verdict'[x] = "accepted" <=> x \in Pending' \cup Received' \cup lost'
      BY <2>1, <2>3, <3>1
    <3>3. /\ Pending' \cup Received' \cup lost' \subseteq Msgs
          /\ Pending' \cap Received' = {} /\ Pending' \cap lost' = {} /\ Received' \cap lost' = {}
      BY <2>1, <2>3
    <3> USE DEF verdict
    <3> QED BY <3>2, <3>3 DEF Mail!OneFate
  <2>4. ASSUME verdict' = verdict, Pending' \subseteq Pending,
               Pending' \cup Received' \cup lost' = Pending \cup Received \cup lost,
               Pending' \cap Received' = {}, Pending' \cap lost' = {}, Received' \cap lost' = {}
        PROVE  Mail!OneFate'
    <3> HIDE DEF verdict
    <3>1. \A x \in Msgs : verdict'[x] = "accepted" <=> x \in Pending' \cup Received' \cup lost'
      BY <2>1, <2>4
    <3> USE DEF verdict
    <3> QED BY <2>1, <2>4, <3>1 DEF Mail!OneFate
  <2>5. ASSUME NEW m \in Msgs, NEW D \in SUBSET Pending, Mail!Accept(m, D) PROVE Mail!OneFate'
    BY <2>3, <2>5 DEF Mail!Accept
  <2>6. ASSUME NEW m \in Msgs, NEW D \in SUBSET Pending, Mail!Refuse(m, D) PROVE Mail!OneFate'
    BY <2>3, <2>6 DEF Mail!Refuse
  <2>7. ASSUME NEW m \in Msgs, Mail!Give(m) PROVE Mail!OneFate'
    <3>1. /\ verdict' = verdict /\ m \in Pending /\ Pending' = Pending \ {m}
          /\ Received' = Received \cup {m} /\ lost' = lost
      BY <2>7 DEF Mail!Give
    <3> HIDE DEF verdict
    <3> QED BY <2>1, <2>4, <3>1
  <2>8. ASSUME NEW D \in SUBSET Pending, Mail!Drop(D) PROVE Mail!OneFate'
    <3>1. /\ verdict' = verdict /\ Pending' = Pending \ D
          /\ Received' = Received /\ lost' = lost \cup D
      BY <2>8 DEF Mail!Drop
    <3> HIDE DEF verdict
    <3> QED BY <2>1, <2>4, <2>8, <3>1
  <2>9. CASE UNCHANGED Mail!mailVars
    BY <2>1, <2>4, <2>9 DEF Mail!mailVars
  <2> QED BY <2>5, <2>6, <2>7, <2>8, <2>9 DEF Mail!Next
<1>3. Mail!Spec => []Mail!OneFate
  BY <1>1, <1>2, PTL DEF Mail!Spec
<1> QED BY <1>3, RelayIsMailboxHolds, PTL DEF RelayIsMailbox

\* What a step loses was in a row past its TTL or in the channel of a connection
\* that fails or ends.
LEMMA LossHasCause ==
  ASSUME TypeOK, [Next]_vars, NEW m \in lost' \ lost
  PROVE  \/ \E e \in inbox : e.m = m /\ Expired(e)
         \/ \E c \in Conns : /\ m \in Elements(chan[c])
                             /\ conn[c].pc \in {"flushing", "serving", "leaving"}
                             /\ conn'[c].pc \in {"stopping", "gone"}
<1>1. lost' # lost
  OBVIOUS
<1>2. CASE m \in MessagesOf(inbox \ Fresh)
  BY <1>2 DEF MessagesOf, Fresh
<1>3. ASSUME NEW c \in Conns, DropChannel(c), conn[c].pc \in {"flushing", "leaving"}
      PROVE  m \in Elements(chan[c]) /\ conn'[c].pc = "gone"
  BY <1>3 DEF DropChannel, TypeOK
<1>4. ASSUME NEW c \in Conns, DeliverFails(c)
      PROVE  m \in Elements(chan[c]) /\ conn[c].pc = "serving" /\ conn'[c].pc = "stopping"
  <2>1. m = Head(chan[c]) /\ conn[c].pc = "serving" /\ conn'[c].pc = "stopping"
    BY <1>4 DEF DeliverFails, TypeOK
  <2>2. chan[c] \in Seq(Msgs) /\ chan[c] # <<>>
    BY <1>4 DEF DeliverFails, TypeOK
  <2>3. Elements(chan[c]) = {Head(chan[c])} \cup Elements(Tail(chan[c]))
    BY <2>2, ElementsOfTail
  <2> QED BY <2>1, <2>3
<1>5. ASSUME NEW s \in Senders, Look(s) \/ Command(s) PROVE m \in MessagesOf(inbox \ Fresh)
  BY <1>1, <1>5 DEF Look, Command, Forward, Refuse, Stamp, Store, StoreFails
<1>6. ASSUME NEW c \in Conns,
             \/ Evict(c) \/ Handshake(c) \/ Deliver(c) \/ DeliverFails(c)
             \/ Stop(c) \/ Unregister(c) \/ Return(c)
      PROVE  \/ m \in MessagesOf(inbox \ Fresh)
             \/ /\ m \in Elements(chan[c])
                /\ conn[c].pc \in {"flushing", "serving", "leaving"}
                /\ conn'[c].pc \in {"stopping", "gone"}
  <2>1. CASE LoadAndClear(c)
    BY <2>1 DEF LoadAndClear
  <2>2. CASE GreetFails(c) \/ Return(c)
    BY <1>3, <2>2 DEF GreetFails, Return
  <2>3. CASE DeliverFails(c)
    BY <1>4, <2>3
  <2>4. CASE \/ Evict(c) \/ Insert(c) \/ SaveUser(c) \/ LoadFails(c) \/ FlushOne(c) \/ Greet(c)
             \/ Deliver(c) \/ Stop(c) \/ Unregister(c)
    BY <1>1, <2>4 DEF Evict, Insert, SaveUser, LoadFails, FlushOne, Greet, Deliver, Stop, Unregister
  <2> QED BY <1>6, <2>1, <2>2, <2>3, <2>4 DEF Handshake
<1>7. ASSUME Sweep PROVE m \in MessagesOf(inbox \ Fresh)
  BY <1>7 DEF Sweep
<1>8. ~(Tick \/ UNCHANGED vars)
  BY <1>1 DEF Tick, vars
<1>9. m \in MessagesOf(inbox \ Fresh) \/ \E c \in Conns :
        /\ m \in Elements(chan[c])
        /\ conn[c].pc \in {"flushing", "serving", "leaving"}
        /\ conn'[c].pc \in {"stopping", "gone"}
  BY <1>5, <1>6, <1>7, <1>8 DEF Next
<1> QED BY <1>2, <1>9

\* A message the server answered "ok" or "queued" stays where it is until a
\* client receives it, its row is past the TTL, or the connection in whose
\* channel it is fails or ends: no interleaving of senders, handshakes and
\* sweeps loses one otherwise (handler.rs relay_deliver_and_finalize, inbox.rs).
THEOREM KeptUntilDueHolds == Spec => [][KeptUntilDue]_vars
<1>1. ASSUME IInv, Mail!OneFate, [Next]_vars PROVE KeptUntilDue
  <2> SUFFICES ASSUME NEW m \in Pending, m \notin Pending', m \notin Received'
               PROVE  \/ \E e \in inbox : e.m = m /\ Expired(e)
                      \/ \E c \in Conns : /\ m \in Elements(chan[c])
                                          /\ conn[c].pc \in {"flushing", "serving", "leaving"}
                                          /\ conn'[c].pc \in {"stopping", "gone"}
    BY DEF KeptUntilDue
  <2>1. m \notin lost
    BY <1>1 DEF Mail!OneFate
  <2>2. [Mail!Next]_(Mail!mailVars)
    BY <1>1, MailStep
  <2>3. m \in lost'
    BY <2>2 DEF Mail!Next, Mail!Accept, Mail!Refuse, Mail!Give, Mail!Drop, Mail!mailVars
  <2> QED BY <1>1, <2>1, <2>3, LossHasCause DEF IInv
<1> QED BY <1>1, IInvHolds, OneFateHolds, PTL DEF Spec
=============================================================================
