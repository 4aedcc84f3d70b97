--------------------------- MODULE WireOrderProofs ---------------------------
(***************************************************************************)
(* The receiver's reordering buffer and the order it restores, for any     *)
(* number of messages, servers, restarts and prunings.                     *)
(*   HoldSound          inductive once packets carry natural numbers       *)
(*                      (Numbered), whatever sender and network do;        *)
(*   OrderUnlessGivenUp needs both ends: the gate numbers messages in call *)
(*                      order (CallsNumbered), and the log is the stream   *)
(*                      up to the next number expected, each number of it  *)
(*                      dispatched or given up (Received).                 *)
(***************************************************************************)
EXTENDS WireOrder, FiniteSetTheorems, FunctionTheorems, TLAPS

AnyPacket == [msg : Int, wseq : Nat, via : Int]

\* What the sender supplies: natural numbers.
Counters ==
  /\ called \in Int /\ turn \in Int /\ wireSeq \in Nat
  /\ number \in Nat /\ tries \in Int
Numbered ==
  /\ net \subseteq AnyPacket
  /\ order \in [present : BOOLEAN, next : Nat, buffer : SUBSET AnyPacket,
                timer : {"off", "armed"}]
IInv == Counters /\ Numbered /\ HoldSound

LEMMA InitIInv == Init => IInv
BY BoundsOK DEF Init, IInv, Counters, Numbered, HoldSound, NoOrder

\* An emitted packet carries a natural number.
LEMMA EmitNumbered ==
  ASSUME Counters, net \subseteq AnyPacket, NEW via \in Int, Emit(via)
  PROVE  net' \subseteq AnyPacket
BY DEF Counters, Emit, Gated, AnyPacket

\* The sender's steps leave the receiver alone and number packets with naturals.
LEMMA SenderIInv ==
  ASSUME IInv,
         \/ Call \/ SenderStep \/ RawSend \/ RawAnswered
         \/ ChannelFlips \/ Dispose \/ Reconnect
  PROVE  IInv'
<1>1. UNCHANGED order
  BY DEF Call, SenderStep, RawSend, RawAnswered, ChannelFlips, Dispose, Reconnect,
         Enter, WriteRtc, FallBack, BeginRelay, RelayForwarded, RelayRefused,
         RelayAnswered, RelayTimedOut, PayloadFails, GiveUp, receiver
<1>2. Counters'
  <2> USE DEF IInv, Counters, Gated, Leave, calls, gated
  <2>1. CASE Call           BY <2>1 DEF Call
  <2>2. CASE SenderStep
    <3>1. CASE Enter           BY <3>1 DEF Enter
    <3>2. CASE WriteRtc        BY <3>2 DEF WriteRtc
    <3>3. CASE FallBack        BY <3>3 DEF FallBack
    <3>4. CASE BeginRelay      BY <3>4 DEF BeginRelay
    <3>5. CASE RelayForwarded  BY <3>5 DEF RelayForwarded
    <3>6. CASE RelayRefused    BY <3>6 DEF RelayRefused
    <3>7. CASE RelayAnswered   BY <3>7 DEF RelayAnswered
    <3>8. CASE RelayTimedOut   BY <3>8 DEF RelayTimedOut
    <3>9. CASE GiveUp          BY <3>9 DEF GiveUp
    <3>10. CASE PayloadFails   BY <3>10 DEF PayloadFails
    <3> QED BY <2>2, <3>1, <3>2, <3>3, <3>4, <3>5, <3>6, <3>7, <3>8, <3>9, <3>10
          DEF SenderStep
  <2>3. CASE RawSend        BY <2>3 DEF RawSend
  <2>4. CASE RawAnswered    BY <2>4 DEF RawAnswered
  <2>5. CASE ChannelFlips   BY <2>5 DEF ChannelFlips
  <2>6. CASE Dispose        BY <2>6 DEF Dispose
  <2>7. CASE Reconnect      BY <2>7 DEF Reconnect
  <2> QED BY <2>1, <2>2, <2>3, <2>4, <2>5, <2>6, <2>7
<1>3. net' \subseteq AnyPacket
  <2>1. CASE WriteRtc
    BY <2>1, EmitNumbered DEF WriteRtc, IInv, Numbered
  <2>2. CASE RelayForwarded
    <3>1. Emit(tries + 1) /\ tries + 1 \in Int
      BY <2>2 DEF RelayForwarded, IInv, Counters
    <3> QED BY <3>1, EmitNumbered DEF IInv, Numbered
  <2>3. CASE ~WriteRtc /\ ~RelayForwarded
    <3>1. net' = net
      BY <2>3 DEF Call, SenderStep, RawSend, RawAnswered, ChannelFlips, Dispose,
                  Reconnect, Enter, FallBack, BeginRelay, RelayRefused,
                  RelayAnswered, RelayTimedOut, PayloadFails, GiveUp, wire
    <3> QED BY <3>1 DEF IInv, Numbered
  <2> QED BY <2>1, <2>2, <2>3
<1> QED BY <1>1, <1>2, <1>3 DEF IInv, Numbered, HoldSound

\* A dispatch or a hold keeps the buffer sound: what follows the first gap is
\* beyond it, and a repeated number replaces the packet it repeats.
LEMMA ReorderIInv ==
  ASSUME IInv, NEW p \in net, ReorderDispatch(p)
  PROVE  IInv'
<1> DEFINE o == Entry(p)
<1>1. p \in AnyPacket /\ p.wseq \in Nat
  BY DEF IInv, Numbered, AnyPacket
<1>2. /\ o \in [present : BOOLEAN, next : Nat, buffer : SUBSET AnyPacket,
                timer : {"off", "armed"}]
      /\ o.buffer # {} => o.timer = "armed"
      /\ \A q \in o.buffer : q.wseq > o.next
      /\ \A q, r \in o.buffer : q.wseq = r.wseq => q = r
  BY <1>1 DEF IInv, Numbered, HoldSound, Entry, NoOrder
<1>3. Counters' /\ net' \subseteq AnyPacket
  BY DEF IInv, Counters, Numbered, ReorderDispatch, sender
<1>4. CASE order' = o
  BY <1>2, <1>3, <1>4 DEF IInv, Numbered, HoldSound
<1>5. CASE Held(o, p) /\ order' = Hold(o, p)
  <2>1. order' \in [present : BOOLEAN, next : Nat, buffer : SUBSET AnyPacket,
                    timer : {"off", "armed"}]
    BY <1>1, <1>2, <1>5 DEF Hold
  <2>2. /\ order'.buffer = {q \in o.buffer : q.wseq # p.wseq} \cup {p}
        /\ order'.timer = "armed" /\ order'.next = o.next
    BY <1>2, <1>5 DEF Hold
  <2>3. HoldSound'
    BY <1>1, <1>2, <1>5, <2>2 DEF HoldSound, Held
  <2> QED BY <1>3, <2>1, <2>3 DEF IInv, Numbered
<1>6. ASSUME NEW n \in (o.next + 1)..(o.next + 1 + Cardinality(o.buffer)),
             FirstGap(n, o.next + 1, o.buffer), order' = Release(o, n)
      PROVE  IInv'
  <2>1. n \in Nat
    BY <1>2, <1>6
  <2> DEFINE rest == {q \in o.buffer : q.wseq > n}
  <2>2. /\ order'.next = n
        /\ order'.buffer = rest
        /\ order' \in [present : BOOLEAN, next : Nat, buffer : SUBSET AnyPacket,
                       timer : {"off", "armed"}]
    BY <1>2, <1>6, <2>1 DEF Release
  <2>4. rest # {} => order'.timer = "armed"
    BY <1>2, <1>6 DEF Release
  <2>3. HoldSound'
    BY <1>2, <2>2, <2>4 DEF HoldSound
  <2> QED BY <1>3, <2>2, <2>3 DEF IInv, Numbered
<1> QED BY <1>4, <1>5, <1>6 DEF ReorderDispatch

\* The flush empties the buffer; what is left is trivially sound.
LEMMA FlushIInv ==
  ASSUME IInv, FlushOrderBuffer
  PROVE  IInv'
<1>1. Counters' /\ net' = net
  BY DEF IInv, Counters, FlushOrderBuffer, sender, wire
<1>2. ASSUME order.buffer = {}, order' = [order EXCEPT !.timer = "off"]
      PROVE  IInv'
  BY <1>1, <1>2 DEF IInv, Numbered, HoldSound
<1>3. ASSUME NEW top \in order.buffer,
             order' = [order EXCEPT !.next = top.wseq + 1, !.buffer = {},
                                    !.timer = "off"]
      PROVE  IInv'
  <2>1. top.wseq + 1 \in Nat
    BY DEF IInv, Numbered, AnyPacket
  <2> QED BY <1>1, <1>3, <2>1 DEF IInv, Numbered, HoldSound
<1> QED BY <1>2, <1>3 DEF FlushOrderBuffer

\* The inductive step: every action keeps the invariant.
LEMMA StepIInv == IInv /\ [Next]_vars => IInv'
<1> SUFFICES ASSUME IInv, [Next]_vars
             PROVE  IInv'
  OBVIOUS
<1>1. CASE \/ Call \/ SenderStep \/ RawSend \/ RawAnswered
            \/ ChannelFlips \/ Dispose \/ Reconnect
  BY <1>1, SenderIInv
<1>2. ASSUME NEW p \in net, ReorderDispatch(p) PROVE IInv'
  BY <1>2, ReorderIInv
<1>3. ASSUME NEW p \in net, Lose(p) PROVE IInv'
  BY <1>3 DEF Lose, sender, receiver, IInv, Counters, Numbered, HoldSound
<1>4. CASE FlushOrderBuffer
  BY <1>4, FlushIInv
<1>5. CASE PruneOrderStates
  BY <1>5 DEF PruneOrderStates, NoOrder, sender, wire, IInv, Counters, Numbered,
              HoldSound
<1>6. CASE UNCHANGED vars
  BY <1>6 DEF vars, IInv, Counters, Numbered, HoldSound
<1> QED BY <1>1, <1>2, <1>3, <1>4, <1>5, <1>6 DEF Next

\* The reordering buffer of LocalUser.#reorderDispatch never holds a packet
\* without a timer, below its baseline or twice under one number: the flush
\* discards nothing.
THEOREM HoldSoundHolds == Spec => []HoldSound
<1>1. IInv => HoldSound
  BY DEF IInv
<1> QED BY InitIInv, StepIInv, <1>1, PTL DEF Spec

----------------------------------------------------------------------------
(* Sorting: a finite set of packets with distinct numbers is put in order.   *)

\* A place for each packet: how many have no greater number.
LEMMA Ranks ==
  ASSUME NEW S \in SUBSET AnyPacket, IsFiniteSet(S),
         \A q, r \in S : q.wseq = r.wseq => q = r
  PROVE  \E t \in [1..Cardinality(S) -> S] :
           \A i, k \in 1..Cardinality(S) :
             i < k => t[i] # t[k] /\ t[i].wseq <= t[k].wseq
<1> DEFINE n == Cardinality(S)
           upto(p) == {q \in S : q.wseq <= p.wseq}
           rank == [p \in S |-> Cardinality(upto(p))]
<1>1. n \in Nat BY FS_CardinalityType
<1>2. \A p \in S : p.wseq \in Nat BY DEF AnyPacket
<1>3. ASSUME NEW p \in S
      PROVE  /\ IsFiniteSet(upto(p)) /\ Cardinality(upto(p)) \in 1..n
             /\ \A q \in S : upto(q) \subseteq upto(p) =>
                  /\ Cardinality(upto(q)) <= Cardinality(upto(p))
                  /\ upto(q) # upto(p) => Cardinality(upto(q)) < Cardinality(upto(p))
  <2>1. upto(p) \in SUBSET S /\ p \in upto(p) BY <1>2
  <2>2. IsFiniteSet(upto(p)) /\ Cardinality(upto(p)) <= n BY <2>1, FS_Subset
  <2>3. Cardinality(upto(p)) \in Nat /\ Cardinality(upto(p)) # 0
    BY <2>1, <2>2, FS_CardinalityType, FS_EmptySet
  <2>4. ASSUME NEW T, T \subseteq upto(p)
        PROVE  /\ Cardinality(T) \in Nat /\ Cardinality(T) <= Cardinality(upto(p))
               /\ T # upto(p) => Cardinality(T) < Cardinality(upto(p))
    <3>1. T \in SUBSET upto(p) BY <2>4
    <3>2. /\ IsFiniteSet(T) /\ Cardinality(T) <= Cardinality(upto(p))
          /\ Cardinality(upto(p)) = Cardinality(T) => upto(p) = T
      BY <2>2, <3>1, FS_Subset
    <3>3. Cardinality(T) \in Nat BY <3>2, FS_CardinalityType
    <3> QED BY <2>3, <3>2, <3>3
  <2> HIDE DEF upto
  <2> QED BY <1>1, <2>2, <2>3, <2>4
<1>4. \A p, q \in S : p.wseq < q.wseq <=> rank[p] < rank[q]
  <2> TAKE p, q \in S
  <2>1. p.wseq \in Nat /\ q.wseq \in Nat BY <1>2
  <2>2. rank[p] \in 1..n /\ rank[q] \in 1..n BY <1>3
  <2>3. CASE p.wseq < q.wseq
    <3>1. upto(p) \subseteq upto(q) /\ q \in upto(q) /\ q \notin upto(p)
      BY <1>2, <2>1, <2>3
    <3>2. upto(p) # upto(q) BY <3>1
    <3>3. rank[p] < rank[q] BY <1>3, <3>1, <3>2
    <3> QED BY <2>3, <3>3
  <2>4. CASE ~(p.wseq < q.wseq)
    <3>1. upto(q) \subseteq upto(p) BY <1>2, <2>1, <2>4
    <3>2. rank[q] <= rank[p] BY <1>3, <3>1
    <3>3. ~(rank[p] < rank[q]) BY <2>2, <3>2
    <3> QED BY <2>4, <3>3
  <2> QED BY <2>3, <2>4
<1>5. rank \in [S -> 1..n] BY <1>3
<1> HIDE DEF rank
<1>6. rank \in Injection(S, 1..n)
  <2>1. ASSUME NEW p \in S, NEW q \in S, rank[p] = rank[q] PROVE p = q
    <3>1. rank[p] \in Nat /\ rank[q] \in Nat BY <1>1, <1>5
    <3>2. ~(p.wseq < q.wseq) /\ ~(q.wseq < p.wseq) BY <1>4, <2>1, <3>1
    <3>3. p.wseq = q.wseq BY <1>2, <3>2
    <3> QED BY <3>3
  <2> QED BY <1>5, <2>1 DEF Injection, IsInjective
<1>7. rank \in Surjection(S, 1..n)
  <2>1. IsFiniteSet(1..n) /\ Cardinality(1..n) = n
    <3>1. \A m \in Nat : IsFiniteSet(1..m) /\ Cardinality(1..m) = m
      <4> TAKE m \in Nat
      <4> QED BY FS_Interval
    <3> HIDE DEF n
    <3> QED BY <1>1, <3>1
  <2> QED BY <1>6, <2>1, FS_Injection
<1> DEFINE t == [i \in 1..n |-> CHOOSE p \in S : rank[p] = i]
<1>8. \A i \in 1..n : t[i] \in S /\ rank[t[i]] = i BY <1>7 DEF Surjection
<1>9. t \in [1..n -> S] BY <1>8
<1> HIDE DEF t
<1>10. ASSUME NEW i \in 1..n, NEW k \in 1..n, i < k
       PROVE  t[i] # t[k] /\ t[i].wseq <= t[k].wseq
  <2>1. t[i] \in S /\ t[k] \in S /\ rank[t[i]] = i /\ rank[t[k]] = k BY <1>8
  <2>2. t[i].wseq < t[k].wseq BY <1>4, <1>10, <2>1
  <2>3. t[i].wseq \in Nat /\ t[k].wseq \in Nat BY <1>2, <2>1
  <2> QED BY <2>2, <2>3
<1> QED BY <1>9, <1>10

LEMMA BySeqSorts ==
  ASSUME NEW S \in SUBSET AnyPacket, IsFiniteSet(S),
         \A q, r \in S : q.wseq = r.wseq => q = r
  PROVE  /\ BySeq(S) \in Seq(AnyPacket)
         /\ \A i \in 1..Len(BySeq(S)) : BySeq(S)[i] \in S
         /\ \A q \in S : \E i \in 1..Len(BySeq(S)) : BySeq(S)[i] = q
         /\ \A i, k \in 1..Len(BySeq(S)) : i < k => BySeq(S)[i].wseq < BySeq(S)[k].wseq
<1> DEFINE n == Cardinality(S)
           t == BySeq(S)
<1>1. n \in Nat BY FS_CardinalityType
<1>2. /\ t \in [1..n -> S]
      /\ \A i, k \in 1..n : i < k => t[i] # t[k] /\ t[i].wseq <= t[k].wseq
  BY Ranks DEF BySeq
<1> HIDE DEF t, n
<1>3. t \in Seq(AnyPacket) /\ Len(t) = n BY <1>1, <1>2
<1>4. \A i \in 1..n : t[i] \in S /\ t[i].wseq \in Nat BY <1>2 DEF AnyPacket
<1>5. \A i, k \in 1..n : i < k => t[i].wseq < t[k].wseq
  <2> TAKE i, k \in 1..n
  <2> HAVE i < k
  <2>1. t[i] # t[k] /\ t[i].wseq <= t[k].wseq BY <1>2
  <2>2. t[i].wseq # t[k].wseq BY <1>4, <2>1
  <2> QED BY <1>4, <2>1, <2>2
<1>6. t \in Injection(1..n, S)
  <2>1. \A i, k \in 1..n : t[i] = t[k] => i = k
    <3> TAKE i, k \in 1..n
    <3> HAVE t[i] = t[k]
    <3>1. ~(i < k) /\ ~(k < i) BY <1>2
    <3> QED BY <1>1, <3>1
  <2> QED BY <1>2, <2>1 DEF Injection, IsInjective
<1>7. t \in Surjection(1..n, S)
  <2>1. \A m \in Nat : IsFiniteSet(1..m) /\ Cardinality(1..m) = m
    <3> TAKE m \in Nat
    <3> QED BY FS_Interval
  <2>2. Cardinality(1..n) = Cardinality(S) BY <1>1, <2>1 DEF n
  <2> QED BY <1>6, <2>2, FS_Injection
<1>8. \A q \in S : \E i \in 1..n : t[i] = q BY <1>7 DEF Surjection
<1>9. /\ t \in Seq(AnyPacket)
      /\ \A i \in 1..Len(t) : t[i] \in S
      /\ \A q \in S : \E i \in 1..Len(t) : t[i] = q
      /\ \A i, k \in 1..Len(t) : i < k => t[i].wseq < t[k].wseq
  BY <1>3, <1>4, <1>5, <1>8
<1> QED BY <1>9 DEF t

----------------------------------------------------------------------------
(* Call order, while no stream is pruned and no RemoteUser is replaced.      *)

Undisturbed == used.prunes = 0 /\ epoch = 0 /\ ~disposed

\* What OrderUnlessGivenUp says of a log L that began at b with the gaps G.
Ordered(L, b, G) ==
  \A j \in 1..Len(L) : \A i \in 1..(j - 1) :
    L[i].msg > L[j].msg =>
      \/ L[j].wseq \in G
      \/ L[j].wseq < b
      \/ \E h \in 1..(j - 1) : L[h].msg = L[j].msg

\* The log is the stream from b up to the next number that entry o expects: each
\* number was dispatched or given up, none beyond was dispatched.
Plain(L) == \A i \in 1..Len(L) : L[i].msg = L[i].wseq
Below(L, n) == \A i \in 1..Len(L) : L[i].wseq < n
Covered(L, b, n, G) ==
  \A k \in Nat : b <= k /\ k < n => k \in G \/ \E h \in 1..Len(L) : L[h].wseq = k
Stream(o, L, b, G) ==
  /\ b >= 1 /\ b <= o.next
  /\ Plain(L) /\ Below(L, o.next) /\ Covered(L, b, o.next, G) /\ Ordered(L, b, G)
  /\ \A q \in o.buffer : q.msg = q.wseq

\* In the first life of the RemoteUser the number of a message is its place in
\* the order of calls.
CallsNumbered ==
  /\ pc = "gate" => wireSeq = turn
  /\ pc # "gate" => wireSeq = turn + 1 /\ number = turn + 1
  /\ \A p \in net : p.msg = p.wseq /\ p.wseq >= 1
Received ==
  IF order.present THEN Stream(order, log, base, gaveUp)
                   ELSE log = <<>> /\ base = 0 /\ order.buffer = {}
LogTypes ==
  /\ turn \in Nat /\ called \in Nat /\ epoch \in Nat
  /\ used \in [flips : Int, raws : Int, prunes : Nat]
  /\ log \in Seq(AnyPacket) /\ base \in Nat /\ IsFiniteSet(order.buffer)
OrderInv == LogTypes /\ (Undisturbed => CallsNumbered /\ Received)

\* Packets in order that follow all of a log keep it ordered.
LEMMA OrderedAppend ==
  ASSUME NEW L \in Seq(AnyPacket), NEW t \in Seq(AnyPacket), NEW b \in Nat,
         NEW n \in Nat, NEW G, NEW H, G \subseteq H,
         Plain(L), Below(L, n), Ordered(L, b, G),
         \A i \in 1..Len(t) : t[i].msg = t[i].wseq /\ t[i].wseq >= n,
         \A i, k \in 1..Len(t) : i < k => t[i].wseq < t[k].wseq
  PROVE  /\ Plain(L \o t) /\ Ordered(L \o t, b, H) /\ L \o t \in Seq(AnyPacket)
         /\ Len(L \o t) = Len(L) + Len(t)
         /\ \A i \in 1..Len(L) : (L \o t)[i] = L[i]
         /\ \A i \in 1..Len(t) : (L \o t)[Len(L) + i] = t[i]
         /\ \A i \in 1..Len(L \o t) :
              i \in 1..Len(L) \/ (i - Len(L) \in 1..Len(t) /\ i > Len(L))
<1> DEFINE M == L \o t
<1>1. /\ M \in Seq(AnyPacket) /\ Len(M) = Len(L) + Len(t)
      /\ Len(L) \in Nat /\ Len(t) \in Nat
      /\ \A i \in 1..Len(L) : M[i] = L[i]
      /\ \A i \in 1..Len(M) : i > Len(L) => /\ i - Len(L) \in 1..Len(t)
                                            /\ M[i] = t[i - Len(L)]
  OBVIOUS
<1> HIDE DEF M
<1>2. ASSUME NEW i \in 1..Len(t) PROVE M[Len(L) + i] = t[i]
  <2>1. Len(L) + i \in 1..Len(M) /\ Len(L) + i > Len(L) /\ (Len(L) + i) - Len(L) = i
    BY <1>1
  <2>2. M[Len(L) + i] = t[(Len(L) + i) - Len(L)] BY <1>1, <2>1
  <2> QED BY <2>1, <2>2
<1>3. \A i \in 1..Len(M) : i \in 1..Len(L) \/ (i - Len(L) \in 1..Len(t) /\ i > Len(L))
  BY <1>1
<1>4. Plain(M)
  <2> SUFFICES ASSUME NEW i \in 1..Len(M) PROVE M[i].msg = M[i].wseq
    BY DEF Plain
  <2>1. CASE i \in 1..Len(L) BY <1>1, <2>1 DEF Plain
  <2>2. CASE i - Len(L) \in 1..Len(t) /\ i > Len(L) BY <1>1, <2>2
  <2> QED BY <1>3, <2>1, <2>2
<1>5. \A i \in 1..Len(M) : M[i].wseq \in Nat /\ M[i].msg = M[i].wseq
  <2> TAKE i \in 1..Len(M)
  <2>1. M[i] \in AnyPacket BY <1>1
  <2> QED BY <1>4, <2>1 DEF AnyPacket, Plain
<1>6. Ordered(M, b, H)
  <2> SUFFICES ASSUME NEW j \in 1..Len(M), NEW i \in 1..(j - 1), M[i].msg > M[j].msg
               PROVE  \/ M[j].wseq \in H
                      \/ M[j].wseq < b
                      \/ \E h \in 1..(j - 1) : M[h].msg = M[j].msg
    BY DEF Ordered
  <2>0. i \in 1..Len(M) /\ i < j /\ j \in Nat /\ i \in Nat BY <1>1
  <2>1. CASE j \in 1..Len(L)
    <3>1. M[j] = L[j] /\ \A h \in 1..(j - 1) : M[h] = L[h] BY <1>1, <2>1
    <3>2. L[i].msg > L[j].msg BY <3>1
    <3>3. \/ L[j].wseq \in G
          \/ L[j].wseq < b
          \/ \E h \in 1..(j - 1) : L[h].msg = L[j].msg
      BY <2>1, <3>2 DEF Ordered
    <3>4. ASSUME NEW h \in 1..(j - 1), L[h].msg = L[j].msg
          PROVE  \E g \in 1..(j - 1) : M[g].msg = M[j].msg
      BY <3>1, <3>4
    <3> QED BY <3>1, <3>3, <3>4
  <2>2. CASE j - Len(L) \in 1..Len(t) /\ j > Len(L)
    <3>1. M[j] = t[j - Len(L)] /\ M[j].wseq >= n BY <1>1, <2>2
    <3>2. CASE i \in 1..Len(L)
      <4>1. M[i].wseq < n BY <1>1, <3>2 DEF Below
      <4>2. M[i].wseq < M[j].wseq BY <1>5, <2>0, <3>1, <4>1
      <4> QED BY <1>5, <2>0, <4>2
    <3>3. CASE i - Len(L) \in 1..Len(t) /\ i > Len(L)
      <4>1. M[i] = t[i - Len(L)] /\ i - Len(L) < j - Len(L) BY <1>1, <2>0, <3>3
      <4>2. M[i].wseq < M[j].wseq BY <2>2, <3>1, <3>3, <4>1
      <4> QED BY <1>5, <2>0, <4>2
    <3> QED BY <1>3, <2>0, <3>2, <3>3
  <2> QED BY <1>3, <2>1, <2>2
<1> QED BY <1>1, <1>2, <1>3, <1>4, <1>6 DEF M

\* The sender's steps number the calls in their order and touch nothing else.
LEMMA SenderOrder ==
  ASSUME OrderInv,
         \/ Call \/ SenderStep \/ RawSend \/ RawAnswered
         \/ ChannelFlips \/ Dispose \/ Reconnect
  PROVE  OrderInv'
<1>1. UNCHANGED <<order, log, base, gaveUp>> /\ used'.prunes = used.prunes
      /\ used' \in [flips : Int, raws : Int, prunes : Nat]
  <2>1. UNCHANGED <<order, log, base, gaveUp>>
    BY DEF Call, SenderStep, RawSend, RawAnswered, ChannelFlips, Dispose, Reconnect,
           Enter, WriteRtc, FallBack, BeginRelay, RelayForwarded, RelayRefused,
           RelayAnswered, RelayTimedOut, PayloadFails, GiveUp, receiver
  <2>2. \/ used' = used
        \/ used' = [used EXCEPT !.raws = @ + 1]
        \/ used' = [used EXCEPT !.flips = @ + 1]
    BY DEF Call, SenderStep, RawSend, RawAnswered, ChannelFlips, Dispose, Reconnect,
           Enter, WriteRtc, FallBack, BeginRelay, RelayForwarded, RelayRefused,
           RelayAnswered, RelayTimedOut, PayloadFails, GiveUp
  <2>3. used'.prunes = used.prunes /\ used' \in [flips : Int, raws : Int, prunes : Nat]
    BY <2>2 DEF OrderInv, LogTypes
  <2> QED BY <2>1, <2>3
<1>2. turn' \in Nat /\ called' \in Nat /\ epoch' \in Nat
      /\ (Undisturbed' => Undisturbed)
  <2>1. turn \in Nat /\ called \in Nat /\ epoch \in Nat BY DEF OrderInv, LogTypes
  <2> USE DEF Gated, Leave, calls, peer, Undisturbed
  <2>2. CASE Call BY <1>1, <2>1, <2>2 DEF Call
  <2>3. CASE SenderStep
    BY <1>1, <2>1, <2>3 DEF SenderStep, Enter, WriteRtc, FallBack, BeginRelay,
       RelayForwarded, RelayRefused, RelayAnswered, RelayTimedOut, PayloadFails, GiveUp
  <2>4. CASE RawSend \/ RawAnswered \/ ChannelFlips
    BY <1>1, <2>1, <2>4 DEF RawSend, RawAnswered, ChannelFlips
  <2>5. CASE Dispose BY <1>1, <2>1, <2>5 DEF Dispose
  <2>6. CASE Reconnect BY <1>1, <2>1, <2>6 DEF Reconnect
  <2> QED BY <2>2, <2>3, <2>4, <2>5, <2>6
<1>3. LogTypes' BY <1>1, <1>2 DEF OrderInv, LogTypes
<1>4. ASSUME Undisturbed' PROVE CallsNumbered'
  <2>1. Undisturbed /\ CallsNumbered /\ turn \in Nat
    BY <1>2, <1>4 DEF OrderInv, LogTypes
  <2> USE DEF CallsNumbered, Gated, Leave, calls, gated, wire
  <2>2. CASE Call BY <2>1, <2>2 DEF Call
  <2>3. CASE Enter BY <2>1, <2>3 DEF Enter
  <2>4. CASE WriteRtc BY <2>1, <2>4 DEF WriteRtc, Emit
  <2>5. CASE FallBack \/ BeginRelay \/ RelayRefused \/ RelayTimedOut
    BY <2>1, <2>5 DEF FallBack, BeginRelay, RelayRefused, RelayTimedOut
  <2>6. CASE RelayForwarded BY <2>1, <2>6 DEF RelayForwarded, Emit
  <2>7. CASE RelayAnswered \/ PayloadFails \/ GiveUp
    BY <2>1, <2>7 DEF RelayAnswered, PayloadFails, GiveUp
  <2>8. CASE RawSend \/ RawAnswered \/ ChannelFlips
    BY <2>1, <2>8 DEF RawSend, RawAnswered, ChannelFlips
  <2>9. CASE Dispose \/ Reconnect
    BY <1>4, <2>1, <2>9 DEF Dispose, Reconnect, Undisturbed, peer
  <2> QED BY <2>2, <2>3, <2>4, <2>5, <2>6, <2>7, <2>8, <2>9 DEF SenderStep
<1>5. Undisturbed' => Received' BY <1>1, <1>2 DEF OrderInv, Received
<1> QED BY <1>3, <1>4, <1>5 DEF OrderInv

\* What the receiver does with one packet, for any log and baseline.
EntryOf(o) ==
  /\ o \in [present : BOOLEAN, next : Nat, buffer : SUBSET AnyPacket,
             timer : {"off", "armed"}]
  /\ IsFiniteSet(o.buffer)
  /\ \A q \in o.buffer : q.wseq > o.next
  /\ \A q, r \in o.buffer : q.wseq = r.wseq => q = r

LEMMA LateStream ==
  ASSUME NEW o, EntryOf(o), NEW L \in Seq(AnyPacket), NEW b \in Nat, NEW G,
         NEW p \in AnyPacket, p.msg = p.wseq, Stream(o, L, b, G), Late(o, p)
  PROVE  Stream(o, Append(L, p), b, G) /\ Append(L, p) \in Seq(AnyPacket)
<1> DEFINE M == Append(L, p)
<1>1. /\ M \in Seq(AnyPacket) /\ Len(M) = Len(L) + 1 /\ Len(L) \in Nat
      /\ \A i \in 1..Len(L) : M[i] = L[i] /\ i \in 1..Len(M)
      /\ M[Len(L) + 1] = p
      /\ \A i \in 1..Len(M) : i \in 1..Len(L) \/ i = Len(L) + 1
  OBVIOUS
<1> HIDE DEF M
<1>2. o.next \in Nat /\ p.wseq \in Nat /\ p.wseq < o.next
  BY DEF EntryOf, AnyPacket, Late
<1>3. Plain(M) BY <1>1 DEF Plain, Stream
<1>4. Below(M, o.next) BY <1>1, <1>2 DEF Below, Stream
<1>5. Covered(M, b, o.next, G)
  <2> SUFFICES ASSUME NEW k \in Nat, b <= k, k < o.next, k \notin G
               PROVE  \E h \in 1..Len(M) : M[h].wseq = k
    BY DEF Covered
  <2>1. PICK h \in 1..Len(L) : L[h].wseq = k BY DEF Covered, Stream
  <2> QED BY <1>1, <2>1
<1>6. Ordered(M, b, G)
  <2> SUFFICES ASSUME NEW j \in 1..Len(M), NEW i \in 1..(j - 1), M[i].msg > M[j].msg
               PROVE  \/ M[j].wseq \in G
                      \/ M[j].wseq < b
                      \/ \E h \in 1..(j - 1) : M[h].msg = M[j].msg
    BY DEF Ordered
  <2>1. CASE j \in 1..Len(L)
    <3>1. M[j] = L[j] /\ \A h \in 1..(j - 1) : M[h] = L[h] BY <1>1, <2>1
    <3>2. L[i].msg > L[j].msg BY <3>1
    <3>3. \/ L[j].wseq \in G
          \/ L[j].wseq < b
          \/ \E h \in 1..(j - 1) : L[h].msg = L[j].msg
      BY <2>1, <3>2 DEF Ordered, Stream
    <3>4. ASSUME NEW h \in 1..(j - 1), L[h].msg = L[j].msg
          PROVE  \E g \in 1..(j - 1) : M[g].msg = M[j].msg
      BY <3>1, <3>4
    <3> QED BY <3>1, <3>3, <3>4
  <2>2. CASE j = Len(L) + 1
    <3>1. M[j] = p /\ j - 1 = Len(L) BY <1>1, <2>2
    <3>2. CASE p.wseq < b \/ p.wseq \in G BY <3>1, <3>2
    <3>3. CASE ~(p.wseq < b) /\ p.wseq \notin G
      <4>1. PICK h \in 1..Len(L) : L[h].wseq = p.wseq
        BY <1>2, <3>3 DEF Covered, Stream
      <4>2. M[h].msg = M[j].msg /\ h \in 1..(j - 1)
        BY <1>1, <3>1, <4>1 DEF Plain, Stream
      <4> QED BY <4>2
    <3> QED BY <3>2, <3>3
  <2> QED BY <1>1, <2>1, <2>2
<1>7. Stream(o, M, b, G) BY <1>3, <1>4, <1>5, <1>6 DEF Stream
<1> QED BY <1>1, <1>7 DEF M

\* Dispatching S, in order, after a log that ends below it, up to number n.
LEMMA BatchStream ==
  ASSUME NEW L \in Seq(AnyPacket), NEW b \in Nat, NEW m \in Nat, NEW n \in Nat,
         NEW G, NEW H, G \subseteq H, m <= n,
         Plain(L), Below(L, m), Covered(L, b, m, G), Ordered(L, b, G),
         NEW S \in SUBSET AnyPacket, IsFiniteSet(S),
         \A q, r \in S : q.wseq = r.wseq => q = r,
         \A q \in S : q.msg = q.wseq /\ q.wseq >= m /\ q.wseq < n,
         \A k \in Nat : m <= k /\ k < n => k \in H \/ \E q \in S : q.wseq = k
  PROVE  LET M == L \o BySeq(S)
         IN /\ M \in Seq(AnyPacket)
            /\ Plain(M) /\ Below(M, n) /\ Covered(M, b, n, H) /\ Ordered(M, b, H)
<1> DEFINE t == BySeq(S)
           M == L \o t
<1>1. /\ t \in Seq(AnyPacket)
      /\ \A i \in 1..Len(t) : t[i] \in S
      /\ \A q \in S : \E i \in 1..Len(t) : t[i] = q
      /\ \A i, k \in 1..Len(t) : i < k => t[i].wseq < t[k].wseq
  BY BySeqSorts
<1> HIDE DEF t
<1>2. \A i \in 1..Len(t) : t[i].msg = t[i].wseq /\ t[i].wseq >= m BY <1>1
<1>3. /\ Plain(M) /\ Ordered(M, b, H) /\ M \in Seq(AnyPacket)
      /\ Len(M) = Len(L) + Len(t)
      /\ \A i \in 1..Len(L) : M[i] = L[i]
      /\ \A i \in 1..Len(t) : M[Len(L) + i] = t[i]
      /\ \A i \in 1..Len(M) :
           i \in 1..Len(L) \/ (i - Len(L) \in 1..Len(t) /\ i > Len(L))
  BY <1>1, <1>2, OrderedAppend
<1>a. Len(L) \in Nat /\ Len(t) \in Nat BY <1>1
<1> HIDE DEF M
<1>4. Below(M, n)
  <2> SUFFICES ASSUME NEW i \in 1..Len(M) PROVE M[i].wseq < n
    BY DEF Below
  <2>1. CASE i \in 1..Len(L)
    <3>1. L[i] \in AnyPacket BY <2>1
    <3>2. L[i].wseq \in Nat /\ L[i].wseq < m BY <2>1, <3>1 DEF AnyPacket, Below
    <3> QED BY <1>3, <2>1, <3>2
  <2>2. CASE i - Len(L) \in 1..Len(t) /\ i > Len(L)
    <3>1. Len(L) + (i - Len(L)) = i BY <1>a, <1>3
    <3>2. M[i] = t[i - Len(L)] BY <1>3, <2>2, <3>1
    <3> QED BY <1>1, <2>2, <3>2
  <2> QED BY <1>3, <2>1, <2>2
<1>5. Covered(M, b, n, H)
  <2> SUFFICES ASSUME NEW k \in Nat, b <= k, k < n, k \notin H
               PROVE  \E h \in 1..Len(M) : M[h].wseq = k
    BY DEF Covered
  <2>1. CASE k < m
    <3>1. PICK h \in 1..Len(L) : L[h].wseq = k BY <2>1 DEF Covered
    <3>2. h \in 1..Len(M) BY <1>a, <1>3
    <3> QED BY <1>3, <3>1, <3>2
  <2>2. CASE ~(k < m)
    <3>1. PICK q \in S : q.wseq = k BY <2>2
    <3>2. PICK i \in 1..Len(t) : t[i] = q BY <1>1
    <3>3. Len(L) + i \in 1..Len(M) BY <1>a, <1>3
    <3> QED BY <1>3, <3>1, <3>2, <3>3
  <2> QED BY <2>1, <2>2
<1> QED BY <1>3, <1>4, <1>5 DEF M, t

\* A packet that comes in order takes along what it was missing for.
LEMMA ReleaseStream ==
  ASSUME NEW o, EntryOf(o), NEW L \in Seq(AnyPacket), NEW b \in Nat, NEW G,
         NEW p \in AnyPacket, p.msg = p.wseq, Stream(o, L, b, G), p.wseq = o.next,
         NEW n \in Nat, n >= o.next + 1, FirstGap(n, o.next + 1, o.buffer)
  PROVE  LET M == Append(L, p) \o BySeq({q \in o.buffer : q.wseq < n})
         IN Stream(Release(o, n), M, b, G) /\ M \in Seq(AnyPacket)
<1> DEFINE x == o.next
           S == {q \in o.buffer : q.wseq < n}
           A == Append(L, p)
<1>1. x \in Nat /\ x + 1 \in Nat /\ b <= x /\ b >= 1
      /\ \A q \in o.buffer : q \in AnyPacket /\ q.wseq \in Nat /\ q.msg = q.wseq
                            /\ q.wseq > x
  BY DEF EntryOf, AnyPacket, Stream
<1> DEFINE y == <<p>>
<1>2. y \in Seq(AnyPacket) /\ Len(y) = 1 /\ y[1] = p OBVIOUS
<1>3. A = L \o y OBVIOUS
<1>a. /\ A \in Seq(AnyPacket) /\ Len(A) = Len(L) + 1 /\ Len(L) \in Nat
      /\ \A i \in 1..Len(L) : A[i] = L[i]
      /\ A[Len(L) + 1] = p
      /\ \A i \in 1..Len(A) : i \in 1..Len(L) \/ i = Len(L) + 1
  OBVIOUS
<1> HIDE DEF A, y
<1>b. Plain(L) /\ Below(L, x) /\ Ordered(L, b, G) /\ Covered(L, b, x, G)
  BY DEF Stream
<1> HIDE DEF x
<1>4. Plain(A) /\ Ordered(A, b, G)
  <2>1. \A i \in 1..Len(y) : y[i].msg = y[i].wseq /\ y[i].wseq >= x
    BY <1>1, <1>2 DEF x
  <2>2. \A i, k \in 1..Len(y) : i < k => y[i].wseq < y[k].wseq
    BY <1>2
  <2> QED BY <1>1, <1>2, <1>3, <1>b, <2>1, <2>2, OrderedAppend
<1>5. Below(A, x + 1)
  <2> SUFFICES ASSUME NEW i \in 1..Len(A) PROVE A[i].wseq < x + 1
    BY DEF Below
  <2>1. CASE i \in 1..Len(L)
    <3>1. L[i] \in AnyPacket BY <2>1
    <3>2. L[i].wseq \in Nat /\ L[i].wseq < x BY <1>b, <2>1, <3>1 DEF AnyPacket, Below
    <3> QED BY <1>1, <1>a, <2>1, <3>2
  <2>2. CASE i = Len(L) + 1 BY <1>1, <1>a, <2>2 DEF x
  <2> QED BY <1>a, <2>1, <2>2
<1>6. Covered(A, b, x + 1, G)
  <2> SUFFICES ASSUME NEW k \in Nat, b <= k, k < x + 1, k \notin G
               PROVE  \E h \in 1..Len(A) : A[h].wseq = k
    BY DEF Covered
  <2>1. CASE k < x
    <3>1. PICK h \in 1..Len(L) : L[h].wseq = k BY <1>b, <2>1 DEF Covered
    <3>2. h \in 1..Len(A) BY <1>a
    <3> QED BY <1>a, <3>1, <3>2
  <2>2. CASE ~(k < x)
    <3>1. k = x BY <1>1, <2>2
    <3>2. Len(L) + 1 \in 1..Len(A) BY <1>a
    <3> QED BY <1>a, <3>1, <3>2 DEF x
  <2> QED BY <2>1, <2>2
<1>7. S \in SUBSET AnyPacket /\ IsFiniteSet(S)
  <2>1. S \in SUBSET o.buffer /\ IsFiniteSet(o.buffer) BY DEF EntryOf
  <2>2. IsFiniteSet(S) BY <2>1, FS_Subset
  <2> QED BY <1>1, <2>2
<1>8. \A k \in Nat : x + 1 <= k /\ k < n => \E q \in S : q.wseq = k
  <2> SUFFICES ASSUME NEW k \in Nat, x + 1 <= k, k < n
               PROVE  \E q \in S : q.wseq = k
    OBVIOUS
  <2>1. k \in (x + 1)..(n - 1) BY <1>1
  <2>2. PICK q \in o.buffer : q.wseq = k BY <2>1 DEF FirstGap, x
  <2> QED BY <2>2
<1>9. /\ \A q, r \in S : q.wseq = r.wseq => q = r
      /\ \A q \in S : q.msg = q.wseq /\ q.wseq >= x + 1 /\ q.wseq < n
  BY <1>1 DEF EntryOf
<1> HIDE DEF S
<1> DEFINE M == A \o BySeq(S)
<1>10. /\ M \in Seq(AnyPacket)
       /\ Plain(M) /\ Below(M, n) /\ Covered(M, b, n, G) /\ Ordered(M, b, G)
  <2>1. x + 1 <= n /\ G \subseteq G BY DEF x
  <2>2. \A k \in Nat : x + 1 <= k /\ k < n => k \in G \/ \E q \in S : q.wseq = k
    BY <1>8
  <2>3. x + 1 \in Nat /\ A \in Seq(AnyPacket) BY <1>1, <1>a
  <2> DEFINE z == x + 1
  <2> HIDE DEF z
  <2>4. z \in Nat /\ z <= n /\ Below(A, z) /\ Covered(A, b, z, G)
    BY <1>5, <1>6, <2>1, <2>3 DEF z
  <2>5. /\ \A q \in S : q.msg = q.wseq /\ q.wseq >= z /\ q.wseq < n
        /\ \A k \in Nat : z <= k /\ k < n => k \in G \/ \E q \in S : q.wseq = k
    BY <1>9, <2>2 DEF z
  <2>6. \A q, r \in S : q.wseq = r.wseq => q = r BY <1>9
  <2> QED BY <1>4, <1>7, <2>1, <2>3, <2>4, <2>5, <2>6, BatchStream
<1> HIDE DEF M
<1>11. Release(o, n).next = n /\ Release(o, n).buffer \subseteq o.buffer
  BY DEF Release, EntryOf
<1>12. Stream(Release(o, n), M, b, G) BY <1>1, <1>10, <1>11 DEF Stream, x
<1> QED BY <1>10, <1>12 DEF M, A, S

LEMMA HoldStream ==
  ASSUME NEW o, EntryOf(o), NEW L, NEW b, NEW G,
         NEW p \in AnyPacket, p.msg = p.wseq, Stream(o, L, b, G)
  PROVE  Stream(Hold(o, p), L, b, G)
<1>1. /\ Hold(o, p).next = o.next
      /\ Hold(o, p).buffer = {q \in o.buffer : q.wseq # p.wseq} \cup {p}
  BY DEF Hold, EntryOf
<1> QED BY <1>1 DEF Stream

\* One packet: an entry is made for the first, which sets the baseline.
LEMMA ReorderOrder ==
  ASSUME IInv, OrderInv, NEW p \in net, ReorderDispatch(p)
  PROVE  OrderInv'
<1> DEFINE o == Entry(p)
<1>1. p \in AnyPacket /\ p.wseq \in Nat /\ log \in Seq(AnyPacket) /\ base \in Nat
  BY DEF IInv, Numbered, AnyPacket, OrderInv, LogTypes
<1>2. EntryOf(o)
  <2>1. CASE order.present
    BY <2>1 DEF EntryOf, Entry, IInv, Numbered, HoldSound, OrderInv, LogTypes
  <2>2. CASE ~order.present
    <3>1. o = [present |-> TRUE, next |-> p.wseq, buffer |-> {}, timer |-> "off"]
      BY <2>2 DEF Entry, NoOrder
    <3> QED BY <1>1, <3>1, FS_EmptySet DEF EntryOf
  <2> QED BY <2>1, <2>2
<1>3. o.present /\ o.next \in Nat
  BY <1>2 DEF EntryOf, Entry, NoOrder, IInv, Numbered
<1>4. /\ net' \subseteq net /\ base' = IF base = 0 THEN p.wseq ELSE base
      /\ UNCHANGED <<gaveUp, used, turn, called, epoch, disposed, pc, wireSeq, number>>
  BY DEF ReorderDispatch, sender
<1>5. base' \in Nat BY <1>1, <1>4
<1>6. ASSUME Undisturbed
      PROVE  p.msg = p.wseq /\ Stream(o, log, base', gaveUp)
  <2>1. CallsNumbered /\ Received BY <1>6 DEF OrderInv
  <2>2. p.msg = p.wseq /\ p.wseq >= 1 BY <2>1 DEF CallsNumbered
  <2>3. CASE order.present
    <3>1. o = order /\ Stream(order, log, base, gaveUp)
      BY <2>1, <2>3 DEF Entry, Received
    <3>2. base' = base BY <1>1, <1>4, <3>1 DEF Stream
    <3> QED BY <2>2, <3>1, <3>2
  <2>4. CASE ~order.present
    <3>1. /\ o.next = p.wseq /\ o.buffer = {}
      BY <2>4 DEF Entry, NoOrder
    <3>2. log = <<>> /\ base' = p.wseq BY <1>4, <2>1, <2>4 DEF Received
    <3>3. 1..Len(log) = {} BY <3>2
    <3>4. Stream(o, log, base', gaveUp)
      BY <1>1, <2>2, <3>1, <3>2, <3>3 DEF Stream, Plain, Below, Covered, Ordered
    <3> QED BY <2>2, <3>4
  <2> QED BY <2>3, <2>4
<1>7. (Undisturbed' => Undisturbed) /\ (Undisturbed => CallsNumbered')
  BY <1>4 DEF Undisturbed, CallsNumbered, OrderInv
<1>8. ASSUME order'.present, log' \in Seq(AnyPacket), IsFiniteSet(order'.buffer),
             Undisturbed => Stream(order', log', base', gaveUp)
      PROVE  OrderInv'
  BY <1>4, <1>5, <1>7, <1>8 DEF OrderInv, LogTypes, Received
<1> HIDE DEF o
<1>9. CASE Late(o, p) /\ order' = o /\ log' = Append(log, p)
  <2>1. log' \in Seq(AnyPacket) BY <1>1, <1>9
  <2>2. Undisturbed => Stream(order', log', base', gaveUp)
    BY <1>1, <1>2, <1>5, <1>6, <1>9, LateStream
  <2> QED BY <1>2, <1>3, <1>8, <1>9, <2>1, <2>2 DEF EntryOf
<1>10. CASE Held(o, p) /\ order' = Hold(o, p) /\ UNCHANGED log
  <2>1. /\ Hold(o, p).present
        /\ Hold(o, p).buffer = {q \in o.buffer : q.wseq # p.wseq} \cup {p}
    BY <1>2, <1>3 DEF Hold, EntryOf
  <2>2. IsFiniteSet(order'.buffer)
    <3>1. {q \in o.buffer : q.wseq # p.wseq} \in SUBSET o.buffer OBVIOUS
    <3>2. IsFiniteSet({q \in o.buffer : q.wseq # p.wseq})
      BY <1>2, <3>1, FS_Subset DEF EntryOf
    <3> QED BY <1>10, <2>1, <3>2, FS_AddElement
  <2>3. Undisturbed => Stream(order', log', base', gaveUp)
    BY <1>1, <1>2, <1>6, <1>10, HoldStream
  <2> QED BY <1>1, <1>8, <1>10, <2>1, <2>2, <2>3
<1>11. ASSUME NEW n \in (o.next + 1)..(o.next + 1 + Cardinality(o.buffer)),
              p.wseq = o.next, FirstGap(n, o.next + 1, o.buffer),
              order' = Release(o, n),
              log' = Append(log, p) \o BySeq({q \in o.buffer : q.wseq < n})
       PROVE  OrderInv'
  <2>1. n \in Nat /\ n >= o.next + 1 BY <1>3, <1>11
  <2>2. /\ Release(o, n).present
        /\ Release(o, n).buffer = {q \in o.buffer : q.wseq > n}
    BY <1>2, <1>3 DEF Release, EntryOf
  <2>3. IsFiniteSet(order'.buffer)
    <3>1. {q \in o.buffer : q.wseq > n} \in SUBSET o.buffer OBVIOUS
    <3> QED BY <1>2, <1>11, <2>2, <3>1, FS_Subset DEF EntryOf
  <2>4. log' \in Seq(AnyPacket)
    <3>1. {q \in o.buffer : q.wseq < n} \in SUBSET o.buffer OBVIOUS
    <3>2. IsFiniteSet({q \in o.buffer : q.wseq < n})
      BY <1>2, <3>1, FS_Subset DEF EntryOf
    <3>3. /\ {q \in o.buffer : q.wseq < n} \in SUBSET AnyPacket
          /\ \A q, r \in {q \in o.buffer : q.wseq < n} : q.wseq = r.wseq => q = r
      BY <1>2 DEF EntryOf
    <3>4. BySeq({q \in o.buffer : q.wseq < n}) \in Seq(AnyPacket)
      BY <3>2, <3>3, BySeqSorts
    <3> QED BY <1>1, <1>11, <3>4
  <2>5. Undisturbed => Stream(order', log', base', gaveUp)
    BY <1>1, <1>2, <1>5, <1>6, <1>11, <2>1, ReleaseStream
  <2> QED BY <1>8, <1>11, <2>2, <2>3, <2>4, <2>5
<1> QED BY <1>9, <1>10, <1>11 DEF ReorderDispatch, o

\* The hold timeout dispatches what is held and gives up the numbers between.
LEMMA FlushOrder ==
  ASSUME IInv, OrderInv, FlushOrderBuffer
  PROVE  OrderInv'
<1>1. UNCHANGED <<net, base, used, turn, called, epoch, disposed, pc, wireSeq, number>>
  BY DEF FlushOrderBuffer, sender, wire
<1>2. (Undisturbed' => Undisturbed) /\ (Undisturbed => CallsNumbered')
  BY <1>1 DEF Undisturbed, CallsNumbered, OrderInv
<1>3. EntryOf(order) /\ log \in Seq(AnyPacket) /\ base \in Nat
  BY DEF EntryOf, IInv, Numbered, HoldSound, OrderInv, LogTypes
<1>4. CASE order.buffer = {} /\ order' = [order EXCEPT !.timer = "off"]
           /\ UNCHANGED <<log, gaveUp>>
  <2>1. order'.buffer = order.buffer /\ order'.present = order.present
        /\ order'.next = order.next
    BY <1>3, <1>4 DEF EntryOf
  <2>2. LogTypes' BY <1>1, <1>4, <2>1 DEF OrderInv, LogTypes
  <2>3. Undisturbed => Received' BY <1>1, <1>4, <2>1 DEF OrderInv, Received, Stream
  <2> QED BY <1>2, <2>2, <2>3 DEF OrderInv
<1>5. ASSUME NEW top \in order.buffer,
             \A q \in order.buffer : q.wseq <= top.wseq,
             order' = [order EXCEPT !.next = top.wseq + 1, !.buffer = {},
                                    !.timer = "off"],
             log' = log \o BySeq({q \in order.buffer : q.wseq >= order.next}),
             gaveUp' = gaveUp \cup {n \in order.next..top.wseq :
                                     \A q \in order.buffer : q.wseq # n}
      PROVE  OrderInv'
  <2> DEFINE S == {q \in order.buffer : q.wseq >= order.next}
             x == order.next
             z == top.wseq + 1
  <2>1. \A q \in order.buffer : q \in AnyPacket /\ q.wseq \in Nat /\ q.wseq > x
    BY <1>3 DEF EntryOf, AnyPacket
  <2>2. x \in Nat /\ z \in Nat /\ x <= z BY <1>3, <2>1 DEF EntryOf
  <2>3. order'.buffer = {} /\ order'.present = order.present /\ order'.next = z
    BY <1>3, <1>5 DEF EntryOf
  <2>4. /\ S \in SUBSET AnyPacket /\ IsFiniteSet(S)
        /\ \A q, r \in S : q.wseq = r.wseq => q = r
        /\ \A q \in S : q \in order.buffer /\ q.wseq >= x /\ q.wseq < z
    <3>1. S \in SUBSET order.buffer /\ IsFiniteSet(order.buffer) BY <1>3 DEF EntryOf
    <3>2. IsFiniteSet(S) BY <3>1, FS_Subset
    <3> QED BY <1>3, <1>5, <2>1, <2>2, <3>2 DEF EntryOf
  <2>5. \A k \in Nat : x <= k /\ k < z => k \in gaveUp' \/ \E q \in S : q.wseq = k
    <3> SUFFICES ASSUME NEW k \in Nat, x <= k, k < z, k \notin gaveUp'
                 PROVE  \E q \in S : q.wseq = k
      OBVIOUS
    <3>1. k \in order.next..top.wseq BY <2>1, <2>2
    <3>2. PICK q \in order.buffer : q.wseq = k BY <1>5, <3>1
    <3> QED BY <3>2
  <2> HIDE DEF S, x, z
  <2>6. log' \in Seq(AnyPacket)
    <3>1. BySeq(S) \in Seq(AnyPacket) BY <2>4, BySeqSorts
    <3> QED BY <1>3, <1>5, <3>1 DEF S
  <2>7. LogTypes' BY <1>1, <2>3, <2>6, FS_EmptySet DEF OrderInv, LogTypes
  <2>8. ASSUME Undisturbed PROVE Received'
    <3>1. order.present /\ Stream(order, log, base, gaveUp)
      BY <1>5, <2>8 DEF OrderInv, Received
    <3>2. /\ base >= 1 /\ base <= x
          /\ Plain(log) /\ Below(log, x) /\ Covered(log, base, x, gaveUp)
          /\ Ordered(log, base, gaveUp)
          /\ \A q \in S : q.msg = q.wseq
      BY <2>4, <3>1 DEF Stream, x
    <3>3. gaveUp \subseteq gaveUp' BY <1>5
    <3> DEFINE M == log \o BySeq(S)
    <3>4. Plain(M) /\ Below(M, z) /\ Covered(M, base, z, gaveUp')
          /\ Ordered(M, base, gaveUp')
      <4> DEFINE H == gaveUp'
      <4>1. /\ gaveUp \subseteq H
            /\ \A k \in Nat : x <= k /\ k < z => k \in H \/ \E q \in S : q.wseq = k
        BY <2>5, <3>3
      <4> HIDE DEF H
      <4>2. \A q \in S : q.msg = q.wseq /\ q.wseq >= x /\ q.wseq < z
        BY <2>4, <3>2
      <4>3. /\ S \in SUBSET AnyPacket /\ IsFiniteSet(S)
            /\ \A q, r \in S : q.wseq = r.wseq => q = r
        BY <2>4
      <4>4. log \in Seq(AnyPacket) /\ base \in Nat /\ Plain(log) /\ Below(log, x)
            /\ Covered(log, base, x, gaveUp) /\ Ordered(log, base, gaveUp)
        BY <1>3, <3>2
      <4>5. Plain(M) /\ Below(M, z) /\ Covered(M, base, z, H) /\ Ordered(M, base, H)
        BY <2>2, <4>1, <4>2, <4>3, <4>4, BatchStream
      <4> QED BY <4>5 DEF H
    <3>5. M = log' BY <1>5 DEF S
    <3>6. base' >= 1 /\ base' <= order'.next
      BY <1>1, <1>3, <2>2, <2>3, <3>2
    <3>7. Stream(order', log', base', gaveUp')
      BY <1>1, <2>3, <3>4, <3>5, <3>6 DEF Stream
    <3> QED BY <2>3, <3>1, <3>7 DEF Received
  <2> QED BY <1>2, <2>7, <2>8 DEF OrderInv
<1> QED BY <1>4, <1>5 DEF FlushOrderBuffer

LEMMA OrderStep == IInv /\ OrderInv /\ [Next]_vars => OrderInv'
<1> SUFFICES ASSUME IInv, OrderInv, [Next]_vars
             PROVE  OrderInv'
  OBVIOUS
<1>1. CASE \/ Call \/ SenderStep \/ RawSend \/ RawAnswered
            \/ ChannelFlips \/ Dispose \/ Reconnect
  BY <1>1, SenderOrder
<1>2. ASSUME NEW p \in net, ReorderDispatch(p) PROVE OrderInv'
  BY <1>2, ReorderOrder
<1>3. ASSUME NEW p \in net, Lose(p) PROVE OrderInv'
  BY <1>3 DEF Lose, sender, receiver, OrderInv, LogTypes, Undisturbed, CallsNumbered,
              Received
<1>4. CASE FlushOrderBuffer
  BY <1>4, FlushOrder
<1>5. CASE PruneOrderStates
  <2>1. /\ used' = [used EXCEPT !.prunes = @ + 1] /\ order' = NoOrder
        /\ UNCHANGED <<turn, called, epoch, log, base>>
    BY <1>5 DEF PruneOrderStates, sender
  <2>2. /\ used' \in [flips : Int, raws : Int, prunes : Nat] /\ used'.prunes # 0
    BY <2>1 DEF OrderInv, LogTypes
  <2>3. LogTypes' BY <2>1, <2>2, FS_EmptySet DEF OrderInv, LogTypes, NoOrder
  <2> QED BY <2>2, <2>3 DEF OrderInv, Undisturbed
<1>6. CASE UNCHANGED vars
  BY <1>6 DEF vars, OrderInv, LogTypes, Undisturbed, CallsNumbered, Received
<1> QED BY <1>1, <1>2, <1>3, <1>4, <1>5, <1>6 DEF Next

\* Across the RTC channel and the relays, with packets lost, repeated and
\* overtaken, LocalUser dispatches the messages of a session in the order of the
\* send() calls, but for those the hold timeout gave up, those before the first
\* packet it saw and repetitions.
THEOREM OrderUnlessGivenUpHolds == Spec => []OrderUnlessGivenUp
<1>1. Init => OrderInv
  <2> SUFFICES ASSUME Init PROVE OrderInv OBVIOUS
  <2>1. LogTypes
    BY FS_EmptySet DEF Init, LogTypes, NoOrder
  <2>2. CallsNumbered /\ Received BY DEF Init, CallsNumbered, Received, NoOrder
  <2> QED BY <2>1, <2>2 DEF OrderInv
<1>2. OrderInv => OrderUnlessGivenUp
  <2> SUFFICES ASSUME OrderInv, Undisturbed
               PROVE  \A j \in DOMAIN log : \A i \in 1..(j - 1) :
                        log[i].msg > log[j].msg =>
                          \/ log[j].wseq \in gaveUp
                          \/ log[j].wseq < base
                          \/ \E h \in 1..(j - 1) : log[h].msg = log[j].msg
    BY DEF OrderUnlessGivenUp, Undisturbed
  <2>1. log \in Seq(AnyPacket) /\ Received BY DEF OrderInv, LogTypes
  <2>2. DOMAIN log = 1..Len(log) BY <2>1
  <2>3. CASE order.present BY <2>1, <2>2, <2>3 DEF Received, Stream, Ordered
  <2>4. CASE ~order.present
    <3>1. DOMAIN log = {} BY <2>1, <2>4 DEF Received
    <3> QED BY <3>1
  <2> QED BY <2>3, <2>4
<1> QED BY InitIInv, StepIInv, <1>1, <1>2, OrderStep, PTL DEF Spec
----------------------------------------------------------------------------
(* The refinement of the ordered stream, step by step: no assumption on the  *)
(* life of the RemoteUser, since a stream is one of numbers, not of calls.   *)

\* What the receiver has was sent.
KnownSent == net \subseteq sent /\ order.buffer \subseteq sent
\* What is held is held by an entry.
Filled == order.buffer # {} => order.present
StreamInv ==
  /\ IInv /\ log \in Seq(AnyPacket) /\ IsFiniteSet(order.buffer) /\ KnownSent /\ Filled

LEMMA StreamInvHolds == Spec => []StreamInv
<1>1. Init => KnownSent
  BY DEF Init, KnownSent, NoOrder
<1>2. IInv /\ KnownSent /\ [Next]_vars => KnownSent'
  <2> SUFFICES ASSUME IInv, KnownSent, [Next]_vars PROVE KnownSent'
    OBVIOUS
  <2>1. CASE \/ Call \/ SenderStep \/ RawSend \/ RawAnswered
             \/ ChannelFlips \/ Dispose \/ Reconnect
    <3>1. UNCHANGED order
      BY <2>1 DEF Call, SenderStep, RawSend, RawAnswered, ChannelFlips, Dispose, Reconnect,
         Enter, WriteRtc, FallBack, BeginRelay, RelayForwarded, RelayRefused,
         RelayAnswered, RelayTimedOut, PayloadFails, GiveUp, receiver
    <3>2. UNCHANGED wire \/ \E via : Emit(via)
      BY <2>1 DEF Call, SenderStep, RawSend, RawAnswered, ChannelFlips, Dispose, Reconnect,
         Enter, WriteRtc, FallBack, BeginRelay, RelayForwarded, RelayRefused,
         RelayAnswered, RelayTimedOut, PayloadFails, GiveUp
    <3> QED BY <3>1, <3>2 DEF KnownSent, Emit, wire
  <2>2. ASSUME NEW p \in net, ReorderDispatch(p) PROVE KnownSent'
    <3>1. net' \subseteq net /\ sent' = sent
      BY <2>2 DEF ReorderDispatch
    <3>2. order'.buffer \subseteq Entry(p).buffer \cup {p}
      <4>1. Entry(p) \in [present : BOOLEAN, next : Int, buffer : SUBSET AnyPacket,
                          timer : {"off", "armed"}]
        <5>1. p.wseq \in Int
          BY DEF IInv, Numbered, AnyPacket
        <5>2. CASE order.present
          BY <5>2 DEF IInv, Numbered, Entry
        <5>3. CASE ~order.present
          BY <5>1, <5>3 DEF Entry, NoOrder
        <5> QED BY <5>2, <5>3
      <4> DEFINE o == Entry(p)
      <4>2. \/ order' = o \/ order' = Hold(o, p) \/ \E n : order' = Release(o, n)
        BY <2>2 DEF ReorderDispatch
      <4> HIDE DEF o
      <4>3. Hold(o, p).buffer \subseteq o.buffer \cup {p}
        BY <4>1 DEF Hold, o
      <4>4. \A n : Release(o, n).buffer \subseteq o.buffer
        BY <4>1 DEF Release, o
      <4> QED BY <4>2, <4>3, <4>4 DEF o
    <3>3. Entry(p).buffer \subseteq order.buffer
      BY DEF Entry, NoOrder
    <3> QED BY <3>1, <3>2, <3>3 DEF KnownSent
  <2>3. ASSUME NEW p \in net, Lose(p) PROVE KnownSent'
    BY <2>3 DEF Lose, receiver, KnownSent
  <2>4. CASE FlushOrderBuffer
    <3>1. UNCHANGED wire /\ order'.buffer \subseteq order.buffer
      BY <2>4 DEF FlushOrderBuffer, IInv, Numbered
    <3> QED BY <3>1 DEF KnownSent, wire
  <2>5. CASE PruneOrderStates
    BY <2>5 DEF PruneOrderStates, NoOrder, KnownSent, wire
  <2>6. CASE UNCHANGED vars
    BY <2>6 DEF vars, KnownSent
  <2> QED BY <2>1, <2>2, <2>3, <2>4, <2>5, <2>6 DEF Next
<1>3. Init => OrderInv
  <2> SUFFICES ASSUME Init PROVE OrderInv OBVIOUS
  <2>1. LogTypes
    BY FS_EmptySet DEF Init, LogTypes, NoOrder
  <2>2. CallsNumbered /\ Received BY DEF Init, CallsNumbered, Received, NoOrder
  <2> QED BY <2>1, <2>2 DEF OrderInv
<1>4. Init => Filled
  BY DEF Init, Filled, NoOrder
<1>5. IInv /\ Filled /\ [Next]_vars => Filled'
  <2> SUFFICES ASSUME IInv, Filled, [Next]_vars PROVE Filled'
    OBVIOUS
  <2>1. CASE UNCHANGED order
    BY <2>1 DEF Filled
  <2>2. ASSUME NEW p \in net, ReorderDispatch(p) PROVE Filled'
    <3> DEFINE o == Entry(p)
    <3>1. /\ o.present
          /\ \/ o \in [present : BOOLEAN, next : Nat, buffer : SUBSET AnyPacket,
                                 timer : {"off", "armed"}]
             \/ o = [present |-> TRUE, next |-> p.wseq, buffer |-> {}, timer |-> "off"]
      BY DEF Entry, NoOrder, IInv, Numbered
    <3>2. \/ order' = o \/ order' = Hold(o, p) \/ \E n : order' = Release(o, n)
      BY <2>2 DEF ReorderDispatch
    <3> HIDE DEF o
    <3>3. Hold(o, p).present /\ \A n : Release(o, n).present
      BY <3>1 DEF Hold, Release
    <3> QED BY <3>1, <3>2, <3>3 DEF Filled
  <2>3. CASE FlushOrderBuffer
    <3>1. \/ order'.buffer = {}
          \/ order'.buffer = order.buffer /\ order'.present = order.present
      BY <2>3 DEF FlushOrderBuffer, IInv, Numbered
    <3> QED BY <3>1 DEF Filled
  <2>4. CASE PruneOrderStates
    BY <2>4 DEF PruneOrderStates, NoOrder, Filled
  <2>5. [Next]_vars => \/ UNCHANGED order \/ \E p \in net : ReorderDispatch(p)
                       \/ FlushOrderBuffer \/ PruneOrderStates
    BY DEF Next, Call, SenderStep, RawSend, RawAnswered, ChannelFlips, Dispose, Reconnect,
       Enter, WriteRtc, FallBack, BeginRelay, RelayForwarded, RelayRefused, RelayAnswered,
       RelayTimedOut, PayloadFails, GiveUp, Lose, receiver, vars
  <2> QED BY <2>1, <2>2, <2>3, <2>4, <2>5
<1>6. IInv /\ OrderInv /\ KnownSent /\ Filled => StreamInv
  BY DEF StreamInv, OrderInv, LogTypes
<1> QED BY <1>1, <1>2, <1>3, <1>4, <1>5, <1>6, InitIInv, StepIInv, OrderStep, PTL DEF Spec

\* A log that t follows, place by place.
LEMMA ConcatIs ==
  ASSUME NEW L \in Seq(AnyPacket), NEW t \in Seq(AnyPacket)
  PROVE  /\ Len(L \o t) = Len(L) + Len(t) /\ Len(L) \in Nat /\ Len(t) \in Nat
         /\ \A i \in 1..Len(L) : (L \o t)[i] = L[i]
         /\ \A i \in (Len(L) + 1)..(Len(L) + Len(t)) :
              i - Len(L) \in 1..Len(t) /\ (L \o t)[i] = t[i - Len(L)]
         /\ \A k \in 1..Len(t) : (L \o t)[Len(L) + k] = t[k]
OBVIOUS

\* Handing out the packets of t after the log.
Hands(t) == t \in Seq(AnyPacket) /\ Len(t) > 0 /\ log' = log \o t /\ UNCHANGED sent
            /\ \A k \in 1..Len(t) : t[k] \in sent

LEMMA HandsOut ==
  ASSUME log \in Seq(AnyPacket), NEW t, Hands(t)
  PROVE  /\ InOrder!Extends
         /\ \A i \in InOrder!Added : i - Len(log) \in 1..Len(t) /\ log'[i] = t[i - Len(log)]
         /\ \A k \in 1..Len(t) : Len(log) + k \in InOrder!Added /\ log'[Len(log) + k] = t[k]
<1>1. /\ Len(log') = Len(log) + Len(t) /\ Len(log) \in Nat /\ Len(t) \in Nat
      /\ \A i \in 1..Len(log) : log'[i] = log[i]
      /\ \A i \in (Len(log) + 1)..(Len(log) + Len(t)) :
           i - Len(log) \in 1..Len(t) /\ log'[i] = t[i - Len(log)]
      /\ \A k \in 1..Len(t) : log'[Len(log) + k] = t[k]
  BY ConcatIs DEF Hands
<1>2. InOrder!Added = (Len(log) + 1)..(Len(log) + Len(t))
  BY <1>1 DEF InOrder!Added
<1>3. \A k \in 1..Len(t) : Len(log) + k \in (Len(log) + 1)..(Len(log) + Len(t))
  BY <1>1
<1>4. \A i \in InOrder!Added : log'[i] \in sent
  BY <1>1, <1>2 DEF Hands
<1>5. Len(log') > Len(log)
  BY <1>1 DEF Hands
<1> QED BY <1>1, <1>2, <1>3, <1>4, <1>5 DEF InOrder!Extends, Hands

\* Handing out a run: t ascends from the number `from` to below the next one.
LEMMA HandsOutRun ==
  ASSUME log \in Seq(AnyPacket), NEW t, Hands(t), NEW from,
         order'.present, \A k \in 1..Len(t) : from <= t[k].wseq /\ t[k].wseq < order'.next,
         \A i, k \in 1..Len(t) : i < k => t[i].wseq < t[k].wseq
  PROVE  /\ InOrder!Run(from)
         /\ InOrder!Missing(from) =
              {k \in from..(order'.next - 1) : \A i \in 1..Len(t) : t[i].wseq # k}
<1>1. /\ InOrder!Extends
      /\ \A i \in InOrder!Added : i - Len(log) \in 1..Len(t) /\ log'[i] = t[i - Len(log)]
      /\ \A k \in 1..Len(t) : Len(log) + k \in InOrder!Added /\ log'[Len(log) + k] = t[k]
  BY HandsOut
<1>2. \A i \in InOrder!Added : from <= log'[i].wseq /\ log'[i].wseq < order'.next
  BY <1>1
<1>3. \A i, j \in InOrder!Added : i < j => log'[i].wseq < log'[j].wseq
  <2>1. Len(log) \in Nat /\ \A i \in InOrder!Added : i \in Int
    BY DEF InOrder!Added
  <2> TAKE i, j \in InOrder!Added
  <2> HAVE i < j
  <2>2. i - Len(log) < j - Len(log)
    BY <2>1
  <2> QED BY <1>1, <2>2
<1>4. InOrder!Run(from)
  BY <1>1, <1>2, <1>3 DEF InOrder!Run
<1>5. InOrder!Missing(from) =
        {k \in from..(order'.next - 1) : \A i \in 1..Len(t) : t[i].wseq # k}
  <2>1. \A k : (\A i \in InOrder!Added : log'[i].wseq # k)
               <=> (\A i \in 1..Len(t) : t[i].wseq # k)
    BY <1>1
  <2> QED BY <2>1 DEF InOrder!Missing
<1> QED BY <1>4, <1>5

\* The entry a packet meets, and that its buffer can be sorted.
LEMMA EntryIs ==
  ASSUME StreamInv, NEW p \in net
  PROVE  /\ EntryOf(Entry(p)) /\ Entry(p).present /\ Entry(p).next \in Nat
         /\ Entry(p).buffer \subseteq sent /\ p \in AnyPacket /\ p.wseq \in Nat /\ p \in sent
         /\ order.present => Entry(p) = order
         /\ ~order.present => Entry(p).next = p.wseq /\ Entry(p).buffer = {}
<1>1. p \in AnyPacket /\ p.wseq \in Nat /\ p \in sent
  BY DEF StreamInv, KnownSent, IInv, Numbered, AnyPacket
<1>2. CASE order.present
  <2>1. Entry(p) = order
    BY <1>2 DEF Entry
  <2> QED BY <1>1, <1>2, <2>1 DEF EntryOf, StreamInv, KnownSent, IInv, Numbered, HoldSound
<1>3. CASE ~order.present
  <2>1. Entry(p) = [present |-> TRUE, next |-> p.wseq, buffer |-> {}, timer |-> "off"]
    BY <1>3 DEF Entry, NoOrder
  <2> QED BY <1>1, <1>3, <2>1, FS_EmptySet DEF EntryOf
<1> QED BY <1>2, <1>3

\* A part of a buffer, in the order of its numbers.
LEMMA BatchIs ==
  ASSUME NEW o, EntryOf(o), NEW S, S \subseteq o.buffer
  PROVE  /\ BySeq(S) \in Seq(AnyPacket)
         /\ \A i \in 1..Len(BySeq(S)) : BySeq(S)[i] \in S /\ BySeq(S)[i].wseq \in Nat
         /\ \A q \in S : \E i \in 1..Len(BySeq(S)) : BySeq(S)[i] = q
         /\ \A i, k \in 1..Len(BySeq(S)) : i < k => BySeq(S)[i].wseq < BySeq(S)[k].wseq
<1>1. S \in SUBSET o.buffer /\ o.buffer \in SUBSET AnyPacket /\ IsFiniteSet(o.buffer)
  BY DEF EntryOf
<1>2. S \in SUBSET AnyPacket /\ IsFiniteSet(S) /\ \A q, r \in S : q.wseq = r.wseq => q = r
  BY <1>1, FS_Subset DEF EntryOf
<1>3. \A q \in S : q.wseq \in Nat
  BY <1>2 DEF AnyPacket
<1> QED BY <1>2, <1>3, BySeqSorts

\* One packet: late, held for later, or the start of a run.
LEMMA ReorderOnStream ==
  ASSUME StreamInv, NEW p \in net, ReorderDispatch(p)
  PROVE  [InOrder!Next]_(InOrder!streamVars)
<1> DEFINE o == Entry(p)
<1>1. /\ EntryOf(o) /\ o.present /\ o.next \in Nat /\ o.buffer \subseteq sent
      /\ p \in AnyPacket /\ p.wseq \in Nat /\ p \in sent
      /\ order.present => o = order
      /\ ~order.present => o.next = p.wseq /\ o.buffer = {}
      /\ log \in Seq(AnyPacket)
  BY EntryIs DEF StreamInv
<1>2. UNCHANGED <<sent, gaveUp>>
  BY DEF ReorderDispatch
<1> DEFINE y == <<p>>
<1>3. /\ y \in Seq(AnyPacket) /\ Len(y) = 1 /\ y[1] = p /\ Append(log, p) = log \o y
  BY <1>1
<1> HIDE DEF o, y
<1>4. CASE Late(o, p) /\ order' = o /\ log' = Append(log, p)
  <2>1. order.present /\ order' = order /\ p.wseq < order.next
    BY <1>1, <1>4 DEF Late
  <2>2. Hands(y)
    BY <1>1, <1>2, <1>3, <1>4 DEF Hands
  <2>3. InOrder!Extends /\ Len(log') = Len(log) + 1 /\ log'[Len(log) + 1] = p
    <3>1. InOrder!Extends /\ log'[Len(log) + 1] = p
      BY <1>1, <1>3, <2>2, HandsOut
    <3>2. Len(log') = Len(log) + 1
      BY <1>1, <1>4
    <3> QED BY <3>1, <3>2
  <2>4. InOrder!Late
    BY <1>2, <2>1, <2>3 DEF InOrder!Late
  <2> QED BY <2>4 DEF InOrder!Next
<1>5. CASE Held(o, p) /\ order' = Hold(o, p) /\ UNCHANGED log
  <2>1. order.present /\ o = order
    BY <1>1, <1>5 DEF Held
  <2>2. order'.present = order.present /\ order'.next = order.next
    BY <1>1, <1>5, <2>1 DEF Hold, EntryOf
  <2> QED BY <1>2, <1>5, <2>2 DEF InOrder!streamVars
<1>6. ASSUME NEW n \in (o.next + 1)..(o.next + 1 + Cardinality(o.buffer)),
             p.wseq = o.next, FirstGap(n, o.next + 1, o.buffer),
             order' = Release(o, n),
             log' = Append(log, p) \o BySeq({q \in o.buffer : q.wseq < n})
      PROVE  InOrder!Next
  <2> DEFINE S == {q \in o.buffer : q.wseq < n}
             s == BySeq(S)
             t == y \o s
  <2>1. n \in Nat /\ n >= o.next + 1
    BY <1>1, <1>6
  <2>2. order'.present /\ order'.next = n
    BY <1>1, <1>6 DEF Release, EntryOf
  <2>3. S \subseteq o.buffer
    OBVIOUS
  <2>4. /\ s \in Seq(AnyPacket)
        /\ \A i \in 1..Len(s) : s[i] \in S /\ s[i].wseq \in Nat
        /\ \A q \in S : \E i \in 1..Len(s) : s[i] = q
        /\ \A i, k \in 1..Len(s) : i < k => s[i].wseq < s[k].wseq
    BY <1>1, <2>3, BatchIs
  <2>5. \A q \in S : q \in sent /\ q.wseq > o.next /\ q.wseq < n
    BY <1>1 DEF EntryOf
  <2>6. \A k \in (o.next + 1)..(n - 1) : \E q \in S : q.wseq = k
    BY <1>1, <1>6, <2>1 DEF FirstGap
  <2>g. log' = Append(log, p) \o s
    BY <1>6
  <2> HIDE DEF S, s
  <2>7. /\ t \in Seq(AnyPacket) /\ Len(t) = 1 + Len(s) /\ Len(s) \in Nat /\ t[1] = p
        /\ \A i \in 2..Len(t) : i - 1 \in 1..Len(s) /\ t[i] = s[i - 1]
        /\ \A i \in 1..Len(s) : i + 1 \in 1..Len(t) /\ t[i + 1] = s[i]
    <3>1. /\ Len(t) = 1 + Len(s) /\ Len(s) \in Nat /\ t \in Seq(AnyPacket)
          /\ t[1] = y[1]
          /\ \A i \in 2..(1 + Len(s)) : i - 1 \in 1..Len(s) /\ t[i] = s[i - 1]
          /\ \A i \in 1..Len(s) : t[1 + i] = s[i]
      BY <1>3, <2>4, ConcatIs
    <3>2. \A i \in 1..Len(s) : i + 1 \in 1..Len(t) /\ 1 + i = i + 1
      BY <3>1
    <3> QED BY <1>3, <3>1, <3>2
  <2>8. log' = log \o t
    <3>1. log' = (log \o y) \o s
      BY <1>3, <2>g
    <3>2. log \in Seq(AnyPacket) /\ y \in Seq(AnyPacket) /\ s \in Seq(AnyPacket)
      BY <1>1, <1>3, <2>4
    <3>3. (log \o y) \o s = log \o (y \o s)
      BY <3>2
    <3> QED BY <3>1, <3>3
  <2>n. \A i \in 1..Len(t) : i = 1 \/ i \in 2..Len(t)
    BY <2>7
  <2> HIDE DEF t
  <2>9. \A i \in 1..Len(t) : t[i] \in sent /\ o.next <= t[i].wseq /\ t[i].wseq < n
                             /\ t[i].wseq \in Nat
    <3> TAKE i \in 1..Len(t)
    <3>1. CASE i = 1
      BY <1>1, <1>6, <2>1, <2>7, <3>1
    <3>2. CASE i \in 2..Len(t)
      <4>1. PICK q \in S : t[i] = q /\ q.wseq \in Nat
        BY <2>4, <2>7, <3>2
      <4>2. q \in sent /\ q.wseq > o.next /\ q.wseq < n /\ o.next \in Nat
        BY <1>1, <2>5
      <4> QED BY <4>1, <4>2
    <3> QED BY <2>n, <3>1, <3>2
  <2>10. \A i, k \in 1..Len(t) : i < k => t[i].wseq < t[k].wseq
    <3> TAKE i, k \in 1..Len(t)
    <3> HAVE i < k
    <3>1. k \in 2..Len(t) /\ k - 1 \in 1..Len(s) /\ t[k] = s[k - 1]
      BY <2>7
    <3>2. CASE i = 1
      BY <1>6, <2>4, <2>5, <2>7, <3>1, <3>2
    <3>3. CASE i \in 2..Len(t)
      <4>1. i - 1 \in 1..Len(s) /\ t[i] = s[i - 1] /\ i - 1 < k - 1
        BY <2>7, <3>3
      <4> QED BY <2>4, <3>1, <4>1
    <3> QED BY <2>n, <3>2, <3>3
  <2>11. Hands(t)
    BY <1>2, <2>7, <2>8, <2>9 DEF Hands
  <2> DEFINE from == o.next
  <2>12. /\ InOrder!Run(from)
         /\ InOrder!Missing(from) = {k \in from..(n - 1) : \A i \in 1..Len(t) : t[i].wseq # k}
    BY <1>1, <2>2, <2>9, <2>10, <2>11, HandsOutRun
  <2>13. \A k \in from..(n - 1) : \E i \in 1..Len(t) : t[i].wseq = k
    <3> TAKE k \in from..(n - 1)
    <3>1. CASE k = from
      <4>1. 1 \in 1..Len(t)
        BY <2>7
      <4> QED BY <1>6, <2>7, <3>1, <4>1
    <3>2. CASE k # from
      <4>1. k \in (o.next + 1)..(n - 1)
        BY <1>1, <2>1, <3>2
      <4>2. PICK q \in S : q.wseq = k
        BY <2>6, <4>1
      <4>3. PICK i \in 1..Len(s) : s[i] = q
        BY <2>4
      <4> QED BY <2>7, <4>2, <4>3
    <3> QED BY <3>1, <3>2
  <2>14. InOrder!Missing(from) = {}
    BY <2>12, <2>13
  <2>15. from = IF order.present THEN order.next ELSE log'[Len(log) + 1].wseq
    <3>1. log'[Len(log) + 1] = t[1]
      <4>1. 1 \in 1..Len(t)
        BY <2>7
      <4> QED BY <1>1, <2>11, <4>1, HandsOut
    <3> QED BY <1>1, <1>6, <2>7, <3>1
  <2> HIDE DEF from
  <2>16. InOrder!Deliver
    BY <1>2, <2>12, <2>14, <2>15 DEF InOrder!Deliver
  <2> QED BY <2>16 DEF InOrder!Next
<1> QED BY <1>4, <1>5, <1>6 DEF ReorderDispatch, o

\* The hold timeout hands out all that is held and gives up the rest of it.
LEMMA FlushOnStream ==
  ASSUME StreamInv, FlushOrderBuffer
  PROVE  [InOrder!Next]_(InOrder!streamVars)
<1>1. UNCHANGED sent /\ log \in Seq(AnyPacket) /\ order.buffer \subseteq sent
  BY DEF FlushOrderBuffer, wire, StreamInv, KnownSent
<1>2. EntryOf(order) /\ order.next \in Nat
  BY DEF StreamInv, EntryOf, IInv, Numbered, HoldSound
<1>3. CASE order.buffer = {} /\ order' = [order EXCEPT !.timer = "off"]
           /\ UNCHANGED <<log, gaveUp>>
  <2>1. order'.present = order.present /\ order'.next = order.next
    BY <1>2, <1>3 DEF EntryOf
  <2> QED BY <1>1, <1>3, <2>1 DEF InOrder!streamVars
<1>4. ASSUME NEW top \in order.buffer,
             \A q \in order.buffer : q.wseq <= top.wseq,
             order' = [order EXCEPT !.next = top.wseq + 1, !.buffer = {},
                                    !.timer = "off"],
             log' = log \o BySeq({q \in order.buffer : q.wseq >= order.next}),
             gaveUp' = gaveUp \cup {n \in order.next..top.wseq :
                                     \A q \in order.buffer : q.wseq # n}
      PROVE  InOrder!Next
  <2> DEFINE S == {q \in order.buffer : q.wseq >= order.next}
             t == BySeq(S)
             from == order.next
  <2>1. \A q \in order.buffer : q \in AnyPacket /\ q.wseq \in Nat /\ q.wseq > from
    BY <1>2 DEF EntryOf, AnyPacket
  <2>2. S = order.buffer
    BY <1>2, <2>1
  <2>3. /\ t \in Seq(AnyPacket)
        /\ \A i \in 1..Len(t) : t[i] \in S /\ t[i].wseq \in Nat
        /\ \A q \in S : \E i \in 1..Len(t) : t[i] = q
        /\ \A i, k \in 1..Len(t) : i < k => t[i].wseq < t[k].wseq
    BY <1>2, <2>2, BatchIs
  <2>4. /\ order'.present = order.present /\ order'.next = top.wseq + 1
        /\ top.wseq \in Nat /\ top.wseq > from
    BY <1>2, <1>4, <2>1 DEF EntryOf
  <2>5. order.present
    BY DEF StreamInv, Filled
  <2>6. Len(t) > 0
    <3>1. PICK i \in 1..Len(t) : t[i] = top
      BY <2>2, <2>3
    <3> QED BY <2>3, <3>1
  <2>7. log' = log \o t
    BY <1>4
  <2> HIDE DEF t, S
  <2>8. Hands(t)
    BY <1>1, <2>2, <2>3, <2>6, <2>7 DEF Hands
  <2>9. \A i \in 1..Len(t) : from <= t[i].wseq /\ t[i].wseq < order'.next
    <3> TAKE i \in 1..Len(t)
    <3>1. PICK q \in order.buffer : t[i] = q
      BY <2>2, <2>3
    <3>2. q.wseq \in Nat /\ q.wseq > from /\ q.wseq <= top.wseq /\ from \in Nat
      BY <1>2, <1>4, <2>1
    <3> HIDE DEF from
    <3> QED BY <2>4, <3>1, <3>2
  <2>10. /\ InOrder!Run(from)
         /\ InOrder!Missing(from) =
              {k \in from..(order'.next - 1) : \A i \in 1..Len(t) : t[i].wseq # k}
    BY <1>1, <2>3, <2>4, <2>5, <2>8, <2>9, HandsOutRun
  <2>11. \A k : (\A i \in 1..Len(t) : t[i].wseq # k) <=> \A q \in order.buffer : q.wseq # k
    BY <2>2, <2>3
  <2>12. order'.next - 1 = top.wseq
    BY <2>4
  <2>13. InOrder!Missing(from) =
           {k \in from..top.wseq : \A q \in order.buffer : q.wseq # k}
    BY <2>10, <2>11, <2>12
  <2>14. from \in InOrder!Missing(from) /\ order'.next - 1 \notin InOrder!Missing(from)
    BY <1>2, <2>1, <2>4, <2>12, <2>13
  <2>15. InOrder!GiveUp
    BY <1>4, <2>5, <2>10, <2>13, <2>14 DEF InOrder!GiveUp
  <2> QED BY <2>15 DEF InOrder!Next
<1> QED BY <1>3, <1>4 DEF FlushOrderBuffer

LEMMA StreamStep == StreamInv /\ [Next]_vars => [InOrder!Next]_(InOrder!streamVars)
<1> SUFFICES ASSUME StreamInv, [Next]_vars PROVE [InOrder!Next]_(InOrder!streamVars)
  OBVIOUS
<1>1. CASE \/ Call \/ SenderStep \/ RawSend \/ RawAnswered
           \/ ChannelFlips \/ Dispose \/ Reconnect
  <2>1. UNCHANGED receiver
    BY <1>1 DEF Call, SenderStep, RawSend, RawAnswered, ChannelFlips, Dispose, Reconnect,
       Enter, WriteRtc, FallBack, BeginRelay, RelayForwarded, RelayRefused,
       RelayAnswered, RelayTimedOut, PayloadFails, GiveUp
  <2>2. sent \subseteq sent'
    BY <1>1 DEF Call, SenderStep, RawSend, RawAnswered, ChannelFlips, Dispose, Reconnect,
       Enter, WriteRtc, FallBack, BeginRelay, RelayForwarded, RelayRefused,
       RelayAnswered, RelayTimedOut, PayloadFails, GiveUp, Emit, wire
  <2> QED BY <2>1, <2>2 DEF InOrder!Next, InOrder!Send, receiver
<1>2. ASSUME NEW p \in net, ReorderDispatch(p) PROVE [InOrder!Next]_(InOrder!streamVars)
  BY <1>2, ReorderOnStream
<1>3. ASSUME NEW p \in net, Lose(p) PROVE UNCHANGED InOrder!streamVars
  BY <1>3 DEF Lose, receiver, InOrder!streamVars
<1>4. CASE FlushOrderBuffer
  BY <1>4, FlushOnStream
<1>5. CASE PruneOrderStates
  BY <1>5 DEF PruneOrderStates, NoOrder, wire, InOrder!Next, InOrder!Forget
<1>6. CASE UNCHANGED vars
  BY <1>6 DEF vars, InOrder!streamVars
<1> QED BY <1>1, <1>2, <1>3, <1>4, <1>5, <1>6 DEF Next

\* Across paths, losses, repetitions, prunings and new RemoteUsers the receiver is
\* one ordered stream: it hands out what was sent, in runs of ascending numbers,
\* and gives a gap up only while the number expected is missing (user.js
\* #reorderDispatch and the flush of its timer).
THEOREM WireIsStreamHolds == Spec => WireIsStream
<1>1. Init => InOrder!Init
  BY DEF Init, InOrder!Init, NoOrder
<1> QED BY <1>1, StreamStep, StreamInvHolds, PTL DEF Spec, WireIsStream, InOrder!Spec
=============================================================================
