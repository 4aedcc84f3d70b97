----------------------- MODULE ReliableDeliveryProofs -----------------------
(***************************************************************************)
(* Facts of reliable delivery for any number of messages, sessions,        *)
(* retries, reloads and any queue limit.  Each has its own reason, so each *)
(* has its own inductive invariant over the common types:                  *)
(*   HandlerStartsOnce    a start leaves the msgId in the DedupCache;      *)
(*   PlainAckMeansHandled every place a plain "ok" can rest in (a packet,  *)
(*                        #recent, a job) stands for a returned handler;   *)
(*   ReflushArmed         inductive as it is, for a well-formed flush;     *)
(*   PendingIsHeld        no queuedAt is claimed twice, so the shift after *)
(*                        the await removes the entry read before it;      *)
(*   StoreMirrorsQueue    each writer of the store keeps a record for each *)
(*                        entry, and a persisted message is queued once.   *)
(* The last two hold below the queue's limit only (Room), the last one for *)
(* one session: past the limit a flush can lose an entry.                  *)
(***************************************************************************)
EXTENDS ReliableDelivery, FiniteSetTheorems, FunctionTheorems,
        SequenceTheorems, TLAPS

JobResults == AckResults \cup {"none", "timeout", "unsent", "noreceiver",
                               "queued", "gone"}
AnyJob == [pc : {"off", "resolve", "send", "resend", "wait", "over"},
           left : SUBSET Sids, reach : SUBSET Sids, tries : Int,
           res : JobResults]
AnyPacket == [to : {"peer", "me"}, m : Msgs, sid : Sids, n : Int,
              res : AckResults \cup {"none"}]
AnyFlush == [pc : {"idle", "head", "resolve", "deliver"},
             m : Msgs \cup {NoMsg}, at : Int]

JobTypes == job \in [Jobs -> AnyJob]
LinkTypes ==
  /\ net \subseteq AnyPacket
  /\ sent \in [Msgs -> Int]
  /\ running \subseteq Msgs \X Sids \X Int
PeerTypes ==
  /\ dedup \in [Sids -> SUBSET Msgs]
  /\ started \in [Msgs \X Sids -> Int]
WaiterTypes ==
  /\ pending \in [Msgs -> {"none", "direct", "flush"}]
  /\ recent \in [Msgs -> AckResults \cup {"none"}]

----------------------------------------------------------------------------
\* A packet is put into the link by a send, by an ack, or not at all.

LEMMA TransmitTypes ==
  ASSUME LinkTypes, NEW m \in Msgs, NEW s \in Sids, Transmit(m, s)
  PROVE  net' \subseteq AnyPacket /\ sent' \in [Msgs -> Int]
BY DEF LinkTypes, Transmit, AnyPacket, AckResults

LEMMA LinkTypesHold ==
  ASSUME LinkTypes, [Next]_vars
  PROVE  LinkTypes'
<1> USE DEF LinkTypes
<1>1. CASE \E m \in Msgs : Call(m) \/ Resolve(m)
  <2>1. PICK m \in Msgs : Call(m) \/ Resolve(m) BY <1>1
  <2>2. CASE Call(m)            BY <2>2 DEF Call, peer
  <2>3. CASE TargetsFound(m)    BY <2>3 DEF TargetsFound, peer
  <2>4. CASE StoredOnServer(m)  BY <2>4, TransmitTypes DEF StoredOnServer, peer
  <2>5. CASE PeerOffline(m)     BY <2>5 DEF PeerOffline, peer
  <2> QED BY <2>1, <2>2, <2>3, <2>4, <2>5 DEF Resolve
<1>2. CASE \E j \in Jobs : Delivery(j)
  <2>1. PICK j \in Jobs : Delivery(j) BY <1>2
  <2>2. ASSUME NEW s \in Sids, SendOk(j, s) PROVE LinkTypes'
    <3>1. j[2] \in Msgs BY DEF Jobs
    <3> QED BY <2>2, <3>1, TransmitTypes DEF SendOk, peer
  <2>3. ASSUME NEW s \in Sids, SendFails(j, s) PROVE LinkTypes'
    BY <2>3 DEF SendFails, peer
  <2>4. CASE BeginWait(j)   BY <2>4 DEF BeginWait, peer
  <2>5. CASE NothingSent(j) BY <2>5 DEF NothingSent, peer
  <2>6. CASE AckTimeout(j)  BY <2>6 DEF AckTimeout, peer
  <2>7. CASE Awaited(j)     BY <2>7 DEF Awaited, peer
  <2> QED BY <2>1, <2>2, <2>3, <2>4, <2>5, <2>6, <2>7 DEF Delivery
<1>3. CASE FlushRequested \/ TimerFires \/ Flushing
  BY <1>3 DEF FlushRequested, TimerFires, Flushing, FlushStarts, FlushExpires,
       FlushTakesHead, FlushDrained, FlushUnreachable, FlushDelivers,
       FlushDelivered, FlushFailed, FlushRequeues, FlushSettles, sending, peer
<1>4. CASE Age \/ PageReloads \/ Restoring
  BY <1>4 DEF Age, PageReloads, Restoring, RestoreReads, RestoreMerges, sending,
       peer
<1>5. CASE Link
  BY <1>5 DEF Link, Lose, AckArrives, peer
<1>6. CASE Peer
  <2>1. ASSUME NEW p \in net, ArrivesAgain(p) \/ NoHandler(p) \/ HandlerStarts(p)
        PROVE  LinkTypes'
    BY <2>1 DEF ArrivesAgain, NoHandler, HandlerStarts, Acknowledge, AnyPacket,
         AckResults, peer
  <2>2. ASSUME NEW x \in running, HandlerReturns(x) \/ HandlerFails(x)
        PROVE  LinkTypes'
    BY <2>2 DEF HandlerReturns, HandlerFails, AnyPacket, AckResults, peer
  <2>3. ASSUME NEW s \in Sids, PeerReloads(s) PROVE LinkTypes'
    BY <2>3 DEF PeerReloads, sending
  <2> QED BY <1>6, <2>1, <2>2, <2>3 DEF Peer
<1>7. CASE UNCHANGED vars
  BY <1>7 DEF vars, sending, peer
<1> QED BY <1>1, <1>2, <1>3, <1>4, <1>5, <1>6, <1>7 DEF Next

----------------------------------------------------------------------------
\* HandlerStartsOnce: a session that started the handler remembers the msgId.

StartedIsKnown ==
  \A m \in Msgs, s \in Sids : started[<<m, s>>] <= (IF m \in dedup[s] THEN 1 ELSE 0)

OnceInv == LinkTypes /\ PeerTypes /\ StartedIsKnown

\* Nothing but an arriving packet and a reload of the session touches the two.
LEMMA PeerUntouched ==
  ASSUME [Next]_vars, ~Peer
  PROVE  UNCHANGED <<dedup, started>>
<1>1. CASE \E m \in Msgs : Call(m) \/ Resolve(m)
  BY <1>1 DEF Resolve, Call, TargetsFound, StoredOnServer, PeerOffline, peer
<1>2. CASE \E j \in Jobs : Delivery(j)
  BY <1>2 DEF Delivery, SendOk, SendFails, BeginWait, NothingSent, AckTimeout,
       Awaited, peer
<1>3. CASE FlushRequested \/ TimerFires \/ Flushing
  BY <1>3 DEF FlushRequested, TimerFires, Flushing, FlushStarts, FlushExpires,
       FlushTakesHead, FlushDrained, FlushUnreachable, FlushDelivers,
       FlushDelivered, FlushFailed, FlushRequeues, FlushSettles, peer
<1>4. CASE Age \/ PageReloads \/ Restoring
  BY <1>4 DEF Age, PageReloads, Restoring, RestoreReads, RestoreMerges, peer
<1>5. CASE Link
  BY <1>5 DEF Link, Lose, AckArrives, peer
<1>6. CASE UNCHANGED vars
  BY <1>6 DEF vars, peer
<1> QED BY <1>1, <1>2, <1>3, <1>4, <1>5, <1>6 DEF Next

LEMMA OnceInvStep == OnceInv /\ [Next]_vars => OnceInv'
<1> SUFFICES ASSUME OnceInv, [Next]_vars PROVE OnceInv'
  OBVIOUS
<1>1. LinkTypes'
  BY LinkTypesHold DEF OnceInv
<1>2. CASE ~Peer
  BY <1>1, <1>2, PeerUntouched DEF OnceInv, PeerTypes, StartedIsKnown
<1>3. CASE Peer
  <2>1. ASSUME NEW p \in net,
               ArrivesAgain(p) \/ NoHandler(p) \/ HandlerStarts(p)
        PROVE  (PeerTypes /\ StartedIsKnown)'
    <3>1. p.m \in Msgs /\ p.sid \in Sids
      BY DEF OnceInv, LinkTypes, AnyPacket
    <3>2. CASE ArrivesAgain(p)
      BY <3>2 DEF OnceInv, PeerTypes, StartedIsKnown, ArrivesAgain, peer
    <3>3. CASE NoHandler(p)
      BY <3>1, <3>3 DEF OnceInv, PeerTypes, StartedIsKnown, NoHandler
    <3>4. CASE HandlerStarts(p)
      BY <3>1, <3>4 DEF OnceInv, PeerTypes, StartedIsKnown, HandlerStarts
    <3> QED BY <2>1, <3>2, <3>3, <3>4
  <2>2. ASSUME NEW x \in running, HandlerReturns(x) \/ HandlerFails(x)
        PROVE  (PeerTypes /\ StartedIsKnown)'
    BY <2>2 DEF OnceInv, PeerTypes, StartedIsKnown, HandlerReturns, HandlerFails
  <2>3. ASSUME NEW s \in Sids, PeerReloads(s)
        PROVE  (PeerTypes /\ StartedIsKnown)'
    BY <2>3 DEF OnceInv, PeerTypes, StartedIsKnown, PeerReloads
  <2> QED BY <1>1, <1>3, <2>1, <2>2, <2>3 DEF Peer, OnceInv
<1> QED BY <1>2, <1>3

\* A session that has not reloaded starts the handler of a message at most once
\* (the DedupCache is asked before anything else, user.js #dispatchToServiceApp).
THEOREM HandlerStartsOnceHolds == Spec => []HandlerStartsOnce
<1>1. Init => OnceInv
  BY ConstantsOK DEF Init, OnceInv, LinkTypes, PeerTypes, StartedIsKnown
<1>2. OnceInv => HandlerStartsOnce
  BY DEF OnceInv, StartedIsKnown, HandlerStartsOnce, PeerTypes
<1> QED BY <1>1, <1>2, OnceInvStep, PTL DEF Spec

----------------------------------------------------------------------------
\* ReflushArmed is inductive once the record of the flush is one.

FlushShape == flush \in [pc : {"idle", "head", "resolve", "deliver"},
                         m : {flush.m}, at : {flush.at}]
RetryInv == FlushShape /\ ReflushArmed

LEMMA EndFlushArms ==
  ASSUME NEW q, EndFlush(q), queue' = q
  PROVE  RetryInv'
BY DEF EndFlush, NoFlush, RetryInv, FlushShape, ReflushArmed

LEMMA EnqueueArms ==
  ASSUME FlushShape, NEW m, Enqueue(m)
  PROVE  RetryInv'
BY DEF Enqueue, RetryInv, FlushShape, ReflushArmed

LEMMA RetryInvStep == RetryInv /\ [Next]_vars => RetryInv'
<1> SUFFICES ASSUME RetryInv, [Next]_vars PROVE RetryInv'
  OBVIOUS
<1> USE DEF RetryInv
<1>1. CASE UNCHANGED <<queue, flush, restore, timer, wanted>>
  BY <1>1 DEF FlushShape, ReflushArmed
<1>2. CASE \E m \in Msgs : Call(m) \/ Resolve(m)
  BY <1>1, <1>2, EnqueueArms DEF Resolve, Call, TargetsFound, StoredOnServer,
     PeerOffline, queueing, flushing, life
<1>3. CASE \E j \in Jobs : Delivery(j)
  BY <1>1, <1>3, EnqueueArms DEF Delivery, SendOk, SendFails, BeginWait,
     NothingSent, AckTimeout, Awaited, queueing, flushing, life
<1>4. CASE FlushRequested
  BY <1>4 DEF FlushRequested, FlushShape, ReflushArmed
<1>5. CASE TimerFires
  BY <1>5 DEF TimerFires, FlushShape, ReflushArmed, queueing, life
<1>6. CASE Flushing
  <2>1. CASE FlushStarts
    BY <2>1 DEF FlushStarts, FlushShape, ReflushArmed, NoFlush, queueing, life
  <2>2. CASE FlushExpires
    BY <2>2 DEF FlushExpires, FlushShape, ReflushArmed, flushing, life
  <2>3. CASE FlushTakesHead
    BY <2>3 DEF FlushTakesHead, FlushShape, ReflushArmed
  <2>4. CASE FlushDrained
    BY <2>4, EndFlushArms DEF FlushDrained, queueing
  <2>5. CASE FlushUnreachable
    BY <2>5, EndFlushArms DEF FlushUnreachable, queueing
  <2>6. CASE FlushDelivers
    BY <2>6 DEF FlushDelivers, FlushShape, ReflushArmed
  <2>7. CASE FlushDelivered \/ FlushFailed
    BY <2>7 DEF FlushDelivered, FlushFailed, FlushSettles, FlushShape,
       ReflushArmed, NoFlush
  <2>8. CASE FlushRequeues
    BY <2>8, EndFlushArms DEF FlushRequeues
  <2> QED BY <1>6, <2>1, <2>2, <2>3, <2>4, <2>5, <2>6, <2>7, <2>8 DEF Flushing
<1>7. CASE Age
  BY <1>7 DEF Age, FlushShape, ReflushArmed, queueing, flushing
<1>8. CASE PageReloads
  BY <1>8 DEF PageReloads, FlushShape, ReflushArmed, NoFlush
<1>9. CASE RestoreReads
  BY <1>9 DEF RestoreReads, FlushShape, ReflushArmed, queueing, flushing
<1>10. CASE RestoreMerges
  <2>1. PICK s : LET q == queue \o s IN
                 /\ queue' = Kept(q)
                 /\ timer' = IF q # <<>> THEN "armed" ELSE timer
    BY <1>10 DEF RestoreMerges
  <2>2. Kept(<<>>) = <<>>
    BY ConstantsOK DEF Kept, Overflow
  <2>3. UNCHANGED <<flush, wanted>>
    BY <1>10 DEF RestoreMerges
  <2> QED BY <2>1, <2>2, <2>3 DEF FlushShape, ReflushArmed
<1>11. CASE Link \/ Peer
  BY <1>1, <1>11 DEF Link, Lose, AckArrives, Peer, ArrivesAgain, NoHandler,
     HandlerStarts, HandlerReturns, HandlerFails, PeerReloads, queueing, flushing,
     life
<1> QED BY <1>1, <1>2, <1>3, <1>4, <1>5, <1>6, <1>7, <1>8, <1>9, <1>10, <1>11
        DEF Next, Restoring, vars, queueing, flushing, life

\* Whatever leaves an entry in the queue leaves the timer armed or a flush call
\* on its way: no entry waits for an event that may never come.
THEOREM ReflushArmedHolds == Spec => []ReflushArmed
<1>1. Init => RetryInv
  BY DEF Init, RetryInv, FlushShape, ReflushArmed, NoFlush
<1>2. RetryInv => ReflushArmed
  BY DEF RetryInv
<1> QED BY <1>1, <1>2, RetryInvStep, PTL DEF Spec

----------------------------------------------------------------------------
\* PlainAckMeansHandled: follow a plain "ok" from the handler to the job.

Handled(m) == \E s \in Sids : <<m, s>> \in done
PlainInNet == \A p \in net : p.to = "me" /\ p.res = "ok" => Handled(p.m)
PlainInRecent == \A m \in Msgs : recent[m] = "ok" => Handled(m)
PlainInJobs == \A j \in Jobs : job[j].res = "ok" => Handled(j[2])

AckInv == /\ LinkTypes /\ JobTypes /\ WaiterTypes
          /\ PlainInNet /\ PlainInRecent /\ PlainInJobs
AckFacts == JobTypes /\ WaiterTypes /\ PlainInNet /\ PlainInRecent /\ PlainInJobs

\* The history of returned handlers only grows.
LEMMA HandledStays ==
  ASSUME [Next]_vars
  PROVE  done \subseteq done'
<1>1. CASE Peer
  BY <1>1 DEF Peer, ArrivesAgain, NoHandler, HandlerStarts, HandlerReturns,
     HandlerFails, PeerReloads, peer
<1>2. CASE \E m \in Msgs : Call(m) \/ Resolve(m)
  BY <1>2 DEF Resolve, Call, TargetsFound, StoredOnServer, PeerOffline, peer
<1>3. CASE \E j \in Jobs : Delivery(j)
  BY <1>3 DEF Delivery, SendOk, SendFails, BeginWait, NothingSent, AckTimeout,
       Awaited, peer
<1>4. CASE FlushRequested \/ TimerFires \/ Flushing
  BY <1>4 DEF FlushRequested, TimerFires, Flushing, FlushStarts, FlushExpires,
       FlushTakesHead, FlushDrained, FlushUnreachable, FlushDelivers,
       FlushDelivered, FlushFailed, FlushRequeues, FlushSettles, peer
<1>5. CASE Age \/ PageReloads \/ Restoring \/ Link \/ UNCHANGED vars
  BY <1>5 DEF Age, PageReloads, Restoring, RestoreReads, RestoreMerges, Link, Lose,
     AckArrives, vars, peer
<1> QED BY <1>1, <1>2, <1>3, <1>4, <1>5 DEF Next

LEMMA NewJobs ==
  /\ Idle \in AnyJob /\ Idle.res = "none"
  /\ \A x \in JobResults : Ended(x) \in AnyJob /\ Ended(x).res = x
  /\ \A S \in SUBSET Sids : SendingTo(S) \in AnyJob /\ SendingTo(S).res = "none"
  /\ \A d \in AnyJob : Resent(d) \in AnyJob /\ Resent(d).res = "none"
<1>1. Idle \in AnyJob /\ Idle.res = "none"
  BY DEF Idle, AnyJob, JobResults
<1>2. ASSUME NEW x \in JobResults PROVE Ended(x) \in AnyJob /\ Ended(x).res = x
  BY <1>1 DEF Ended, AnyJob
<1>3. ASSUME NEW S \in SUBSET Sids
      PROVE  SendingTo(S) \in AnyJob /\ SendingTo(S).res = "none"
  BY <1>1 DEF SendingTo, AnyJob
<1>4. ASSUME NEW d \in AnyJob PROVE Resent(d) \in AnyJob /\ Resent(d).res = "none"
  <2> DEFINE e == [d EXCEPT !.left = d.reach]
             f == [e EXCEPT !.tries = d.tries + 1]
             g == [f EXCEPT !.pc = "resend"]
             h == [g EXCEPT !.res = "none"]
  <2>1. e \in AnyJob /\ e.tries = d.tries BY DEF AnyJob
  <2> HIDE DEF e
  <2>2. f \in AnyJob BY <2>1 DEF AnyJob
  <2> HIDE DEF f
  <2>3. g \in AnyJob BY <2>2 DEF AnyJob
  <2> HIDE DEF g
  <2>4. h \in AnyJob /\ h.res = "none" BY <2>3 DEF AnyJob, JobResults
  <2>5. Resent(d) = h BY DEF Resent, AnyJob, e, f, g, h
  <2> QED BY <2>4, <2>5
<1> QED BY <1>1, <1>2, <1>3, <1>4

LEMMA TransmitAddsData ==
  ASSUME NEW m, NEW s, Transmit(m, s)
  PROVE  \A p \in net' \ net : p.to = "peer"
BY DEF Transmit

\* A job that is replaced by one with no plain ok of its own keeps the facts.
LEMMA JobReplaced ==
  ASSUME JobTypes, PlainInJobs, NEW j \in Jobs, NEW r \in AnyJob,
         r.res = "ok" => Handled(j[2]),
         job' = [job EXCEPT ![j] = r], UNCHANGED done
  PROVE  JobTypes' /\ PlainInJobs'
BY DEF JobTypes, PlainInJobs, Handled

\* Packets other than acks, and no change to #recent, leave the rest as it is.
LEMMA OnlyDataAdded ==
  ASSUME AckInv, \A p \in net' \ net : p.to = "peer",
         UNCHANGED <<pending, recent, done>>, JobTypes' /\ PlainInJobs'
  PROVE  AckFacts'
BY DEF AckInv, AckFacts, WaiterTypes, PlainInNet, PlainInRecent, Handled

LEMMA CallKeepsAcks ==
  ASSUME AckInv, NEW m \in Msgs, Call(m) \/ Resolve(m)
  PROVE  AckFacts'
<1>1. Direct(m) \in Jobs /\ job[Direct(m)] \in AnyJob
  BY DEF Jobs, Direct, AckInv, JobTypes
<1>2. UNCHANGED <<pending, recent, done>>
  BY DEF Resolve, Call, TargetsFound, StoredOnServer, PeerOffline, acks, peer
<1>3. \A p \in net' \ net : p.to = "peer"
  <2>1. CASE UNCHANGED net BY <2>1
  <2>2. CASE StoredOnServer(m) BY <2>2, TransmitAddsData DEF StoredOnServer
  <2> QED BY <2>1, <2>2 DEF Resolve, Call, TargetsFound, PeerOffline
<1>4. \E r \in AnyJob : /\ job' = [job EXCEPT ![Direct(m)] = r]
                        /\ r.res = "ok" => job[Direct(m)].res = "ok"
  <2>1. CASE Call(m)
    <3> DEFINE r == [job[Direct(m)] EXCEPT !.pc = "resolve"]
    <3>1. r \in AnyJob /\ r.res = job[Direct(m)].res BY <1>1 DEF AnyJob
    <3>2. job' = [job EXCEPT ![Direct(m)] = r] BY <2>1 DEF Call
    <3> QED BY <3>1, <3>2
  <2>2. CASE StoredOnServer(m)
    <3> DEFINE r == [job[Direct(m)] EXCEPT !.pc = "resend"]
    <3>1. r \in AnyJob /\ r.res = job[Direct(m)].res BY <1>1 DEF AnyJob
    <3>2. job' = [job EXCEPT ![Direct(m)] = r] BY <2>2 DEF StoredOnServer
    <3> QED BY <3>1, <3>2
  <2>3. CASE TargetsFound(m)
    <3>1. PICK S \in SUBSET Sids :
            job' = [job EXCEPT ![Direct(m)] =
              IF S = {} THEN Ended("noreceiver") ELSE SendingTo(S)]
      BY <2>3 DEF TargetsFound
    <3>2. "noreceiver" \in JobResults BY DEF JobResults
    <3> QED BY <3>1, <3>2, NewJobs
  <2>4. CASE PeerOffline(m)
    <3>1. "queued" \in JobResults BY DEF JobResults
    <3> QED BY <2>4, <3>1, NewJobs DEF PeerOffline
  <2> QED BY <2>1, <2>2, <2>3, <2>4 DEF Resolve
<1>5. JobTypes' /\ PlainInJobs'
  BY <1>1, <1>2, <1>4, JobReplaced DEF AckInv, PlainInJobs
<1> QED BY <1>2, <1>3, <1>5, OnlyDataAdded

LEMMA DeliveryKeepsAcks ==
  ASSUME AckInv, NEW j \in Jobs, Delivery(j)
  PROVE  AckFacts'
<1>1. j[2] \in Msgs /\ job[j] \in AnyJob /\ j = <<j[1], j[2]>>
  BY DEF Jobs, AckInv, JobTypes
<1>2. UNCHANGED done
  BY DEF Delivery, SendOk, SendFails, BeginWait, NothingSent, AckTimeout, Awaited,
     peer
<1>3. \A p \in net' \ net : p.to = "peer"
  <2>1. CASE UNCHANGED net BY <2>1
  <2>2. CASE \E s \in Sids : SendOk(j, s) BY <2>2, TransmitAddsData DEF SendOk
  <2> QED BY <2>1, <2>2 DEF Delivery, SendFails, BeginWait, NothingSent,
          AckTimeout, Awaited
<1>4. ASSUME NEW r \in AnyJob, job' = [job EXCEPT ![j] = r],
             r.res = "ok" => job[j].res = "ok" \/ recent[j[2]] = "ok"
      PROVE  JobTypes' /\ PlainInJobs'
  BY <1>1, <1>2, <1>4, JobReplaced DEF AckInv, PlainInJobs, PlainInRecent
<1>5. CASE \E s \in Sids : SendOk(j, s)
  <2>1. PICK s \in Sids : SendOk(j, s) BY <1>5
  <2> DEFINE r == [job[j] EXCEPT !.left = @ \ {s}, !.reach = @ \cup {s}]
  <2>2. r \in AnyJob /\ r.res = job[j].res BY <1>1 DEF AnyJob
  <2>3. job' = [job EXCEPT ![j] = r] BY <2>1 DEF SendOk
  <2>4. UNCHANGED <<pending, recent>> BY <2>1 DEF SendOk, acks
  <2> QED BY <1>2, <1>3, <1>4, <2>2, <2>3, <2>4, OnlyDataAdded
<1>6. CASE \E s \in Sids : SendFails(j, s)
  <2>1. PICK s \in Sids : SendFails(j, s) BY <1>6
  <2> DEFINE r == [job[j] EXCEPT !.left = @ \ {s}]
  <2>2. r \in AnyJob /\ r.res = job[j].res BY <1>1 DEF AnyJob
  <2>3. job' = [job EXCEPT ![j] = r] BY <2>1 DEF SendFails
  <2>4. UNCHANGED <<pending, recent>> BY <2>1 DEF SendFails, acks
  <2> QED BY <1>2, <1>3, <1>4, <2>2, <2>3, <2>4, OnlyDataAdded
<1>7. CASE BeginWait(j)
  <2> DEFINE r == [job[j] EXCEPT !.pc = "wait", !.res = recent[j[2]]]
  <2>1. r \in AnyJob /\ r.res = recent[j[2]]
    BY <1>1 DEF AnyJob, JobResults, AckInv, WaiterTypes
  <2>2. job' = [job EXCEPT ![j] = r] BY <1>7 DEF BeginWait
  <2>3. JobTypes' /\ PlainInJobs' BY <1>4, <2>1, <2>2
  <2>4. WaiterTypes' /\ PlainInRecent'
    <3>1. j[1] \in {"direct", "flush"} BY DEF Jobs
    <3> QED BY <1>1, <1>2, <1>7, <3>1 DEF BeginWait, AckInv, WaiterTypes,
            PlainInRecent, Handled
  <2> QED BY <1>2, <1>3, <2>3, <2>4 DEF AckFacts, AckInv, PlainInNet, Handled
<1>8. CASE NothingSent(j)
  <2> DEFINE r == Ended("unsent")
  <2>1. r \in AnyJob /\ r.res # "ok" BY NewJobs DEF JobResults
  <2>2. job' = [job EXCEPT ![j] = r] BY <1>8 DEF NothingSent
  <2>3. UNCHANGED <<pending, recent>> BY <1>8 DEF NothingSent, acks
  <2> QED BY <1>2, <1>3, <1>4, <2>1, <2>2, <2>3, OnlyDataAdded
<1>9. CASE AckTimeout(j)
  <2> DEFINE r == [job[j] EXCEPT !.res = "timeout"]
  <2>1. r \in AnyJob /\ r.res # "ok" BY <1>1 DEF AnyJob, JobResults
  <2>2. job' = [job EXCEPT ![j] = r] BY <1>9 DEF AckTimeout
  <2>3. JobTypes' /\ PlainInJobs' BY <1>4, <2>1, <2>2
  <2>4. WaiterTypes' /\ PlainInRecent'
    BY <1>1, <1>2, <1>9 DEF AckTimeout, AckInv, WaiterTypes, PlainInRecent, Handled
  <2> QED BY <1>2, <1>3, <2>3, <2>4 DEF AckFacts, AckInv, PlainInNet, Handled
<1>10. CASE Awaited(j)
  <2>1. job[j].res \in JobResults BY <1>1 DEF AnyJob
  <2>2. Resent(job[j]) \in AnyJob /\ Resent(job[j]).res # "ok" BY <1>1, NewJobs
  <2>3. Ended(job[j].res) \in AnyJob /\ Ended(job[j].res).res = job[j].res
    BY <2>1, NewJobs
  <2>4. \/ job' = [job EXCEPT ![j] = Resent(job[j])]
        \/ job' = [job EXCEPT ![j] = Ended(job[j].res)]
    BY <1>10 DEF Awaited
  <2>5. UNCHANGED <<pending, recent>> BY <1>10 DEF Awaited, acks
  <2>6. JobTypes' /\ PlainInJobs' BY <1>4, <2>2, <2>3, <2>4
  <2> QED BY <1>2, <1>3, <2>5, <2>6, OnlyDataAdded
<1> QED BY <1>5, <1>6, <1>7, <1>8, <1>9, <1>10 DEF Delivery

LEMMA AckInvStep == AckInv /\ [Next]_vars => AckInv'
<1> SUFFICES ASSUME AckInv, [Next]_vars PROVE AckFacts'
  BY LinkTypesHold DEF AckInv, AckFacts
<1> USE DEF AckInv
<1>1. ASSUME net' \subseteq net, UNCHANGED <<job, pending, recent, done>>
      PROVE  AckFacts'
  BY <1>1 DEF AckFacts, JobTypes, WaiterTypes, PlainInNet, PlainInRecent,
     PlainInJobs, Handled
<1>2. ASSUME NEW m \in Msgs, Call(m) \/ Resolve(m) PROVE AckFacts'
  BY <1>2, CallKeepsAcks
<1>3. ASSUME NEW j \in Jobs, Delivery(j) PROVE AckFacts'
  BY <1>3, DeliveryKeepsAcks
<1>4. CASE FlushRequested \/ TimerFires \/ Flushing
  <2>1. UNCHANGED <<net, pending, recent, done>>
    BY <1>4 DEF FlushRequested, TimerFires, Flushing, FlushStarts, FlushExpires,
       FlushTakesHead, FlushDrained, FlushUnreachable, FlushDelivers,
       FlushDelivered, FlushFailed, FlushRequeues, FlushSettles, sending, acks, peer
  <2>2. CASE UNCHANGED job
    BY <1>1, <2>1, <2>2
  <2>3. CASE FlushDelivers \/ FlushDelivered \/ FlushFailed \/ FlushRequeues
    <3>1. \E r \in AnyJob : /\ job' = [job EXCEPT ![Queued(flush.m)] = r]
                            /\ r.res # "ok"
      <4>1. Idle \in AnyJob /\ Idle.res # "ok" BY NewJobs DEF Idle
      <4> QED BY <2>3, <4>1, NewJobs DEF FlushDelivers, FlushDelivered,
              FlushFailed, FlushRequeues, FlushJobEnds
    <3>2. CASE Queued(flush.m) \in Jobs
      BY <2>1, <3>1, <3>2, JobReplaced, OnlyDataAdded
    <3>3. CASE Queued(flush.m) \notin Jobs
      <4>1. UNCHANGED job BY <3>1, <3>3 DEF JobTypes
      <4> QED BY <1>1, <2>1, <4>1
    <3> QED BY <3>2, <3>3
  <2> QED BY <1>4, <2>2, <2>3 DEF FlushRequested, TimerFires, Flushing, FlushStarts,
       FlushExpires, FlushTakesHead, FlushDrained, FlushUnreachable, sending
<1>5. CASE PageReloads
  <2> DEFINE gone == Ended("gone")
  <2>1. gone \in AnyJob /\ gone.res # "ok" BY NewJobs DEF JobResults
  <2>2. Idle \in AnyJob /\ Idle.res # "ok" BY NewJobs DEF Idle
  <2>3. \A j \in Jobs : job'[j] \in {Idle, job[j], gone}
    BY <1>5 DEF PageReloads
  <2>4. JobTypes'
    BY <1>5, <2>1, <2>2 DEF PageReloads, JobTypes
  <2>5. UNCHANGED <<net, done>> BY <1>5 DEF PageReloads, peer
  <2>6. PlainInJobs'
    BY <2>1, <2>2, <2>3, <2>5 DEF PlainInJobs, Handled
  <2>7. WaiterTypes' /\ PlainInRecent'
    BY <1>5 DEF PageReloads, WaiterTypes, PlainInRecent
  <2> QED BY <2>4, <2>5, <2>6, <2>7 DEF AckFacts, PlainInNet, Handled
<1>6. CASE Age \/ Restoring
  BY <1>1, <1>6 DEF Age, Restoring, RestoreReads, RestoreMerges, sending, acks, peer
<1>7. ASSUME NEW p \in net, AckArrives(p) PROVE AckFacts'
  <2>1. p.m \in Msgs /\ p.res \in AckResults \cup {"none"} /\ p.to = "me"
    BY <1>7 DEF LinkTypes, AnyPacket, AckArrives
  <2>2. p.res = "ok" => Handled(p.m)
    BY <2>1 DEF PlainInNet
  <2>3. UNCHANGED done /\ net' \subseteq net
    BY <1>7 DEF AckArrives, peer
  <2>4. CASE pending[p.m] # "none"
    <3>1. <<pending[p.m], p.m>> \in Jobs
      BY <2>1, <2>4 DEF WaiterTypes, Jobs
    <3> DEFINE j == <<pending[p.m], p.m>>
               r == [job[j] EXCEPT !.res = p.res]
    <3>2. r \in AnyJob /\ r.res = p.res
      BY <2>1, <3>1 DEF JobTypes, AnyJob, JobResults
    <3>3. job' = [job EXCEPT ![j] = r]
      BY <1>7, <2>4 DEF AckArrives
    <3>4. r.res = "ok" => Handled(j[2])
      BY <2>2, <3>2
    <3>5. JobTypes' /\ PlainInJobs'
      BY <2>3, <3>1, <3>2, <3>3, <3>4, JobReplaced
    <3>6. WaiterTypes' /\ PlainInRecent'
      BY <1>7, <2>1, <2>3, <2>4 DEF AckArrives, WaiterTypes, PlainInRecent, Handled
    <3> QED BY <2>3, <3>5, <3>6 DEF AckFacts, PlainInNet, Handled
  <2>5. CASE pending[p.m] = "none"
    BY <1>7, <2>1, <2>2, <2>3, <2>5 DEF AckArrives, AckFacts, JobTypes,
       WaiterTypes, PlainInNet, PlainInJobs, PlainInRecent, Handled
  <2> QED BY <2>4, <2>5
<1>8. CASE \E p \in net : Lose(p)
  BY <1>1, <1>8 DEF Lose, acks, peer
<1>9. CASE Peer
  <2>1. UNCHANGED <<job, pending, recent>> /\ done \subseteq done'
    BY <1>9, HandledStays DEF Peer, ArrivesAgain, NoHandler, HandlerStarts,
       HandlerReturns, HandlerFails, PeerReloads, sending, acks
  <2>2. \A p \in net' : p.to = "me" /\ p.res = "ok" =>
          p \in net \/ \E s \in Sids : <<p.m, s>> \in done'
    <3>1. ASSUME NEW x \in running, HandlerReturns(x)
          PROVE  \A p \in net' : p.to = "me" /\ p.res = "ok" =>
                   p \in net \/ \E s \in Sids : <<p.m, s>> \in done'
      BY <3>1 DEF HandlerReturns, LinkTypes
    <3>2. CASE \E p \in net : ArrivesAgain(p) \/ NoHandler(p) \/ HandlerStarts(p)
      BY <3>2 DEF ArrivesAgain, NoHandler, HandlerStarts, Acknowledge
    <3>3. CASE (\E x \in running : HandlerFails(x)) \/ (\E s \in Sids : PeerReloads(s))
      BY <3>3 DEF HandlerFails, PeerReloads, sending
    <3> QED BY <1>9, <3>1, <3>2, <3>3 DEF Peer
  <2> QED BY <2>1, <2>2 DEF AckFacts, JobTypes, WaiterTypes, PlainInNet,
          PlainInRecent, PlainInJobs, Handled
<1>10. CASE UNCHANGED vars
  BY <1>1, <1>10 DEF vars, sending, acks, peer
<1> QED BY <1>2, <1>3, <1>4, <1>5, <1>6, <1>7, <1>8, <1>9, <1>10 DEF Next, Link

\* A confirmation that is not marked duplicate comes from a handler of the peer
\* that returned, through whichever job of the msgId it settles.
THEOREM PlainAckMeansHandledHolds == Spec => []PlainAckMeansHandled
<1>1. Init => AckInv
  BY ConstantsOK DEF Init, AckInv, LinkTypes, JobTypes, WaiterTypes, AnyJob, Idle,
     JobResults, PlainInNet, PlainInRecent, PlainInJobs
<1>2. AckInv => PlainAckMeansHandled
  BY DEF AckInv, PlainInJobs, PlainAckMeansHandled, Handled
<1> QED BY <1>1, <1>2, AckInvStep, PTL DEF Spec

----------------------------------------------------------------------------
(* The offline queue below its limit.                                       *)

AnyEntry == [m : Msgs, at : Nat]
InHand == flush.pc \in {"resolve", "deliver"}

QueueTypes ==
  /\ queue \in Seq(AnyEntry)
  /\ flush \in [pc : {"idle", "head", "resolve", "deliver"}, m : Msgs \cup {NoMsg},
                at : Nat]
  /\ InHand => flush.m \in Msgs
  /\ clock \in Nat
  /\ store \in [Msgs -> Nat]
  /\ restore \in [pc : {"reading", "merging", "finished"}, read : [Msgs -> Nat]]
  /\ DOMAIN flushed = 1..MaxEntries

\* The enqueuing that a claim on a queuedAt goes back to: a queued entry, the one
\* in the hands of a flush, a persisted one, or one that a restore has read.
Claim(m, a) ==
  \/ \E i \in 1..Len(queue) : queue[i].m = m /\ queue[i].at = a
  \/ InHand /\ flush.m = m /\ flush.at = a
  \/ store[m] = a /\ a # 0
  \/ restore.read[m] = a /\ a # 0
Claims ==
  /\ \A m \in Msgs, a \in Nat : Claim(m, a) => a >= 1 /\ a <= clock
  /\ \A m, n \in Msgs, a \in Nat : Claim(m, a) /\ Claim(n, a) => m = n

\* No entry is in the queue twice, nor in the queue and in the hands of a flush
\* that has taken it out; until then the flush's entry is the head.
OnceQueued ==
  /\ \A i, k \in 1..Len(queue) : queue[i].at = queue[k].at => i = k
  /\ flush.pc = "resolve" => /\ queue # <<>>
                             /\ queue[1].m = flush.m /\ queue[1].at = flush.at
  /\ flush.pc = "deliver" => \A i \in 1..Len(queue) : queue[i].at # flush.at
  /\ flush.pc # "idle" => restore.pc = "finished"

\* The sessions a message can no longer be queued for.
SpentOn(d, s) == d.pc \notin {"off", "resolve"} /\ (d.pc = "send" => s \notin d.left)
Spent == {x \in Msgs \X Sids : SpentOn(job[Direct(x[1])], x[2])}
Counted == clock \in Nat /\ clock <= Cardinality(Spent)

\* The queue has not reached its limit: it is not full, or fewer entries than
\* that were ever enqueued.
Room == clock <= QueueMax \/ Len(queue) < QueueMax

----------------------------------------------------------------------------
\* A sequence of entries with distinct times up to n is no longer than n.
LEMMA Pigeons ==
  ASSUME NEW q \in Seq(AnyEntry), NEW n \in Nat,
         \A i \in 1..Len(q) : q[i].at \in 1..n,
         \A i, k \in 1..Len(q) : q[i].at = q[k].at => i = k
  PROVE  Len(q) <= n
<1> DEFINE f == [i \in 1..Len(q) |-> q[i].at]
<1>1. f \in Injection(1..Len(q), 1..n)
  BY DEF Injection, IsInjective
<1>2. IsFiniteSet(1..n) /\ Cardinality(1..n) = n BY FS_Interval
<1>3. Cardinality(1..Len(q)) <= n BY <1>1, <1>2, FS_Injection
<1>4. Len(q) \in Nat OBVIOUS
<1>5. \A k \in Nat : Cardinality(1..k) = k
  <2> TAKE k \in Nat
  <2> QED BY FS_Interval
<1> QED BY <1>3, <1>4, <1>5

\* Below the limit nothing is dropped.
LEMMA NothingDropped ==
  ASSUME NEW q \in Seq(AnyEntry), Len(q) <= QueueMax
  PROVE  Kept(q) = q /\ Dropped(q) = {}
<1>1. Overflow(q) = 0 /\ Len(q) \in Nat BY ConstantsOK DEF Overflow
<1>2. SubSeq(q, 1, Len(q)) = q BY SubSeqFull
<1>3. 1..0 = {} OBVIOUS
<1> QED BY <1>1, <1>2, <1>3 DEF Kept, Dropped

LEMMA KeptBelowLimit ==
  ASSUME NEW q \in Seq(AnyEntry), Len(Kept(q)) < QueueMax
  PROVE  Len(q) <= QueueMax
<1>1. Len(q) \in Nat /\ QueueMax \in Nat BY ConstantsOK
<1> SUFFICES ASSUME Len(q) > QueueMax PROVE FALSE BY <1>1
<1>2. Overflow(q) = Len(q) - QueueMax BY DEF Overflow
<1>3. Overflow(q) + 1 \in 1..Len(q) + 1 /\ Len(q) \in 0..Len(q) BY <1>1, <1>2
<1>4. Len(Kept(q)) = Len(q) - (Overflow(q) + 1) + 1
  BY <1>1, <1>2, SubSeqProperties DEF Kept
<1> QED BY <1>1, <1>2, <1>4

\* There are finitely many sessions a message can be queued for.
LEMMA SpentFinite ==
  ASSUME NEW S, S \subseteq Msgs \X Sids
  PROVE  /\ IsFiniteSet(S) /\ Cardinality(S) \in Nat /\ MaxEntries \in Nat
         /\ Cardinality(S) <= MaxEntries
         /\ \A T \in SUBSET S : IsFiniteSet(T) /\ Cardinality(T) <= Cardinality(S)
         /\ \A T \in SUBSET S : T # S => Cardinality(T) < Cardinality(S)
<1>1. IsFiniteSet(Msgs \X Sids) /\ Cardinality(Msgs \X Sids) = MaxEntries
  BY ConstantsOK, FS_Product DEF MaxEntries
<1>2. MaxEntries \in Nat BY <1>1, FS_CardinalityType
<1>3. IsFiniteSet(S) /\ Cardinality(S) <= MaxEntries BY <1>1, FS_Subset
<1>4. \A T \in SUBSET S : /\ IsFiniteSet(T) /\ Cardinality(T) <= Cardinality(S)
                          /\ Cardinality(S) = Cardinality(T) => S = T
  BY <1>3, FS_Subset
<1> QED BY <1>2, <1>3, <1>4, FS_CardinalityType

\* A delivery by the call never returns to where it could queue more entries.
LEMMA DirectMovesOn ==
  ASSUME JobTypes, [Next]_vars, NEW m \in Msgs, NEW s \in Sids,
         SpentOn(job[Direct(m)], s)
  PROVE  SpentOn(job'[Direct(m)], s)
<1> DEFINE d == Direct(m)
<1>0. d \in Jobs /\ job[d] \in AnyJob BY DEF Direct, Jobs, JobTypes
<1>a. \A j \in Jobs : d = j <=> j[1] = "direct" /\ j[2] = m BY DEF Direct, Jobs
<1>b. \A n : Queued(n) # d BY DEF Direct, Queued
<1> USE DEF SpentOn, JobTypes
<1>1. CASE UNCHANGED job BY <1>1
<1>2. ASSUME NEW n \in Msgs, Call(n) \/ Resolve(n) PROVE SpentOn(job'[d], s)
  BY <1>0, <1>2 DEF Call, Resolve, TargetsFound, StoredOnServer, PeerOffline, Ended,
     Idle, SendingTo, Direct, Jobs, AnyJob
<1>3. ASSUME NEW j \in Jobs, Delivery(j) PROVE SpentOn(job'[d], s)
  <2>0. job[j] \in AnyJob BY DEF JobTypes
  <2>1. CASE j # d
    BY <1>0, <1>3, <2>1 DEF Delivery, SendOk, SendFails, BeginWait, NothingSent,
       AckTimeout, Awaited
  <2>2. CASE j = d
    <3>1. CASE \E t \in Sids : SendOk(j, t) \/ SendFails(j, t)
      BY <1>0, <2>2, <3>1 DEF SendOk, SendFails, AnyJob
    <3>2. CASE BeginWait(j) BY <1>0, <2>2, <3>2 DEF BeginWait, AnyJob
    <3>3. CASE NothingSent(j) BY <1>0, <2>2, <3>3 DEF NothingSent, Ended, Idle, AnyJob
    <3>4. CASE AckTimeout(j) BY <1>0, <2>2, <3>4 DEF AckTimeout, AnyJob
    <3>5. CASE Awaited(j)
      <4>1. Resent(job[j]).pc = "resend" BY <2>0 DEF Resent, AnyJob
      <4>2. Ended(job[j].res).pc = "over" BY DEF Ended, Idle
      <4>3. job'[j] \in {Resent(job[j]), Ended(job[j].res)} BY <3>5 DEF Awaited
      <4> QED BY <2>2, <4>1, <4>2, <4>3
    <3> QED BY <1>3, <3>1, <3>2, <3>3, <3>4, <3>5 DEF Delivery
  <2> QED BY <2>1, <2>2
<1>4. CASE FlushDelivers \/ FlushDelivered \/ FlushFailed \/ FlushRequeues
  <2>1. \E r : job' = [job EXCEPT ![Queued(flush.m)] = r]
    BY <1>4 DEF FlushDelivers, FlushDelivered, FlushFailed, FlushRequeues, FlushJobEnds
  <2> QED BY <1>0, <1>b, <2>1
<1>5. CASE PageReloads
  <2>1. job'[d] = IF job[d].pc \in {"off", "over"} THEN job[d] ELSE Ended("gone")
    BY <1>0, <1>5 DEF PageReloads, Direct
  <2>2. Ended("gone").pc = "over" BY DEF Ended, Idle
  <2> QED BY <2>1, <2>2
<1>6. ASSUME NEW p \in net, AckArrives(p) PROVE SpentOn(job'[d], s)
  BY <1>0, <1>6 DEF AckArrives, AnyJob
<1>7. CASE Next
  <2>1. CASE Flushing
    BY <1>1, <1>4, <2>1 DEF Flushing, FlushStarts, FlushExpires, FlushTakesHead,
       FlushDrained, FlushUnreachable, sending
  <2>2. CASE FlushRequested \/ TimerFires \/ Age \/ Restoring \/ Peer
    BY <1>1, <2>2 DEF FlushRequested, TimerFires, Age, Restoring, RestoreReads,
       RestoreMerges, Peer, ArrivesAgain, NoHandler, HandlerStarts, HandlerReturns,
       HandlerFails, PeerReloads, sending
  <2>3. CASE Link BY <1>1, <1>6, <2>3 DEF Link, Lose
  <2> QED BY <1>2, <1>3, <1>5, <1>7, <2>1, <2>2, <2>3 DEF Next
<1> QED BY <1>1, <1>7 DEF vars, sending

LEMMA SpentGrows ==
  ASSUME JobTypes, [Next]_vars
  PROVE  Spent \subseteq Spent'
BY DirectMovesOn DEF Spent

\* A step that queues m spends a session of m that was not spent.
LEMMA EnqueueSpends ==
  ASSUME JobTypes, NEW m \in Msgs,
         \/ PeerOffline(m)
         \/ \E s \in Sids : /\ SendFails(Direct(m), s)
                            /\ job[Direct(m)].pc = "send"
  PROVE  \E s \in Sids : <<m, s>> \in Spent' /\ <<m, s>> \notin Spent
<1>0. Direct(m) \in Jobs /\ job[Direct(m)] \in AnyJob BY DEF Direct, Jobs, JobTypes
<1>1. ASSUME NEW s \in Sids, SendFails(Direct(m), s), job[Direct(m)].pc = "send"
      PROVE  SpentOn(job'[Direct(m)], s) /\ ~SpentOn(job[Direct(m)], s)
  BY <1>0, <1>1 DEF SendFails, SpentOn, JobTypes, AnyJob
<1>2. ASSUME PeerOffline(m)
      PROVE  \A s \in Sids : SpentOn(job'[Direct(m)], s) /\ ~SpentOn(job[Direct(m)], s)
  BY <1>0, <1>2 DEF PeerOffline, SpentOn, JobTypes, Ended, Idle
<1>3. Sids # {} BY ConstantsOK
<1>4. \A s \in Sids : /\ <<m, s>> \in Spent' <=> SpentOn(job'[Direct(m)], s)
                      /\ <<m, s>> \in Spent <=> SpentOn(job[Direct(m)], s)
  BY DEF Spent
<1> QED BY <1>1, <1>2, <1>3, <1>4

----------------------------------------------------------------------------
\* What the queue has to keep in a step.
QueueCore == QueueTypes /\ Claims /\ OnceQueued /\ PendingIsHeld

LEMMA HeldIff ==
  ASSUME QueueTypes, NEW a
  PROVE  a \in Held <=> \/ \E i \in 1..Len(queue) : queue[i].at = a
                        \/ InHand /\ flush.at = a
BY DEF Held, Entries, InHand, QueueTypes

LEMMA HeldIffNext ==
  ASSUME QueueTypes', NEW a
  PROVE  a \in Held' <=> \/ \E i \in 1..Len(queue') : queue'[i].at = a
                         \/ InHand' /\ flush'.at = a
BY DEF Held, Entries, InHand, QueueTypes

\* Claims survive a step that makes none, or one for the next queuedAt.
LEMMA ClaimsKept ==
  ASSUME QueueTypes, Claims, clock' = clock,
         \A m \in Msgs, a \in Nat : Claim(m, a)' => Claim(m, a)
  PROVE  Claims'
BY DEF Claims, QueueTypes

LEMMA ClaimsNew ==
  ASSUME QueueTypes, Claims, clock' = clock + 1, NEW w \in Msgs,
         \A m \in Msgs, a \in Nat :
           Claim(m, a)' => Claim(m, a) \/ (m = w /\ a = clock + 1)
  PROVE  Claims'
<1>1. clock \in Nat BY DEF QueueTypes
<1>2. \A m \in Msgs, a \in Nat : Claim(m, a) => a >= 1 /\ a <= clock BY DEF Claims
<1>3. \A m \in Msgs, a \in Nat : Claim(m, a)' => a >= 1 /\ a <= clock + 1
  BY <1>1, <1>2
<1>4. \A m, n \in Msgs, a \in Nat : Claim(m, a)' /\ Claim(n, a)' => m = n
  <2> TAKE m, n \in Msgs, a \in Nat
  <2> HAVE Claim(m, a)' /\ Claim(n, a)'
  <2>1. CASE a = clock + 1
    <3>1. ~Claim(m, a) /\ ~Claim(n, a) BY <1>1, <1>2, <2>1
    <3> QED BY <3>1
  <2>2. CASE a # clock + 1
    <3>1. Claim(m, a) /\ Claim(n, a) BY <2>2
    <3> QED BY <3>1 DEF Claims
  <2> QED BY <2>1, <2>2
<1> QED BY <1>3, <1>4 DEF Claims

\* The receipt of an entry stays with it: nothing becomes pending but by an
\* enqueuing, and what is no longer held is settled.
LEMMA PendingKept ==
  ASSUME QueueTypes', PendingIsHeld, NEW new,
         \A a \in 1..MaxEntries : flushed'[a] = "pending" =>
           flushed[a] = "pending" \/ a \in new,
         \A a \in 1..MaxEntries : flushed'[a] = "pending" /\ (a \in Held \/ a \in new)
           => a \in Held'
  PROVE  PendingIsHeld'
BY DEF PendingIsHeld

\* Entries are as many as the clock says, at most.
LEMMA QueueWithinClock ==
  ASSUME QueueTypes, Claims, OnceQueued
  PROVE  Len(queue) <= clock
<1>1. queue \in Seq(AnyEntry) /\ clock \in Nat BY DEF QueueTypes
<1>2. ASSUME NEW i \in 1..Len(queue) PROVE queue[i].at \in 1..clock
  <2>1. queue[i] \in AnyEntry BY <1>1
  <2>2. queue[i].m \in Msgs /\ queue[i].at \in Nat BY <2>1 DEF AnyEntry
  <2>3. Claim(queue[i].m, queue[i].at) BY DEF Claim
  <2>4. queue[i].at >= 1 /\ queue[i].at <= clock BY <2>2, <2>3 DEF Claims
  <2> QED BY <1>1, <2>2, <2>4
<1> QED BY <1>1, <1>2, Pigeons DEF OnceQueued

\* A step that leaves the queue's state alone.
LEMMA QueueUntouched ==
  ASSUME QueueCore, UNCHANGED <<queue, flush, flushed, store, restore, clock>>
  PROVE  QueueCore'
<1> USE DEF QueueCore
<1>1. QueueTypes' BY DEF QueueTypes, InHand
<1>2. \A m \in Msgs, a \in Nat : Claim(m, a)' => Claim(m, a) BY DEF Claim, InHand
<1>3. Claims' BY <1>2, ClaimsKept
<1>4. OnceQueued' BY DEF OnceQueued
<1>5. PendingIsHeld' BY DEF PendingIsHeld, Held, Entries
<1> QED BY <1>1, <1>3, <1>4, <1>5

\* #enqueueMessage below the limit.
LEMMA EnqueueEffect ==
  ASSUME QueueTypes, Claims, OnceQueued, NEW w \in Msgs, Enqueue(w), Room'
  PROVE  /\ clock' = clock + 1 /\ flush' = flush
         /\ queue' = Append(queue, [m |-> w, at |-> clock + 1])
         /\ store' = [store EXCEPT ![w] = clock + 1]
         /\ DOMAIN flushed' = 1..MaxEntries
         /\ \A a \in 1..MaxEntries : flushed'[a] = "pending" =>
              flushed[a] = "pending" \/ a = clock + 1
<1> DEFINE e == [m |-> w, at |-> clock + 1]
           q == Append(queue, e)
<1>1. e \in AnyEntry BY DEF AnyEntry, QueueTypes
<1>2. q \in Seq(AnyEntry) /\ Len(q) <= QueueMax
  <2>1. q \in Seq(AnyEntry) /\ Len(q) = Len(queue) + 1 /\ Len(queue) \in Nat
        /\ clock \in Nat /\ QueueMax \in Nat
    BY <1>1, ConstantsOK DEF QueueTypes
  <2>2. clock' = clock + 1 /\ queue' = Kept(q) BY DEF Enqueue
  <2>3. Len(queue) <= clock BY QueueWithinClock
  <2>4. CASE clock' <= QueueMax BY <2>1, <2>2, <2>3, <2>4
  <2>5. CASE Len(queue') < QueueMax BY <2>1, <2>2, <2>5, KeptBelowLimit
  <2> QED BY <2>1, <2>4, <2>5 DEF Room
<1>3. Kept(q) = q /\ Dropped(q) = {} BY <1>2, NothingDropped
<1>4. /\ clock' = clock + 1 /\ flush' = flush /\ queue' = Kept(q)
      /\ flushed' = Settle([flushed EXCEPT ![clock + 1] = "pending"],
                           {d.at : d \in Dropped(q)}, "dropped")
      /\ store' = Unpersist([store EXCEPT ![w] = clock + 1], {d.m : d \in Dropped(q)})
  BY DEF Enqueue
<1>5. store' = [store EXCEPT ![w] = clock + 1]
  BY <1>3, <1>4 DEF Unpersist, QueueTypes
<1>6. DOMAIN flushed' = 1..MaxEntries BY <1>4 DEF Settle, QueueTypes
<1>7. \A a \in 1..MaxEntries : flushed'[a] = "pending" =>
        flushed[a] = "pending" \/ a = clock + 1
  BY <1>4 DEF Settle, QueueTypes
<1> QED BY <1>3, <1>4, <1>5, <1>6, <1>7

LEMMA EnqueueKeeps ==
  ASSUME QueueCore, NEW w \in Msgs, Enqueue(w), Room', restore' = restore
  PROVE  QueueCore'
<1> USE DEF QueueCore
<1>1. /\ clock' = clock + 1 /\ flush' = flush
      /\ queue' = Append(queue, [m |-> w, at |-> clock + 1])
      /\ store' = [store EXCEPT ![w] = clock + 1]
      /\ DOMAIN flushed' = 1..MaxEntries
      /\ \A a \in 1..MaxEntries : flushed'[a] = "pending" =>
           flushed[a] = "pending" \/ a = clock + 1
  BY EnqueueEffect
<1>2. queue \in Seq(AnyEntry) /\ clock \in Nat /\ Len(queue) \in Nat BY DEF QueueTypes
<1>3. [m |-> w, at |-> clock + 1] \in AnyEntry BY <1>2 DEF AnyEntry
<1>4. /\ Len(queue') = Len(queue) + 1
      /\ \A i \in 1..Len(queue) : queue'[i] = queue[i]
      /\ queue'[Len(queue) + 1].m = w /\ queue'[Len(queue) + 1].at = clock + 1
      /\ queue' \in Seq(AnyEntry)
  BY <1>1, <1>2, <1>3
<1>5. QueueTypes'
  BY <1>1, <1>2, <1>4 DEF QueueTypes, InHand
<1>6. ASSUME NEW m \in Msgs, NEW a \in Nat, Claim(m, a)'
      PROVE  Claim(m, a) \/ (m = w /\ a = clock + 1)
  BY <1>1, <1>2, <1>4, <1>6 DEF Claim, InHand, QueueTypes
<1>7. Claims' BY <1>1, <1>6, ClaimsNew
<1>8. \A i \in 1..Len(queue) : queue[i].at # clock + 1
  <2> TAKE i \in 1..Len(queue)
  <2>0. queue[i] \in AnyEntry BY <1>2
  <2>1. queue[i].m \in Msgs /\ queue[i].at \in Nat BY <2>0 DEF AnyEntry
  <2>2. Claim(queue[i].m, queue[i].at) BY DEF Claim
  <2>3. queue[i].at <= clock BY <2>1, <2>2 DEF Claims
  <2> QED BY <1>2, <2>1, <2>3
<1>9. flush.pc = "deliver" => flush.at # clock + 1
  <2>1. ASSUME flush.pc = "deliver" PROVE flush.at <= clock /\ flush.at \in Nat
    <3>1. flush.m \in Msgs /\ flush.at \in Nat /\ Claim(flush.m, flush.at)
      BY <2>1 DEF QueueTypes, InHand, Claim
    <3> QED BY <3>1 DEF Claims
  <2> QED BY <1>2, <2>1
<1>10. OnceQueued'
  <2>1. \A i, k \in 1..Len(queue') : queue'[i].at = queue'[k].at => i = k
    BY <1>2, <1>4, <1>8 DEF OnceQueued
  <2>2. flush.pc = "resolve" => /\ queue' # <<>> /\ queue'[1].m = flush.m
                                /\ queue'[1].at = flush.at
    BY <1>1, <1>2, <1>4 DEF OnceQueued
  <2>3. flush.pc = "deliver" => \A i \in 1..Len(queue') : queue'[i].at # flush.at
    BY <1>2, <1>4, <1>9 DEF OnceQueued
  <2> QED BY <1>1, <2>1, <2>2, <2>3 DEF OnceQueued
<1>11. PendingIsHeld'
  <2>1. \A a \in Held : a \in Held'
    BY <1>1, <1>2, <1>4, <1>5, HeldIff, HeldIffNext DEF InHand
  <2>2. clock + 1 \in Held' BY <1>2, <1>4, <1>5, HeldIffNext
  <2> QED BY <1>1, <1>5, <2>1, <2>2, PendingKept
<1> QED BY <1>5, <1>7, <1>10, <1>11

----------------------------------------------------------------------------
\* The flush looks at the queue, takes its head in hand or gives up: the queue,
\* the store and the receipts stay.
LEMMA FlushLooks ==
  ASSUME QueueCore, FlushStarts \/ FlushTakesHead \/ FlushDrained \/ FlushUnreachable
  PROVE  QueueCore'
<1> USE DEF QueueCore
<1>1. UNCHANGED <<queue, store, flushed, clock, restore>>
  BY DEF FlushStarts, FlushTakesHead, FlushDrained, FlushUnreachable, queueing, life
<1>2. \/ flush' = NoFlush
      \/ flush' = flush
      \/ flush' = [NoFlush EXCEPT !.pc = "head"] /\ restore.pc = "finished"
         /\ flush.pc = "idle"
      \/ /\ flush' = [pc |-> "resolve", m |-> Head(queue).m, at |-> Head(queue).at]
         /\ queue # <<>> /\ flush.pc = "head"
  BY DEF FlushStarts, FlushTakesHead, FlushDrained, FlushUnreachable, EndFlush
<1>3. flush' # flush => flush.pc # "deliver"
  BY DEF FlushStarts, FlushTakesHead, FlushDrained, FlushUnreachable
<1>4. queue # <<>> => Head(queue) = queue[1] /\ 1 \in 1..Len(queue)
                      /\ queue[1] \in AnyEntry
  BY DEF QueueTypes
<1>5. CASE flush' = flush BY <1>1, <1>5, QueueUntouched
<1>6. CASE flush' # flush /\ flush'.pc \in {"idle", "head"} /\ flush'.m = NoMsg
           /\ flush'.at = 0 /\ (flush'.pc = "head" => restore.pc = "finished")
           /\ flush' = [pc |-> flush'.pc, m |-> NoMsg, at |-> 0]
  <2>1. ~InHand' BY <1>6 DEF InHand
  <2>2. QueueTypes' BY <1>1, <1>6, <2>1 DEF QueueTypes
  <2>3. \A m \in Msgs, a \in Nat : Claim(m, a)' => Claim(m, a)
    BY <1>1, <2>1 DEF Claim
  <2>4. Claims' BY <1>1, <2>3, ClaimsKept
  <2>5. OnceQueued' BY <1>1, <1>6 DEF OnceQueued
  <2>6. \A a \in Held : a \in Held'
    <3>1. InHand => \E i \in 1..Len(queue) : queue[i].at = flush.at
      BY <1>3, <1>4, <1>6 DEF InHand, OnceQueued
    <3> QED BY <1>1, <2>2, <3>1, HeldIff, HeldIffNext
  <2>7. PendingIsHeld' BY <1>1, <2>2, <2>6, PendingKept
  <2> QED BY <2>2, <2>4, <2>5, <2>7
<1>7. CASE /\ flush' = [pc |-> "resolve", m |-> Head(queue).m, at |-> Head(queue).at]
           /\ queue # <<>> /\ flush.pc = "head"
  <2>1. flush'.pc = "resolve" /\ flush'.m = queue[1].m /\ flush'.at = queue[1].at
        /\ flush'.m \in Msgs /\ flush'.at \in Nat
    BY <1>4, <1>7 DEF AnyEntry
  <2>2. QueueTypes' BY <1>1, <1>7, <2>1 DEF QueueTypes
  <2>3. \A m \in Msgs, a \in Nat : Claim(m, a)' => Claim(m, a)
    BY <1>1, <1>4, <1>7, <2>1 DEF Claim
  <2>4. Claims' BY <1>1, <2>3, ClaimsKept
  <2>5. OnceQueued' BY <1>1, <1>7, <2>1 DEF OnceQueued
  <2>6. \A a \in Held : a \in Held'
    BY <1>1, <1>7, <2>2, HeldIff, HeldIffNext DEF InHand
  <2>7. PendingIsHeld' BY <1>1, <2>2, <2>6, PendingKept
  <2> QED BY <2>2, <2>4, <2>5, <2>7
<1> QED BY <1>2, <1>5, <1>6, <1>7 DEF NoFlush

\* The head leaves the queue: what else is in it moves up.
LEMMA TailEntries ==
  ASSUME NEW q \in Seq(AnyEntry), q # <<>>
  PROVE  /\ Tail(q) \in Seq(AnyEntry) /\ Len(Tail(q)) = Len(q) - 1 /\ Len(q) \in Nat
         /\ \A i \in 1..Len(Tail(q)) : Tail(q)[i] = q[i + 1] /\ i + 1 \in 1..Len(q)
         /\ \A i \in 1..Len(q) : i # 1 => i - 1 \in 1..Len(Tail(q))
         /\ Head(q) = q[1] /\ 1 \in 1..Len(q) /\ q[1] \in AnyEntry
OBVIOUS

LEMMA ExpireKeeps ==
  ASSUME QueueCore, FlushExpires
  PROVE  QueueCore'
<1> USE DEF QueueCore
<1>1. /\ flush.pc = "head" /\ queue # <<>> /\ queue' = Tail(queue)
      /\ store' = Unpersist(store, {Head(queue).m})
      /\ flushed' = Settle(flushed, {Head(queue).at}, "expired")
      /\ UNCHANGED <<flush, restore, clock>>
  BY DEF FlushExpires, flushing, life
<1>2. queue \in Seq(AnyEntry) BY DEF QueueTypes
<1>3. /\ queue' \in Seq(AnyEntry) /\ Len(queue') = Len(queue) - 1 /\ Len(queue) \in Nat
      /\ \A i \in 1..Len(queue') : queue'[i] = queue[i + 1] /\ i + 1 \in 1..Len(queue)
      /\ \A i \in 1..Len(queue) : i # 1 => i - 1 \in 1..Len(queue')
      /\ Head(queue) = queue[1]
  BY <1>1, <1>2, TailEntries
<1>4. store' \in [Msgs -> Nat] /\ \A m \in Msgs : store'[m] \in {0, store[m]}
  BY <1>1 DEF Unpersist, QueueTypes
<1>5. /\ DOMAIN flushed' = 1..MaxEntries
      /\ \A a \in 1..MaxEntries : flushed'[a] = "pending" =>
           flushed[a] = "pending" /\ a # queue[1].at
  BY <1>1, <1>3 DEF Settle, QueueTypes
<1>6. ~InHand /\ ~InHand' BY <1>1 DEF InHand
<1>7. QueueTypes' BY <1>1, <1>3, <1>4, <1>5, <1>6 DEF QueueTypes
<1>8. ASSUME NEW m \in Msgs, NEW a \in Nat, Claim(m, a)'
      PROVE  Claim(m, a)
  <2>1. CASE \E i \in 1..Len(queue') : queue'[i].m = m /\ queue'[i].at = a
    <3>1. PICK i \in 1..Len(queue') : queue'[i].m = m /\ queue'[i].at = a BY <2>1
    <3>2. i + 1 \in 1..Len(queue) /\ queue[i + 1].m = m /\ queue[i + 1].at = a
      BY <1>3, <3>1
    <3> QED BY <3>2 DEF Claim
  <2>2. CASE store'[m] = a /\ a # 0 BY <1>4, <2>2 DEF Claim
  <2>3. CASE restore'.read[m] = a /\ a # 0 BY <1>1, <2>3 DEF Claim
  <2> QED BY <1>6, <1>8, <2>1, <2>2, <2>3 DEF Claim
<1>9. Claims' BY <1>1, <1>8, ClaimsKept
<1>10. OnceQueued'
  <2>1. \A i, k \in 1..Len(queue') : queue'[i].at = queue'[k].at => i = k
    <3> TAKE i, k \in 1..Len(queue')
    <3> HAVE queue'[i].at = queue'[k].at
    <3>1. i + 1 = k + 1 BY <1>3 DEF OnceQueued
    <3> QED BY <1>3, <3>1
  <2> QED BY <1>1, <2>1 DEF OnceQueued
<1>11. \A a \in Held : a # queue[1].at => a \in Held'
  <2> TAKE a \in Held
  <2> HAVE a # queue[1].at
  <2>1. PICK i \in 1..Len(queue) : queue[i].at = a BY <1>6, HeldIff
  <2>2. i # 1 BY <2>1
  <2>3. i - 1 \in 1..Len(queue') /\ i \in Int BY <1>3, <2>2
  <2>4. queue'[i - 1] = queue[(i - 1) + 1] BY <1>3, <2>3
  <2>5. queue'[i - 1].at = a BY <2>1, <2>3, <2>4
  <2> QED BY <1>7, <2>3, <2>5, HeldIffNext
<1>12. PendingIsHeld' BY <1>5, <1>7, <1>11, PendingKept
<1> QED BY <1>7, <1>9, <1>10, <1>12

\* The shift after the await takes out the entry that was read before it.
LEMMA DeliverKeeps ==
  ASSUME QueueCore, FlushDelivers
  PROVE  QueueCore'
<1> USE DEF QueueCore
<1>1. /\ flush.pc = "resolve" /\ queue # <<>>
      /\ queue[1].m = flush.m /\ queue[1].at = flush.at
      /\ queue' = Tail(queue) /\ flush' = [flush EXCEPT !.pc = "deliver"]
      /\ UNCHANGED <<store, flushed, clock, restore>>
  BY DEF FlushDelivers, OnceQueued, life
<1>2. queue \in Seq(AnyEntry) BY DEF QueueTypes
<1>3. /\ queue' \in Seq(AnyEntry) /\ Len(queue') = Len(queue) - 1 /\ Len(queue) \in Nat
      /\ \A i \in 1..Len(queue') : queue'[i] = queue[i + 1] /\ i + 1 \in 1..Len(queue)
      /\ \A i \in 1..Len(queue) : i # 1 => i - 1 \in 1..Len(queue')
      /\ 1 \in 1..Len(queue)
  BY <1>1, <1>2, TailEntries
<1>4. flush'.pc = "deliver" /\ flush'.m = flush.m /\ flush'.at = flush.at
      /\ flush' \in [pc : {"idle", "head", "resolve", "deliver"},
                     m : Msgs \cup {NoMsg}, at : Nat]
  BY <1>1 DEF QueueTypes
<1>5. InHand /\ InHand' BY <1>1, <1>4 DEF InHand
<1>7. QueueTypes' BY <1>1, <1>3, <1>4, <1>5 DEF QueueTypes
<1>8. \A m \in Msgs, a \in Nat : Claim(m, a)' => Claim(m, a)
  BY <1>1, <1>3, <1>4, <1>5 DEF Claim
<1>9. Claims' BY <1>1, <1>8, ClaimsKept
<1>10. OnceQueued'
  <2>1. \A i, k \in 1..Len(queue') : queue'[i].at = queue'[k].at => i = k
    <3> TAKE i, k \in 1..Len(queue')
    <3> HAVE queue'[i].at = queue'[k].at
    <3>1. i + 1 = k + 1 BY <1>3 DEF OnceQueued
    <3> QED BY <1>3, <3>1
  <2>2. \A i \in 1..Len(queue') : queue'[i].at # flush'.at
    <3> TAKE i \in 1..Len(queue')
    <3>1. queue[i + 1].at = queue[1].at => i + 1 = 1 BY <1>3 DEF OnceQueued
    <3> QED BY <1>1, <1>3, <1>4, <3>1
  <2>3. restore'.pc = "finished" BY <1>1 DEF OnceQueued
  <2> QED BY <1>4, <2>1, <2>2, <2>3 DEF OnceQueued
<1>11. \A a \in Held : a \in Held'
  <2> TAKE a \in Held
  <2>1. CASE a = flush.at BY <1>4, <1>5, <1>7, <2>1, HeldIffNext
  <2>2. CASE a # flush.at
    <3>1. PICK i \in 1..Len(queue) : queue[i].at = a BY <2>2, HeldIff
    <3>2. i # 1 BY <1>1, <2>2, <3>1
    <3>3. i - 1 \in 1..Len(queue') /\ i \in Int BY <1>3, <3>2
    <3>4. queue'[i - 1] = queue[(i - 1) + 1] BY <1>3, <3>3
    <3>5. queue'[i - 1].at = a BY <3>1, <3>3, <3>4
    <3> QED BY <1>7, <3>3, <3>5, HeldIffNext
  <2> QED BY <2>1, <2>2
<1>12. PendingIsHeld' BY <1>1, <1>7, <1>11, PendingKept
<1> QED BY <1>7, <1>9, <1>10, <1>12

\* The outcome of a delivery settles the entry in hand.
LEMMA SettleKeeps ==
  ASSUME QueueCore, flush.pc = "deliver", NEW r, r # "pending", FlushSettles(r)
  PROVE  QueueCore'
<1> USE DEF QueueCore
<1>1. /\ flush' = [pc |-> "head", m |-> NoMsg, at |-> 0]
      /\ store' = Unpersist(store, {flush.m})
      /\ flushed' = Settle(flushed, {flush.at}, r)
      /\ UNCHANGED <<queue, clock, restore>>
  BY DEF FlushSettles, NoFlush, life
<1>2. store' \in [Msgs -> Nat] /\ \A m \in Msgs : store'[m] \in {0, store[m]}
  BY <1>1 DEF Unpersist, QueueTypes
<1>3. /\ DOMAIN flushed' = 1..MaxEntries
      /\ \A a \in 1..MaxEntries : flushed'[a] = "pending" =>
           flushed[a] = "pending" /\ a # flush.at
  BY <1>1 DEF Settle, QueueTypes
<1>4. ~InHand' BY <1>1 DEF InHand
<1>5. QueueTypes' BY <1>1, <1>2, <1>3, <1>4 DEF QueueTypes
<1>6. \A m \in Msgs, a \in Nat : Claim(m, a)' => Claim(m, a)
  BY <1>1, <1>2, <1>4 DEF Claim
<1>7. Claims' BY <1>1, <1>6, ClaimsKept
<1>8. OnceQueued' BY <1>1 DEF OnceQueued
<1>9. \A a \in Held : a # flush.at => a \in Held'
  BY <1>1, <1>5, HeldIff, HeldIffNext
<1>10. PendingIsHeld' BY <1>3, <1>5, <1>9, PendingKept
<1> QED BY <1>5, <1>7, <1>8, <1>10

\* The entry in hand goes back to the head.
LEMMA RequeueKeeps ==
  ASSUME QueueCore, FlushRequeues
  PROVE  QueueCore'
<1> USE DEF QueueCore
<1>1. /\ flush.pc = "deliver"
      /\ queue' = <<[m |-> flush.m, at |-> flush.at]>> \o queue
      /\ flush' = [pc |-> "idle", m |-> NoMsg, at |-> 0]
      /\ UNCHANGED <<store, flushed, clock, restore>>
  BY DEF FlushRequeues, FlushJobEnds, EndFlush, NoFlush, life
<1>2. queue \in Seq(AnyEntry) /\ flush.m \in Msgs /\ flush.at \in Nat /\ InHand
  BY <1>1 DEF QueueTypes, InHand
<1>3. /\ queue' \in Seq(AnyEntry) /\ Len(queue') = Len(queue) + 1 /\ Len(queue) \in Nat
      /\ queue'[1].m = flush.m /\ queue'[1].at = flush.at
      /\ \A i \in 2..Len(queue') : queue'[i] = queue[i - 1] /\ i - 1 \in 1..Len(queue)
      /\ \A i \in 1..Len(queue) : queue'[i + 1] = queue[i] /\ i + 1 \in 1..Len(queue')
  BY <1>1, <1>2 DEF AnyEntry
<1>4. ~InHand' BY <1>1 DEF InHand
<1>5. QueueTypes' BY <1>1, <1>3, <1>4 DEF QueueTypes
<1>6. ASSUME NEW m \in Msgs, NEW a \in Nat, Claim(m, a)'
      PROVE  Claim(m, a)
  <2>1. CASE \E i \in 1..Len(queue') : queue'[i].m = m /\ queue'[i].at = a
    <3>1. PICK i \in 1..Len(queue') : queue'[i].m = m /\ queue'[i].at = a BY <2>1
    <3>2. CASE i = 1 BY <1>2, <1>3, <3>1, <3>2 DEF Claim
    <3>3. CASE i # 1 BY <1>3, <3>1, <3>3 DEF Claim
    <3> QED BY <3>2, <3>3
  <2>2. CASE ~\E i \in 1..Len(queue') : queue'[i].m = m /\ queue'[i].at = a
    BY <1>1, <1>4, <1>6, <2>2 DEF Claim
  <2> QED BY <2>1, <2>2
<1>7. Claims' BY <1>1, <1>6, ClaimsKept
<1>8. OnceQueued'
  <2>1. \A i \in 1..Len(queue) : queue[i].at # flush.at BY <1>1 DEF OnceQueued
  <2>2. \A i, k \in 1..Len(queue') : queue'[i].at = queue'[k].at => i = k
    <3> TAKE i, k \in 1..Len(queue')
    <3> HAVE queue'[i].at = queue'[k].at
    <3>1. CASE i = 1 \/ k = 1
      <4>1. \A j \in 1..Len(queue') : j # 1 => queue'[j].at # flush.at
        <5> TAKE j \in 1..Len(queue')
        <5> HAVE j # 1
        <5>1. j \in 2..Len(queue') BY <1>3
        <5> QED BY <1>3, <2>1, <5>1
      <4> QED BY <1>3, <3>1, <4>1
    <3>2. CASE i # 1 /\ k # 1
      <4>1. queue[i - 1].at = queue[k - 1].at /\ i - 1 \in 1..Len(queue)
            /\ k - 1 \in 1..Len(queue)
        BY <1>3, <3>2
      <4>2. i - 1 = k - 1 BY <4>1 DEF OnceQueued
      <4> QED BY <1>3, <4>2
    <3> QED BY <3>1, <3>2
  <2> QED BY <1>1, <2>2 DEF OnceQueued
<1>9. \A a \in Held : a \in Held'
  <2> TAKE a \in Held
  <2>1. CASE a = flush.at
    <3>1. 1 \in 1..Len(queue') BY <1>3
    <3> QED BY <1>3, <1>5, <2>1, <3>1, HeldIffNext
  <2>2. CASE a # flush.at
    <3>1. PICK i \in 1..Len(queue) : queue[i].at = a BY <2>2, HeldIff
    <3>2. i + 1 \in 1..Len(queue') /\ queue'[i + 1].at = a BY <1>3, <3>1
    <3> QED BY <1>5, <3>2, HeldIffNext
  <2> QED BY <2>1, <2>2
<1>10. PendingIsHeld' BY <1>1, <1>5, <1>9, PendingKept
<1> QED BY <1>5, <1>7, <1>8, <1>10

\* A reload drops the queue; its receipts are gone with the page.
LEMMA ReloadKeeps ==
  ASSUME QueueCore, PageReloads
  PROVE  QueueCore'
<1> USE DEF QueueCore
<1>1. /\ queue' = <<>> /\ flush' = [pc |-> "idle", m |-> NoMsg, at |-> 0]
      /\ restore' = [pc |-> "reading", read |-> NothingRead]
      /\ flushed' = [a \in 1..MaxEntries |->
                       IF flushed[a] = "pending" THEN "gone" ELSE flushed[a]]
      /\ UNCHANGED <<store, clock>>
  BY DEF PageReloads, NoFlush
<1>2. ~InHand' BY <1>1 DEF InHand
<1>3. /\ Len(queue') = 0 /\ 1..Len(queue') = {} /\ queue' \in Seq(AnyEntry)
      /\ DOMAIN flushed' = 1..MaxEntries
      /\ \A m \in Msgs : restore'.read[m] = 0
      /\ restore' \in [pc : {"reading", "merging", "finished"}, read : [Msgs -> Nat]]
  BY <1>1 DEF NothingRead
<1>4. QueueTypes' BY <1>1, <1>2, <1>3 DEF QueueTypes
<1>5. \A m \in Msgs, a \in Nat : Claim(m, a)' => Claim(m, a)
  BY <1>1, <1>2, <1>3 DEF Claim
<1>6. Claims' BY <1>1, <1>5, ClaimsKept
<1>7. OnceQueued' BY <1>1, <1>3 DEF OnceQueued
<1>8. PendingIsHeld' BY <1>1 DEF PendingIsHeld
<1> QED BY <1>4, <1>6, <1>7, <1>8

LEMMA ReadKeeps ==
  ASSUME QueueCore, RestoreReads
  PROVE  QueueCore'
<1> USE DEF QueueCore
<1>1. /\ restore.pc = "reading" /\ restore' = [pc |-> "merging", read |-> store]
      /\ UNCHANGED <<queue, flush, flushed, store, clock>>
  BY DEF RestoreReads, queueing, flushing
<1>2. QueueTypes' BY <1>1 DEF QueueTypes, InHand
<1>3. \A m \in Msgs, a \in Nat : Claim(m, a)' => Claim(m, a)
  BY <1>1 DEF Claim, InHand
<1>4. Claims' BY <1>1, <1>3, ClaimsKept
<1>5. OnceQueued' BY <1>1 DEF OnceQueued
<1>6. PendingIsHeld' BY <1>1 DEF PendingIsHeld, Held, Entries
<1> QED BY <1>2, <1>4, <1>5, <1>6

----------------------------------------------------------------------------
\* What a restore appends: the records it read that are not queued already.
Missing == {[m |-> m, at |-> restore.read[m]] :
              m \in {n \in Msgs : restore.read[n] # 0
                                  /\ n \notin {e.m : e \in Entries(queue)}}}

LEMMA MissingEntries ==
  ASSUME QueueTypes, Claims
  PROVE  /\ IsFiniteSet(Missing) /\ Cardinality(Missing) \in Nat
         /\ \A e \in Missing :
              /\ e \in AnyEntry /\ e.at # 0 /\ restore.read[e.m] = e.at
              /\ \A i \in 1..Len(queue) : queue[i].m # e.m /\ queue[i].at # e.at
<1> DEFINE N == {n \in Msgs : restore.read[n] # 0
                               /\ n \notin {e.m : e \in Entries(queue)}}
           f == [n \in N |-> [m |-> n, at |-> restore.read[n]]]
<1>1. IsFiniteSet(N) BY ConstantsOK, FS_Subset
<1>2. f \in Surjection(N, Missing) BY DEF Surjection, Missing
<1>3. IsFiniteSet(Missing) BY <1>1, <1>2, FS_Surjection
<1>4. ASSUME NEW e \in Missing
      PROVE  /\ e \in AnyEntry /\ e.at # 0 /\ restore.read[e.m] = e.at
             /\ \A i \in 1..Len(queue) : queue[i].m # e.m /\ queue[i].at # e.at
  <2>1. PICK n \in N : e = [m |-> n, at |-> restore.read[n]] BY DEF Missing
  <2>2. n \in Msgs /\ restore.read[n] \in Nat /\ restore.read[n] # 0
        /\ e.m = n /\ e.at = restore.read[n] /\ e \in AnyEntry
    BY <2>1 DEF QueueTypes, AnyEntry
  <2>3. ASSUME NEW i \in 1..Len(queue) PROVE queue[i].m # n /\ queue[i].at # e.at
    <3>1. queue[i].m # n BY <2>1 DEF Entries
    <3>2. queue[i] \in AnyEntry BY DEF QueueTypes
    <3>3. queue[i].m \in Msgs /\ queue[i].at \in Nat BY <3>2 DEF AnyEntry
    <3>4. Claim(queue[i].m, queue[i].at) /\ Claim(n, restore.read[n])
      BY <2>2 DEF Claim
    <3> QED BY <2>2, <3>1, <3>3, <3>4 DEF Claims
  <2> QED BY <2>2, <2>3
<1> QED BY <1>3, <1>4, FS_CardinalityType

\* The queue with them appended: no overflow below the limit.
LEMMA MergeEffect ==
  ASSUME QueueTypes, Claims, OnceQueued, RestoreMerges, Room'
  PROVE  \E s \in ByQueuedAt(Missing) :
           /\ s \in Seq(AnyEntry) /\ Len(s) = Cardinality(Missing)
           /\ \A i \in 1..Len(s) : s[i] \in Missing
           /\ queue' = queue \o s /\ queue' \in Seq(AnyEntry)
           /\ \A i, k \in 1..Len(queue') : queue'[i].at = queue'[k].at => i = k
           /\ store' = store
           /\ DOMAIN flushed' = 1..MaxEntries
           /\ \A a \in 1..MaxEntries : flushed'[a] = "pending" => flushed[a] = "pending"
<1> USE ConstantsOK
<1>1. PICK s \in ByQueuedAt(Missing) :
        LET q == queue \o s IN
        /\ queue' = Kept(q)
        /\ store' = Unpersist(store, {d.m : d \in Dropped(q)})
        /\ flushed' = Settle(flushed, {d.at : d \in Dropped(q)}, "dropped")
  BY DEF RestoreMerges, Missing
<1>2. /\ s \in [1..Cardinality(Missing) -> Missing]
      /\ \A i, k \in 1..Cardinality(Missing) : i < k => s[i].at < s[k].at
      /\ Cardinality(Missing) \in Nat
  BY MissingEntries DEF ByQueuedAt
<1>3. /\ s \in Seq(AnyEntry) /\ Len(s) = Cardinality(Missing)
      /\ \A i \in 1..Len(s) : s[i] \in Missing
  <2>1. \A e \in Missing : e \in AnyEntry BY MissingEntries
  <2> QED BY <1>2, <2>1
<1> DEFINE q == queue \o s
<1>4. queue \in Seq(AnyEntry) /\ clock \in Nat /\ Len(queue) \in Nat BY DEF QueueTypes
<1>5. /\ q \in Seq(AnyEntry) /\ Len(q) = Len(queue) + Len(s)
      /\ \A i \in 1..Len(queue) : q[i] = queue[i]
      /\ \A i \in 1..Len(q) : i > Len(queue) => /\ i - Len(queue) \in 1..Len(s)
                                               /\ q[i] = s[i - Len(queue)]
  BY <1>3, <1>4
<1> HIDE DEF q
<1>6. ASSUME NEW i \in 1..Len(q)
      PROVE  /\ q[i].m \in Msgs /\ q[i].at \in Nat
             /\ Claim(q[i].m, q[i].at)
  <2>1. q[i] \in AnyEntry BY <1>5
  <2>2. q[i].m \in Msgs /\ q[i].at \in Nat BY <2>1 DEF AnyEntry
  <2>3. CASE i <= Len(queue)
    <3>1. i \in 1..Len(queue) /\ queue[i] = q[i] BY <1>4, <1>5, <2>3
    <3>2. queue[i].m = q[i].m /\ queue[i].at = q[i].at BY <3>1
    <3>3. \E k \in 1..Len(queue) : queue[k].m = q[i].m /\ queue[k].at = q[i].at
      BY <3>1, <3>2
    <3>4. Claim(q[i].m, q[i].at) BY <3>3 DEF Claim
    <3> QED BY <2>2, <3>4
  <2>4. CASE ~(i <= Len(queue))
    <3>0. i > Len(queue) BY <1>4, <1>5, <2>4
    <3>1. q[i] \in Missing BY <1>3, <1>5, <3>0
    <3>2. restore.read[q[i].m] = q[i].at /\ q[i].at # 0 BY <3>1, MissingEntries
    <3> QED BY <2>2, <3>2 DEF Claim
  <2> QED BY <2>2, <2>3, <2>4
<1>7. \A i \in 1..Len(q) : q[i].at \in 1..clock
  <2> TAKE i \in 1..Len(q)
  <2>1. q[i].m \in Msgs /\ q[i].at \in Nat /\ Claim(q[i].m, q[i].at) BY <1>6
  <2>2. q[i].at >= 1 /\ q[i].at <= clock BY <2>1 DEF Claims
  <2> QED BY <1>4, <2>1, <2>2
<1>8. ASSUME NEW i \in 1..Len(q), NEW k \in 1..Len(q), i < k PROVE q[i].at # q[k].at
  <2>1. CASE k <= Len(queue)
    <3>1. i \in 1..Len(queue) /\ k \in 1..Len(queue) BY <1>4, <1>8, <2>1
    <3>2. q[i] = queue[i] /\ q[k] = queue[k] BY <1>5, <3>1
    <3>3. queue[i].at = queue[k].at => i = k BY <3>1 DEF OnceQueued
    <3> QED BY <1>8, <3>2, <3>3
  <2>2. CASE i <= Len(queue) /\ ~(k <= Len(queue))
    <3>1. i \in 1..Len(queue) /\ q[i] = queue[i] BY <1>4, <1>5, <2>2
    <3>0. k > Len(queue) BY <1>4, <1>5, <2>2
    <3>2. q[k] \in Missing BY <1>3, <1>5, <3>0
    <3> QED BY <3>1, <3>2, MissingEntries
  <2>3. CASE ~(i <= Len(queue))
    <3>1. /\ i - Len(queue) \in 1..Len(s) /\ k - Len(queue) \in 1..Len(s)
          /\ i - Len(queue) < k - Len(queue)
          /\ q[i] = s[i - Len(queue)] /\ q[k] = s[k - Len(queue)]
      BY <1>4, <1>5, <1>8, <2>3
    <3>2. q[i].at < q[k].at BY <1>2, <1>3, <3>1
    <3> QED BY <1>6, <3>2
  <2> QED BY <1>4, <1>8, <2>1, <2>2, <2>3
<1>9. \A i, k \in 1..Len(q) : q[i].at = q[k].at => i = k
  <2> TAKE i, k \in 1..Len(q)
  <2> HAVE q[i].at = q[k].at
  <2>1. i \in Int /\ k \in Int BY <1>5
  <2> QED BY <1>8, <2>1
<1>10. Len(q) <= QueueMax
  <2>1. Len(q) <= clock BY <1>4, <1>5, <1>7, <1>9, Pigeons
  <2>2. clock' = clock /\ queue' = Kept(q) BY <1>1 DEF RestoreMerges, q
  <2>3. Len(q) \in Nat /\ QueueMax \in Nat BY <1>5
  <2>4. CASE clock' <= QueueMax BY <1>4, <2>1, <2>2, <2>3, <2>4
  <2>5. CASE Len(queue') < QueueMax BY <1>5, <2>2, <2>5, KeptBelowLimit
  <2> QED BY <2>4, <2>5 DEF Room
<1>11. Kept(q) = q /\ Dropped(q) = {} BY <1>5, <1>10, NothingDropped
<1>12. queue' = q /\ store' = store /\ DOMAIN flushed' = 1..MaxEntries
       /\ \A a \in 1..MaxEntries : flushed'[a] = "pending" => flushed[a] = "pending"
  <2>1. /\ queue' = Kept(q)
        /\ store' = Unpersist(store, {d.m : d \in Dropped(q)})
        /\ flushed' = Settle(flushed, {d.at : d \in Dropped(q)}, "dropped")
    BY <1>1 DEF q
  <2> QED BY <1>11, <2>1 DEF Unpersist, Settle, QueueTypes
<1>13. queue' = queue \o s BY <1>12 DEF q
<1> WITNESS s \in ByQueuedAt(Missing)
<1> QED BY <1>3, <1>5, <1>9, <1>12, <1>13

LEMMA MergeKeeps ==
  ASSUME QueueCore, RestoreMerges, Room'
  PROVE  QueueCore'
<1> USE DEF QueueCore
<1>1. PICK s \in ByQueuedAt(Missing) :
           /\ s \in Seq(AnyEntry)
           /\ \A i \in 1..Len(s) : s[i] \in Missing
           /\ queue' = queue \o s /\ queue' \in Seq(AnyEntry)
           /\ \A i, k \in 1..Len(queue') : queue'[i].at = queue'[k].at => i = k
           /\ store' = store
           /\ DOMAIN flushed' = 1..MaxEntries
           /\ \A a \in 1..MaxEntries : flushed'[a] = "pending" => flushed[a] = "pending"
  BY MergeEffect
<1>2. /\ restore.pc = "merging" /\ UNCHANGED <<clock, flush>>
      /\ restore' = [pc |-> "finished", read |-> NothingRead]
  BY DEF RestoreMerges
<1>3. flush.pc = "idle" /\ ~InHand /\ ~InHand' BY <1>2 DEF OnceQueued, InHand, QueueTypes
<1>4. restore' \in [pc : {"reading", "merging", "finished"}, read : [Msgs -> Nat]]
      /\ \A m \in Msgs : restore'.read[m] = 0
  BY <1>2 DEF NothingRead
<1>5. QueueTypes' BY <1>1, <1>2, <1>3, <1>4 DEF QueueTypes
<1>6. queue \in Seq(AnyEntry) /\ Len(queue) \in Nat BY DEF QueueTypes
<1>7. /\ Len(queue') = Len(queue) + Len(s) /\ Len(s) \in Nat
      /\ \A i \in 1..Len(queue) : queue'[i] = queue[i] /\ i \in 1..Len(queue')
      /\ \A i \in 1..Len(queue') : i > Len(queue) => /\ i - Len(queue) \in 1..Len(s)
                                                    /\ queue'[i] = s[i - Len(queue)]
  BY <1>1, <1>6
<1>8. ASSUME NEW m \in Msgs, NEW a \in Nat, Claim(m, a)'
      PROVE  Claim(m, a)
  <2>1. ASSUME NEW i \in 1..Len(queue'), queue'[i].m = m, queue'[i].at = a
        PROVE  Claim(m, a)
    <3>1. CASE i <= Len(queue)
      <4>1. i \in 1..Len(queue) BY <1>6, <3>1
      <4> QED BY <1>7, <2>1, <4>1 DEF Claim
    <3>2. CASE ~(i <= Len(queue))
      <4>1. queue'[i] \in Missing BY <1>1, <1>6, <1>7, <3>2
      <4>2. restore.read[m] = a /\ a # 0 BY <2>1, <4>1, MissingEntries
      <4> QED BY <4>2 DEF Claim
    <3> QED BY <3>1, <3>2
  <2>2. CASE store'[m] = a /\ a # 0 BY <1>1, <2>2 DEF Claim
  <2> QED BY <1>3, <1>4, <1>8, <2>1, <2>2 DEF Claim
<1>9. Claims' BY <1>2, <1>8, ClaimsKept
<1>10. OnceQueued' BY <1>1, <1>2, <1>3 DEF OnceQueued
<1>11. \A a \in Held : a \in Held'
  BY <1>3, <1>5, <1>7, HeldIff, HeldIffNext
<1>12. PendingIsHeld' BY <1>1, <1>5, <1>11, PendingKept
<1> QED BY <1>5, <1>9, <1>10, <1>12

----------------------------------------------------------------------------
LEMMA QueueCoreStep == QueueCore /\ Room' /\ [Next]_vars => QueueCore'
<1> SUFFICES ASSUME QueueCore, Room', [Next]_vars PROVE QueueCore'
  OBVIOUS
<1>1. CASE UNCHANGED <<queue, flush, flushed, store, restore, clock>>
  BY <1>1, QueueUntouched
<1>2. CASE \E m \in Msgs : Call(m) \/ Resolve(m)
  <2>1. ASSUME NEW m \in Msgs, PeerOffline(m) PROVE QueueCore'
    BY <2>1, EnqueueKeeps DEF PeerOffline, life
  <2> QED BY <1>1, <1>2, <2>1 DEF Resolve, Call, TargetsFound, StoredOnServer,
          queueing, flushing, life
<1>3. ASSUME NEW j \in Jobs, Delivery(j) PROVE QueueCore'
  <2>1. ASSUME NEW s \in Sids, SendFails(j, s) PROVE QueueCore'
    <3>1. j[2] \in Msgs BY DEF Jobs
    <3>2. restore' = restore BY <2>1 DEF SendFails, life
    <3>3. CASE Enqueue(j[2]) BY <3>1, <3>2, <3>3, EnqueueKeeps
    <3>4. CASE UNCHANGED <<queueing, flushing>>
      BY <1>1, <3>2, <3>4 DEF queueing, flushing
    <3> QED BY <2>1, <3>3, <3>4 DEF SendFails
  <2> QED BY <1>1, <1>3, <2>1 DEF Delivery, SendOk, BeginWait, NothingSent,
          AckTimeout, Awaited, queueing, flushing, life
<1>4. CASE FlushRequested \/ TimerFires \/ Age
  BY <1>1, <1>4 DEF FlushRequested, TimerFires, Age, queueing, flushing, life
<1>5. CASE Flushing
  <2>1. CASE FlushDelivered
    <3>1. flush.pc = "deliver" /\ FlushSettles("delivered")
      BY <2>1 DEF FlushDelivered, FlushJobEnds
    <3> QED BY <3>1, SettleKeeps
  <2>2. CASE FlushFailed
    <3>1. flush.pc = "deliver" /\ FlushSettles("failed")
      BY <2>2 DEF FlushFailed, FlushJobEnds
    <3> QED BY <3>1, SettleKeeps
  <2> QED BY <1>5, <2>1, <2>2, FlushLooks, ExpireKeeps, DeliverKeeps, RequeueKeeps
          DEF Flushing
<1>6. CASE PageReloads BY <1>6, ReloadKeeps
<1>7. CASE Restoring BY <1>7, ReadKeeps, MergeKeeps DEF Restoring
<1>8. CASE Link \/ Peer
  BY <1>1, <1>8 DEF Link, Lose, AckArrives, Peer, ArrivesAgain, NoHandler,
     HandlerStarts, HandlerReturns, HandlerFails, PeerReloads, queueing, flushing,
     life
<1> QED BY <1>1, <1>2, <1>3, <1>4, <1>5, <1>6, <1>7, <1>8
        DEF Next, vars, queueing, flushing, life

LEMMA InitQueueCore == Init => QueueCore
<1> SUFFICES ASSUME Init PROVE QueueCore OBVIOUS
<1>1. /\ queue = <<>> /\ Len(queue) = 0 /\ 1..Len(queue) = {}
      /\ flush = [pc |-> "idle", m |-> NoMsg, at |-> 0]
      /\ clock = 0 /\ store = [m \in Msgs |-> 0]
      /\ restore = [pc |-> "reading", read |-> [m \in Msgs |-> 0]]
      /\ flushed = [a \in 1..MaxEntries |-> "none"]
  BY DEF Init, NoFlush, NothingRead
<1>2. queue \in Seq(AnyEntry) BY <1>1
<1>3. ~InHand BY <1>1 DEF InHand
<1>4. QueueTypes BY <1>1, <1>2, <1>3 DEF QueueTypes
<1>5. Claims BY <1>1, <1>3 DEF Claims, Claim
<1>6. OnceQueued BY <1>1 DEF OnceQueued
<1>7. PendingIsHeld BY <1>1 DEF PendingIsHeld
<1> QED BY <1>4, <1>5, <1>6, <1>7 DEF QueueCore

\* While the queue does not reach its limit, a receipt that is not settled has
\* its entry, in the queue or in the hands of the running flush: whatever the
\* awaits of _flushQueue, the reloads and the restores let in between, the
\* shift after the await takes out the entry that was read before it.
THEOREM PendingIsHeldHolds == Spec /\ []Room => []PendingIsHeld
<1>1. QueueCore => PendingIsHeld BY DEF QueueCore
<1> QED BY <1>1, InitQueueCore, QueueCoreStep, PTL DEF Spec

\* Each session of a message is queued for at most once, so the clock is within
\* the number of the spent ones.
LEMMA CountedStep == JobTypes /\ Counted /\ [Next]_vars => Counted'
<1> SUFFICES ASSUME JobTypes, Counted, [Next]_vars PROVE Counted'
  OBVIOUS
<1>0. /\ Spent \subseteq Spent' /\ Cardinality(Spent) \in Nat
      /\ Cardinality(Spent') \in Nat
      /\ Cardinality(Spent) <= Cardinality(Spent')
      /\ Spent # Spent' => Cardinality(Spent) < Cardinality(Spent')
  <2>1. Spent \subseteq Spent' BY SpentGrows
  <2>2. Spent \subseteq Msgs \X Sids /\ Spent' \subseteq Msgs \X Sids BY DEF Spent
  <2> QED BY <2>1, <2>2, SpentFinite
<1>1. CASE clock' = clock BY <1>0, <1>1 DEF Counted
<1>2. ASSUME NEW m \in Msgs, Enqueue(m),
             \/ PeerOffline(m)
             \/ \E s \in Sids : /\ SendFails(Direct(m), s)
                                /\ job[Direct(m)].pc = "send"
      PROVE  Counted'
  <2>1. \E s \in Sids : <<m, s>> \in Spent' /\ <<m, s>> \notin Spent
    BY <1>2, EnqueueSpends
  <2>2. Spent # Spent' BY <2>1
  <2>3. clock' = clock + 1 BY <1>2 DEF Enqueue
  <2> QED BY <1>0, <2>2, <2>3 DEF Counted
<1>3. CASE \E m \in Msgs : Call(m) \/ Resolve(m)
  <2>1. ASSUME NEW m \in Msgs, PeerOffline(m) PROVE Counted'
    BY <1>2, <2>1 DEF PeerOffline
  <2> QED BY <1>1, <1>3, <2>1 DEF Resolve, Call, TargetsFound, StoredOnServer,
          queueing
<1>4. ASSUME NEW j \in Jobs, Delivery(j) PROVE Counted'
  <2>1. ASSUME NEW s \in Sids, SendFails(j, s) PROVE Counted'
    <3>1. CASE UNCHANGED <<queueing, flushing>> BY <1>1, <3>1 DEF queueing
    <3>2. CASE j[1] = "direct" /\ job[j].pc = "send" /\ Enqueue(j[2])
      <4>1. j = Direct(j[2]) /\ j[2] \in Msgs BY <3>2 DEF Direct, Jobs
      <4> QED BY <1>2, <2>1, <3>2, <4>1
    <3> QED BY <2>1, <3>1, <3>2 DEF SendFails
  <2> QED BY <1>1, <1>4, <2>1 DEF Delivery, SendOk, BeginWait, NothingSent,
          AckTimeout, Awaited, queueing
<1>5. CASE ~(\E m \in Msgs : Call(m) \/ Resolve(m)) /\ ~(\E j \in Jobs : Delivery(j))
  <2>1. CASE Flushing
    BY <1>1, <2>1 DEF Flushing, FlushStarts, FlushExpires, FlushTakesHead,
       FlushDrained, FlushUnreachable, FlushDelivers, FlushDelivered, FlushFailed,
       FlushSettles, FlushRequeues, queueing
  <2>2. CASE FlushRequested \/ TimerFires \/ Age \/ PageReloads \/ Restoring
    BY <1>1, <2>2 DEF FlushRequested, TimerFires, Age, PageReloads, Restoring,
       RestoreReads, RestoreMerges, queueing
  <2>3. CASE Link \/ Peer
    BY <1>1, <2>3 DEF Link, Lose, AckArrives, Peer, ArrivesAgain, NoHandler,
       HandlerStarts, HandlerReturns, HandlerFails, PeerReloads, queueing
  <2>4. CASE UNCHANGED vars BY <1>1, <2>4 DEF vars, queueing
  <2> QED BY <1>5, <2>1, <2>2, <2>3, <2>4 DEF Next
<1> QED BY <1>3, <1>4, <1>5

\* A page that queues no more messages than the queue holds never fills it.
THEOREM FewMessagesFit ==
  ASSUME MaxEntries <= QueueMax
  PROVE  Spec => []Room
<1>1. Init => AckInv
  BY ConstantsOK DEF Init, AckInv, LinkTypes, JobTypes, WaiterTypes, AnyJob, Idle,
     JobResults, PlainInNet, PlainInRecent, PlainInJobs
<1>2. Init => Counted
  <2>1. Spent \subseteq Msgs \X Sids BY DEF Spent
  <2> QED BY <2>1, SpentFinite DEF Init, Counted
<1>3. Counted => Room
  <2>1. Spent \subseteq Msgs \X Sids BY DEF Spent
  <2>2. Cardinality(Spent) <= MaxEntries /\ Cardinality(Spent) \in Nat
        /\ MaxEntries \in Nat /\ QueueMax \in Nat
    BY <2>1, SpentFinite, ConstantsOK
  <2> QED BY <2>2 DEF Counted, Room
<1>4. AckInv => JobTypes BY DEF AckInv
<1> QED BY <1>1, <1>2, <1>3, <1>4, AckInvStep, CountedStep, PTL DEF Spec

----------------------------------------------------------------------------
(* The persisted queue.  A record is kept under the msgId, so with one       *)
(* session a record and its entry belong together; two sessions of one       *)
(* message share a record.                                                   *)

InQueue(m, a) == \E i \in 1..Len(queue) : queue[i].m = m /\ queue[i].at = a

\* Every entry has its record.
EntryRecorded == \A i \in 1..Len(queue) : store[queue[i].m] = queue[i].at
HandRecorded == InHand => store[flush.m] = flush.at
\* Every record has its entry once the restore is over.
RecordHeld ==
  restore.pc = "finished" => \A m \in Msgs : store[m] # 0 =>
    InQueue(m, store[m]) \/ (InHand /\ flush.m = m)
\* What was persisted is not queued again.
RecordSpent == \A m \in Msgs : store[m] # 0 => \A s \in Sids : <<m, s>> \in Spent
\* What the restore has read is what the store still holds, but for new entries.
ReadCurrent ==
  restore.pc = "merging" => \A m \in Msgs :
    /\ restore.read[m] # 0 => store[m] = restore.read[m]
    /\ store[m] # 0 => restore.read[m] = store[m] \/ InQueue(m, store[m])

MirrorInv == EntryRecorded /\ HandRecorded /\ RecordHeld /\ RecordSpent /\ ReadCurrent
MirrorCore == EntryRecorded /\ HandRecorded /\ RecordHeld /\ ReadCurrent

\* A step that only removes records leaves the others spent.
LEMMA RecordSpentKept ==
  ASSUME JobTypes, [Next]_vars, RecordSpent,
         \A m \in Msgs : store'[m] # 0 => store[m] # 0
  PROVE  RecordSpent'
BY SpentGrows DEF RecordSpent

LEMMA MirrorUntouched ==
  ASSUME MirrorCore, UNCHANGED <<queue, flush, store, restore>>
  PROVE  MirrorCore'
<1> USE DEF MirrorCore
<1>1. EntryRecorded' BY DEF EntryRecorded
<1>2. HandRecorded' BY DEF HandRecorded, InHand
<1>3. \A m \in Msgs, a \in Nat : InQueue(m, a)' <=> InQueue(m, a) BY DEF InQueue
<1>4. RecordHeld' BY DEF RecordHeld, InQueue, InHand
<1>5. ReadCurrent' BY DEF ReadCurrent, InQueue
<1> QED BY <1>1, <1>2, <1>4, <1>5

\* #enqueueMessage: the record is made with the entry.
LEMMA EnqueueMirrors ==
  ASSUME QueueCore, MirrorCore, NEW w \in Msgs, store[w] = 0, Enqueue(w), Room',
         restore' = restore
  PROVE  MirrorCore'
<1> USE DEF QueueCore, MirrorCore
<1>1. /\ clock' = clock + 1 /\ flush' = flush
      /\ queue' = Append(queue, [m |-> w, at |-> clock + 1])
      /\ store' = [store EXCEPT ![w] = clock + 1]
  BY EnqueueEffect
<1>2. queue \in Seq(AnyEntry) /\ clock \in Nat /\ Len(queue) \in Nat
      /\ store \in [Msgs -> Nat]
  BY DEF QueueTypes
<1>3. [m |-> w, at |-> clock + 1] \in AnyEntry BY <1>2 DEF AnyEntry
<1>4. /\ Len(queue') = Len(queue) + 1
      /\ \A i \in 1..Len(queue) : queue'[i] = queue[i] /\ i \in 1..Len(queue')
      /\ Len(queue') \in 1..Len(queue')
      /\ queue'[Len(queue')].m = w /\ queue'[Len(queue')].at = clock + 1
      /\ \A i \in 1..Len(queue') : i = Len(queue') \/ i \in 1..Len(queue)
  BY <1>1, <1>2, <1>3
<1>5. store'[w] = clock + 1 /\ \A m \in Msgs : m # w => store'[m] = store[m]
  BY <1>1, <1>2
<1>6. ASSUME NEW i \in 1..Len(queue)
      PROVE  queue[i].m \in Msgs /\ queue[i].m # w
  <2>1. queue[i] \in AnyEntry BY <1>2
  <2>2. queue[i].m \in Msgs /\ queue[i].at \in Nat BY <2>1 DEF AnyEntry
  <2>3. Claim(queue[i].m, queue[i].at) BY DEF Claim
  <2>4. queue[i].at >= 1 BY <2>2, <2>3 DEF Claims
  <2>5. store[queue[i].m] = queue[i].at BY DEF EntryRecorded
  <2>6. queue[i].at # 0 BY <2>2, <2>4
  <2> QED BY <2>2, <2>5, <2>6
<1>7. InHand => flush.m \in Msgs /\ flush.m # w
  <2> HAVE InHand
  <2>1. flush.m \in Msgs /\ flush.at \in Nat BY DEF QueueTypes
  <2>2. Claim(flush.m, flush.at) BY DEF Claim
  <2>3. flush.at >= 1 BY <2>1, <2>2 DEF Claims
  <2>4. flush.at # 0 BY <2>1, <2>3
  <2> QED BY <2>1, <2>4 DEF HandRecorded
<1>8. EntryRecorded'
  <2> SUFFICES ASSUME NEW i \in 1..Len(queue')
               PROVE  store'[queue'[i].m] = queue'[i].at
    BY DEF EntryRecorded
  <2>1. CASE i = Len(queue') BY <1>4, <1>5, <2>1
  <2>2. CASE i \in 1..Len(queue)
    <3>1. store[queue[i].m] = queue[i].at BY <2>2 DEF EntryRecorded
    <3> QED BY <1>4, <1>5, <1>6, <2>2, <3>1
  <2> QED BY <1>4, <2>1, <2>2
<1>9. HandRecorded' BY <1>1, <1>5, <1>7 DEF HandRecorded, InHand
<1>10. \A m \in Msgs : InQueue(m, store[m]) /\ m # w => InQueue(m, store[m])'
  BY <1>4, <1>5 DEF InQueue
<1>11. InQueue(w, store[w])' BY <1>4, <1>5 DEF InQueue
<1>12. RecordHeld' BY <1>1, <1>5, <1>10, <1>11 DEF RecordHeld, InHand
<1>13. ReadCurrent' BY <1>5, <1>10, <1>11 DEF ReadCurrent
<1> QED BY <1>8, <1>9, <1>12, <1>13

\* The queue and the store stay, the flush moves on, but keeps what it has taken.
LEMMA FlushLooksMirrors ==
  ASSUME QueueCore, MirrorCore,
         FlushStarts \/ FlushTakesHead \/ FlushDrained \/ FlushUnreachable
  PROVE  MirrorCore'
<1> USE DEF QueueCore, MirrorCore
<1>1. UNCHANGED <<queue, store, restore>>
  BY DEF FlushStarts, FlushTakesHead, FlushDrained, FlushUnreachable, queueing, life
<1>2. \/ flush' = flush
      \/ flush'.pc \in {"idle", "head"} /\ flush.pc # "deliver"
      \/ /\ flush'.m = Head(queue).m /\ flush'.at = Head(queue).at
         /\ queue # <<>> /\ flush.pc = "head" /\ flush'.pc = "resolve"
  BY DEF FlushStarts, FlushTakesHead, FlushDrained, FlushUnreachable, EndFlush, NoFlush
<1>3. queue # <<>> => Head(queue) = queue[1] /\ 1 \in 1..Len(queue)
  BY DEF QueueTypes
<1>4. CASE flush' = flush BY <1>1, <1>4, MirrorUntouched
<1>5. EntryRecorded' BY <1>1 DEF EntryRecorded
<1>6. \A m \in Msgs : InQueue(m, store[m]) => InQueue(m, store[m])'
  BY <1>1 DEF InQueue
<1>7. ReadCurrent' BY <1>1, <1>6 DEF ReadCurrent
<1>8. CASE flush'.pc \in {"idle", "head"} /\ flush.pc # "deliver"
  <2>1. HandRecorded' BY <1>8 DEF HandRecorded, InHand
  <2>2. InHand => InQueue(flush.m, store[flush.m])
    <3> HAVE InHand
    <3>1. flush.pc = "resolve" BY <1>8 DEF InHand
    <3>2. queue # <<>> /\ queue[1].m = flush.m /\ queue[1].at = flush.at
      BY <3>1 DEF OnceQueued
    <3>3. store[flush.m] = flush.at BY DEF HandRecorded
    <3> QED BY <1>3, <3>2, <3>3 DEF InQueue
  <2>3. RecordHeld' BY <1>1, <1>6, <2>2 DEF RecordHeld
  <2> QED BY <1>5, <1>7, <2>1, <2>3
<1>9. CASE /\ flush'.m = Head(queue).m /\ flush'.at = Head(queue).at
           /\ queue # <<>> /\ flush.pc = "head" /\ flush'.pc = "resolve"
  <2>1. HandRecorded' BY <1>1, <1>3, <1>9 DEF HandRecorded, EntryRecorded
  <2>2. RecordHeld' BY <1>1, <1>6, <1>9 DEF RecordHeld, InHand
  <2> QED BY <1>5, <1>7, <2>1, <2>2
<1> QED BY <1>2, <1>4, <1>8, <1>9

\* An entry that expires takes its record along, and no other.
LEMMA ExpireMirrors ==
  ASSUME QueueCore, MirrorCore, FlushExpires
  PROVE  MirrorCore'
<1> USE DEF QueueCore, MirrorCore
<1>1. /\ flush.pc = "head" /\ queue # <<>> /\ queue' = Tail(queue)
      /\ store' = Unpersist(store, {Head(queue).m})
      /\ UNCHANGED <<flush, restore>>
  BY DEF FlushExpires, flushing, life
<1>2. queue \in Seq(AnyEntry) BY DEF QueueTypes
<1>3. /\ Len(queue') = Len(queue) - 1 /\ Len(queue) \in Nat
      /\ \A i \in 1..Len(queue') : queue'[i] = queue[i + 1] /\ i + 1 \in 1..Len(queue)
      /\ \A i \in 1..Len(queue) : i # 1 => i - 1 \in 1..Len(queue')
      /\ Head(queue) = queue[1] /\ 1 \in 1..Len(queue)
  BY <1>1, <1>2, TailEntries
<1>4. \A m \in Msgs : store'[m] = IF m = queue[1].m THEN 0 ELSE store[m]
  BY <1>1, <1>3 DEF Unpersist, QueueTypes
<1>5. ~InHand /\ ~InHand' /\ restore.pc = "finished" BY <1>1 DEF InHand, OnceQueued
<1>6. EntryRecorded'
  <2> SUFFICES ASSUME NEW i \in 1..Len(queue')
               PROVE  store'[queue'[i].m] = queue'[i].at
    BY DEF EntryRecorded
  <2>1. queue'[i] = queue[i + 1] /\ i + 1 \in 1..Len(queue) /\ i + 1 # 1 BY <1>3
  <2>2. queue[i + 1] \in AnyEntry BY <1>2, <2>1
  <2>3. queue[i + 1].m \in Msgs BY <2>2 DEF AnyEntry
  <2>4. /\ store[queue[i + 1].m] = queue[i + 1].at
        /\ store[queue[1].m] = queue[1].at
    BY <1>3, <2>1 DEF EntryRecorded
  <2>5. queue[i + 1].at # queue[1].at BY <1>3, <2>1 DEF OnceQueued
  <2>6. queue[i + 1].m # queue[1].m BY <2>4, <2>5
  <2> QED BY <1>4, <2>1, <2>3, <2>4, <2>6
<1>7. HandRecorded' BY <1>5 DEF HandRecorded
<1>8. RecordHeld'
  <2> SUFFICES ASSUME NEW m \in Msgs, store'[m] # 0
               PROVE  InQueue(m, store[m])'
    BY DEF RecordHeld
  <2>1. m # queue[1].m /\ store'[m] = store[m] /\ store[m] # 0 BY <1>4
  <2>2. PICK i \in 1..Len(queue) : queue[i].m = m /\ queue[i].at = store[m]
    BY <1>5, <2>1 DEF RecordHeld, InQueue
  <2>3. i # 1 /\ i \in Int BY <2>1, <2>2
  <2>4. i - 1 \in 1..Len(queue') BY <1>3, <2>3
  <2>5. queue'[i - 1] = queue[(i - 1) + 1] BY <1>3, <2>4
  <2>6. queue'[i - 1].m = m /\ queue'[i - 1].at = store'[m] BY <2>1, <2>2, <2>3, <2>5
  <2> QED BY <2>4, <2>6 DEF InQueue
<1>9. ReadCurrent' BY <1>1, <1>5 DEF ReadCurrent
<1> QED BY <1>6, <1>7, <1>8, <1>9

\* The shift after the await takes out the entry in hand; its record stays.
LEMMA DeliverMirrors ==
  ASSUME QueueCore, MirrorCore, FlushDelivers
  PROVE  MirrorCore'
<1> USE DEF QueueCore, MirrorCore
<1>1. /\ flush.pc = "resolve" /\ queue # <<>>
      /\ queue[1].m = flush.m /\ queue[1].at = flush.at
      /\ queue' = Tail(queue) /\ flush' = [flush EXCEPT !.pc = "deliver"]
      /\ UNCHANGED <<store, restore>>
  BY DEF FlushDelivers, OnceQueued, life
<1>2. queue \in Seq(AnyEntry) BY DEF QueueTypes
<1>3. /\ Len(queue') = Len(queue) - 1 /\ Len(queue) \in Nat
      /\ \A i \in 1..Len(queue') : queue'[i] = queue[i + 1] /\ i + 1 \in 1..Len(queue)
      /\ \A i \in 1..Len(queue) : i # 1 => i - 1 \in 1..Len(queue')
  BY <1>1, <1>2, TailEntries
<1>4. flush'.pc = "deliver" /\ flush'.m = flush.m /\ flush'.at = flush.at
  BY <1>1 DEF QueueTypes
<1>5. InHand /\ InHand' /\ restore.pc = "finished" BY <1>1, <1>4 DEF InHand, OnceQueued
<1>6. EntryRecorded' BY <1>1, <1>3 DEF EntryRecorded
<1>7. HandRecorded' BY <1>1, <1>4, <1>5 DEF HandRecorded
<1>8. RecordHeld'
  <2> SUFFICES ASSUME NEW m \in Msgs, store[m] # 0, m # flush.m
               PROVE  InQueue(m, store[m])'
    BY <1>1, <1>4, <1>5 DEF RecordHeld
  <2>1. PICK i \in 1..Len(queue) : queue[i].m = m /\ queue[i].at = store[m]
    BY <1>5 DEF RecordHeld, InQueue
  <2>2. i # 1 /\ i \in Int BY <1>1, <2>1
  <2>3. i - 1 \in 1..Len(queue') BY <1>3, <2>2
  <2>4. queue'[i - 1] = queue[(i - 1) + 1] BY <1>3, <2>3
  <2>5. queue'[i - 1].m = m /\ queue'[i - 1].at = store'[m] BY <1>1, <2>1, <2>2, <2>4
  <2> QED BY <2>3, <2>5 DEF InQueue
<1>9. ReadCurrent' BY <1>1, <1>5 DEF ReadCurrent
<1> QED BY <1>6, <1>7, <1>8, <1>9

\* The settled entry's record goes, and no other entry had it.
LEMMA SettleMirrors ==
  ASSUME QueueCore, MirrorCore, flush.pc = "deliver", NEW r, FlushSettles(r)
  PROVE  MirrorCore'
<1> USE DEF QueueCore, MirrorCore
<1>1. /\ flush'.pc = "head" /\ store' = Unpersist(store, {flush.m})
      /\ UNCHANGED <<queue, restore>>
  BY DEF FlushSettles, NoFlush, life
<1>2. \A m \in Msgs : store'[m] = IF m = flush.m THEN 0 ELSE store[m]
  BY <1>1 DEF Unpersist, QueueTypes
<1>3. InHand /\ ~InHand' /\ restore.pc = "finished" BY <1>1 DEF InHand, OnceQueued
<1>4. EntryRecorded'
  <2> SUFFICES ASSUME NEW i \in 1..Len(queue)
               PROVE  store'[queue[i].m] = queue[i].at
    BY <1>1 DEF EntryRecorded
  <2>1. queue[i] \in AnyEntry BY DEF QueueTypes
  <2>2. queue[i].m \in Msgs BY <2>1 DEF AnyEntry
  <2>3. store[queue[i].m] = queue[i].at BY DEF EntryRecorded
  <2>4. queue[i].at # flush.at BY DEF OnceQueued
  <2>5. queue[i].m # flush.m BY <1>3, <2>3, <2>4 DEF HandRecorded
  <2> QED BY <1>2, <2>2, <2>3, <2>5
<1>5. HandRecorded' BY <1>3 DEF HandRecorded
<1>6. RecordHeld' BY <1>1, <1>2, <1>3 DEF RecordHeld, InQueue
<1>7. ReadCurrent' BY <1>1, <1>3 DEF ReadCurrent
<1> QED BY <1>4, <1>5, <1>6, <1>7

LEMMA RequeueMirrors ==
  ASSUME QueueCore, MirrorCore, FlushRequeues
  PROVE  MirrorCore'
<1> USE DEF QueueCore, MirrorCore
<1>1. /\ flush.pc = "deliver"
      /\ queue' = <<[m |-> flush.m, at |-> flush.at]>> \o queue
      /\ flush'.pc = "idle" /\ UNCHANGED <<store, restore>>
  BY DEF FlushRequeues, FlushJobEnds, EndFlush, NoFlush, life
<1>2. queue \in Seq(AnyEntry) /\ flush.m \in Msgs /\ flush.at \in Nat /\ InHand
  BY <1>1 DEF QueueTypes, InHand
<1>3. /\ Len(queue') = Len(queue) + 1 /\ Len(queue) \in Nat
      /\ queue'[1].m = flush.m /\ queue'[1].at = flush.at /\ 1 \in 1..Len(queue')
      /\ \A i \in 1..Len(queue') : i # 1 =>
           queue'[i] = queue[i - 1] /\ i - 1 \in 1..Len(queue)
      /\ \A i \in 1..Len(queue) : queue'[i + 1] = queue[i] /\ i + 1 \in 1..Len(queue')
  BY <1>1, <1>2 DEF AnyEntry
<1>4. store[flush.m] = flush.at /\ ~InHand' /\ restore.pc = "finished"
  BY <1>1, <1>2 DEF HandRecorded, InHand, OnceQueued
<1>5. EntryRecorded'
  <2> SUFFICES ASSUME NEW i \in 1..Len(queue')
               PROVE  store[queue'[i].m] = queue'[i].at
    BY <1>1 DEF EntryRecorded
  <2>1. CASE i = 1 BY <1>3, <1>4, <2>1
  <2>2. CASE i # 1
    <3>1. queue'[i] = queue[i - 1] /\ i - 1 \in 1..Len(queue) BY <1>3, <2>2
    <3>2. store[queue[i - 1].m] = queue[i - 1].at BY <3>1 DEF EntryRecorded
    <3> QED BY <3>1, <3>2
  <2> QED BY <2>1, <2>2
<1>6. HandRecorded' BY <1>4 DEF HandRecorded
<1>7. RecordHeld'
  <2> SUFFICES ASSUME NEW m \in Msgs, store[m] # 0
               PROVE  InQueue(m, store[m])'
    BY <1>1 DEF RecordHeld
  <2>1. CASE m = flush.m BY <1>1, <1>3, <1>4, <2>1 DEF InQueue
  <2>2. CASE m # flush.m
    <3>1. PICK i \in 1..Len(queue) : queue[i].m = m /\ queue[i].at = store[m]
      BY <1>4, <2>2 DEF RecordHeld, InQueue
    <3>2. i + 1 \in 1..Len(queue') /\ queue'[i + 1].m = m
          /\ queue'[i + 1].at = store'[m]
      BY <1>1, <1>3, <3>1
    <3> QED BY <3>2 DEF InQueue
  <2> QED BY <2>1, <2>2
<1>8. ReadCurrent' BY <1>1, <1>4 DEF ReadCurrent
<1> QED BY <1>5, <1>6, <1>7, <1>8

\* A reload empties the queue; a restore then reads the store as it is.
LEMMA ReloadMirrors ==
  ASSUME MirrorCore, PageReloads
  PROVE  MirrorCore'
<1>1. queue' = <<>> /\ flush'.pc = "idle" /\ restore'.pc = "reading"
  BY DEF PageReloads, NoFlush
<1>2. 1..Len(queue') = {} BY <1>1
<1> QED BY <1>1, <1>2 DEF MirrorCore, EntryRecorded, HandRecorded, RecordHeld,
        ReadCurrent, InHand

LEMMA ReadMirrors ==
  ASSUME MirrorCore, RestoreReads
  PROVE  MirrorCore'
<1>1. /\ restore'.pc = "merging" /\ restore'.read = store
      /\ UNCHANGED <<queue, flush, store>>
  BY DEF RestoreReads, queueing, flushing
<1> QED BY <1>1 DEF MirrorCore, EntryRecorded, HandRecorded, RecordHeld,
        ReadCurrent, InHand

\* The restore brings every record it has read into the queue.
LEMMA MergeMirrors ==
  ASSUME QueueCore, MirrorCore, RestoreMerges, Room'
  PROVE  MirrorCore'
<1> USE DEF QueueCore, MirrorCore
<1>1. PICK s \in ByQueuedAt(Missing) :
        /\ s \in Seq(AnyEntry) /\ Len(s) = Cardinality(Missing)
        /\ \A i \in 1..Len(s) : s[i] \in Missing
        /\ queue' = queue \o s /\ store' = store
  BY MergeEffect
<1>2. restore.pc = "merging" /\ restore'.pc = "finished" /\ flush' = flush
  BY DEF RestoreMerges
<1>3. ~InHand /\ ~InHand' BY <1>2 DEF OnceQueued, InHand, QueueTypes
<1>4. /\ queue \in Seq(AnyEntry) /\ Len(queue) \in Nat
      /\ s \in Seq(AnyEntry) /\ queue' = queue \o s
  BY <1>1 DEF QueueTypes
<1>5. /\ Len(queue') = Len(queue) + Len(s) /\ Len(s) \in Nat
      /\ \A i \in 1..Len(queue) : queue'[i] = queue[i] /\ i \in 1..Len(queue')
      /\ \A i \in 1..Len(queue') : i > Len(queue) => /\ i - Len(queue) \in 1..Len(s)
                                                    /\ queue'[i] = s[i - Len(queue)]
  BY <1>4
<1>5a. ASSUME NEW i \in 1..Len(s)
       PROVE  Len(queue) + i \in 1..Len(queue') /\ queue'[Len(queue) + i] = s[i]
  <2>1. /\ Len(queue) + i \in 1..Len(queue') /\ Len(queue) + i > Len(queue)
        /\ (Len(queue) + i) - Len(queue) = i
    BY <1>4, <1>5
  <2>2. queue'[Len(queue) + i] = s[(Len(queue) + i) - Len(queue)] BY <1>5, <2>1
  <2> QED BY <2>1, <2>2
<1>6. EntryRecorded'
  <2> SUFFICES ASSUME NEW i \in 1..Len(queue')
               PROVE  store[queue'[i].m] = queue'[i].at
    BY <1>1 DEF EntryRecorded
  <2>1. CASE i <= Len(queue)
    <3>1. i \in 1..Len(queue) BY <1>4, <2>1
    <3> QED BY <1>5, <3>1 DEF EntryRecorded
  <2>2. CASE ~(i <= Len(queue))
    <3>0. i > Len(queue) BY <1>4, <1>5, <2>2
    <3>1. queue'[i] \in Missing BY <1>1, <1>5, <3>0
    <3>2. /\ queue'[i] \in AnyEntry /\ queue'[i].at # 0
          /\ restore.read[queue'[i].m] = queue'[i].at
      BY <3>1, MissingEntries
    <3>3. queue'[i].m \in Msgs BY <3>2 DEF AnyEntry
    <3> QED BY <1>2, <3>2, <3>3 DEF ReadCurrent
  <2> QED BY <2>1, <2>2
<1>7. HandRecorded' BY <1>3 DEF HandRecorded
<1>8. \A e \in Missing : \E i \in 1..Len(s) : s[i] = e
  <2>1. /\ s \in [1..Cardinality(Missing) -> Missing]
        /\ \A i, k \in 1..Cardinality(Missing) : i < k => s[i].at < s[k].at
        /\ Cardinality(Missing) \in Nat /\ IsFiniteSet(Missing)
    BY MissingEntries DEF ByQueuedAt
  <2>2. \A i \in 1..Cardinality(Missing) : s[i].at \in Nat
    <3> TAKE i \in 1..Cardinality(Missing)
    <3>1. s[i] \in AnyEntry BY <2>1, MissingEntries
    <3> QED BY <3>1 DEF AnyEntry
  <2>3. \A i, k \in 1..Cardinality(Missing) : s[i] = s[k] => i = k
    <3> TAKE i, k \in 1..Cardinality(Missing)
    <3> HAVE s[i] = s[k]
    <3>1. s[i].at \in Nat /\ s[k].at = s[i].at BY <2>2
    <3>2. ~(i < k) /\ ~(k < i) BY <2>1, <3>1
    <3> QED BY <2>1, <3>2
  <2>4. s \in Injection(1..Cardinality(Missing), Missing)
    BY <2>1, <2>3 DEF Injection, IsInjective
  <2>5. /\ IsFiniteSet(1..Cardinality(Missing))
        /\ Cardinality(1..Cardinality(Missing)) = Cardinality(Missing)
    <3>1. \A n \in Nat : IsFiniteSet(1..n) /\ Cardinality(1..n) = n
      <4> TAKE n \in Nat
      <4> QED BY FS_Interval
    <3> QED BY <2>1, <3>1
  <2>6. s \in Surjection(1..Cardinality(Missing), Missing)
    BY <2>1, <2>4, <2>5, FS_Injection
  <2> QED BY <1>1, <2>6 DEF Surjection
<1>9. RecordHeld'
  <2> SUFFICES ASSUME NEW m \in Msgs, store[m] # 0
               PROVE  InQueue(m, store[m])'
    BY <1>1 DEF RecordHeld
  <2>1. CASE \E i \in 1..Len(queue) : queue[i].m = m
    <3>1. PICK i \in 1..Len(queue) : queue[i].m = m BY <2>1
    <3>2. queue[i].at = store[m] BY <3>1 DEF EntryRecorded
    <3>3. queue'[i].m = m /\ queue'[i].at = store'[m] /\ i \in 1..Len(queue')
      BY <1>1, <1>5, <3>1, <3>2
    <3> QED BY <3>3 DEF InQueue
  <2>2. CASE ~\E i \in 1..Len(queue) : queue[i].m = m
    <3>1. restore.read[m] = store[m]
      BY <1>2, <2>2 DEF ReadCurrent, InQueue
    <3>2. m \notin {e.m : e \in Entries(queue)} BY <2>2 DEF Entries
    <3>3. [m |-> m, at |-> store[m]] \in Missing BY <3>1, <3>2 DEF Missing
    <3>4. PICK i \in 1..Len(s) : s[i] = [m |-> m, at |-> store[m]] BY <1>8, <3>3
    <3>5. Len(queue) + i \in 1..Len(queue') /\ queue'[Len(queue) + i].m = m
          /\ queue'[Len(queue) + i].at = store'[m]
      BY <1>1, <1>5a, <3>4
    <3> QED BY <3>5 DEF InQueue
  <2> QED BY <2>1, <2>2
<1>10. ReadCurrent' BY <1>2 DEF ReadCurrent
<1> QED BY <1>6, <1>7, <1>9, <1>10

LEMMA MirrorInvStep ==
  ASSUME Cardinality(Sids) = 1
  PROVE  JobTypes /\ QueueCore /\ MirrorInv /\ Room' /\ [Next]_vars => MirrorInv'
<1> SUFFICES ASSUME JobTypes, QueueCore, MirrorInv, Room', [Next]_vars
             PROVE  MirrorInv'
  OBVIOUS
<1>0. MirrorCore /\ RecordSpent BY DEF MirrorCore, MirrorInv
<1>a. \A s, t \in Sids : s = t BY FS_Singleton, ConstantsOK
<1>1. CASE UNCHANGED <<queue, flush, store, restore>>
  <2>1. RecordSpent' BY <1>0, <1>1, RecordSpentKept
  <2> QED BY <1>0, <1>1, <2>1, MirrorUntouched DEF MirrorCore, MirrorInv
<1>2. ASSUME NEW m \in Msgs, Enqueue(m), restore' = restore,
             \/ PeerOffline(m)
             \/ \E s \in Sids : /\ SendFails(Direct(m), s)
                                /\ job[Direct(m)].pc = "send"
      PROVE  MirrorInv'
  <2>1. PICK s \in Sids : <<m, s>> \in Spent' /\ <<m, s>> \notin Spent
    BY <1>2, EnqueueSpends
  <2>2. store[m] = 0 BY <1>0, <2>1 DEF RecordSpent
  <2>3. MirrorCore' BY <1>0, <1>2, <2>2, EnqueueMirrors
  <2>4. \A n \in Msgs : n # m => store'[n] = store[n]
    BY <1>2, EnqueueEffect DEF QueueCore, QueueTypes
  <2>5. Spent \subseteq Spent' BY SpentGrows
  <2>6. RecordSpent'
    <3> SUFFICES ASSUME NEW n \in Msgs, store'[n] # 0, NEW t \in Sids
                 PROVE  <<n, t>> \in Spent'
      BY DEF RecordSpent
    <3>1. CASE n = m BY <1>a, <2>1, <3>1
    <3>2. CASE n # m BY <1>0, <2>4, <2>5, <3>2 DEF RecordSpent
    <3> QED BY <3>1, <3>2
  <2> QED BY <2>3, <2>6 DEF MirrorCore, MirrorInv
<1>3. CASE \E m \in Msgs : Call(m) \/ Resolve(m)
  <2>1. ASSUME NEW m \in Msgs, PeerOffline(m) PROVE MirrorInv'
    BY <1>2, <2>1 DEF PeerOffline, life
  <2> QED BY <1>1, <1>3, <2>1 DEF Resolve, Call, TargetsFound, StoredOnServer,
          queueing, flushing, life
<1>4. ASSUME NEW j \in Jobs, Delivery(j) PROVE MirrorInv'
  <2>1. ASSUME NEW s \in Sids, SendFails(j, s) PROVE MirrorInv'
    <3>0. restore' = restore BY <2>1 DEF SendFails, life
    <3>1. CASE UNCHANGED <<queueing, flushing>>
      BY <1>1, <3>0, <3>1 DEF queueing, flushing
    <3>2. CASE j[1] = "direct" /\ job[j].pc = "send" /\ Enqueue(j[2])
      <4>1. j = Direct(j[2]) /\ j[2] \in Msgs BY <3>2 DEF Direct, Jobs
      <4> QED BY <1>2, <2>1, <3>0, <3>2, <4>1
    <3> QED BY <2>1, <3>1, <3>2 DEF SendFails
  <2> QED BY <1>1, <1>4, <2>1 DEF Delivery, SendOk, BeginWait, NothingSent,
          AckTimeout, Awaited, queueing, flushing, life
<1>5. CASE FlushRequested \/ TimerFires \/ Age
  BY <1>1, <1>5 DEF FlushRequested, TimerFires, Age, queueing, flushing, life
<1>6. ASSUME MirrorCore', \A m \in Msgs : store'[m] # 0 => store[m] # 0
      PROVE  MirrorInv'
  BY <1>0, <1>6, RecordSpentKept DEF MirrorCore, MirrorInv
<1>7. CASE Flushing
  <2>1. MirrorCore'
    <3>1. CASE FlushDelivered
      <4>1. flush.pc = "deliver" /\ FlushSettles("delivered")
        BY <3>1 DEF FlushDelivered, FlushJobEnds
      <4> QED BY <1>0, <4>1, SettleMirrors
    <3>2. CASE FlushFailed
      <4>1. flush.pc = "deliver" /\ FlushSettles("failed")
        BY <3>2 DEF FlushFailed, FlushJobEnds
      <4> QED BY <1>0, <4>1, SettleMirrors
    <3> QED BY <1>0, <1>7, <3>1, <3>2, FlushLooksMirrors, ExpireMirrors,
            DeliverMirrors, RequeueMirrors DEF Flushing
  <2>2. store' = store \/ \E ms : store' = Unpersist(store, ms)
    BY <1>7 DEF Flushing, FlushStarts, FlushExpires, FlushTakesHead, FlushDrained,
       FlushUnreachable, FlushDelivers, FlushDelivered, FlushFailed, FlushSettles,
       FlushRequeues, queueing
  <2>3. \A m \in Msgs : store'[m] # 0 => store[m] # 0
    BY <2>2 DEF Unpersist, QueueCore, QueueTypes
  <2> QED BY <1>6, <2>1, <2>3
<1>8. CASE PageReloads BY <1>0, <1>6, <1>8, ReloadMirrors DEF PageReloads
<1>9. CASE RestoreReads
  <2>1. store' = store BY <1>9 DEF RestoreReads, queueing
  <2> QED BY <1>0, <1>6, <1>9, <2>1, ReadMirrors
<1>10. CASE RestoreMerges
  <2>1. store' = store BY <1>10, MergeEffect DEF QueueCore
  <2> QED BY <1>0, <1>6, <1>10, <2>1, MergeMirrors
<1>11. CASE Link \/ Peer
  BY <1>1, <1>11 DEF Link, Lose, AckArrives, Peer, ArrivesAgain, NoHandler,
     HandlerStarts, HandlerReturns, HandlerFails, PeerReloads, queueing, flushing,
     life
<1> QED BY <1>1, <1>3, <1>4, <1>5, <1>7, <1>8, <1>9, <1>10, <1>11
        DEF Next, Restoring, vars, queueing, flushing, life

LEMMA InitMirrorInv == Init => MirrorInv
<1> SUFFICES ASSUME Init PROVE MirrorInv OBVIOUS
<1>1. /\ 1..Len(queue) = {} /\ flush.pc = "idle" /\ restore.pc = "reading"
      /\ \A m \in Msgs : store[m] = 0
  BY DEF Init, NoFlush
<1> QED BY <1>1 DEF MirrorInv, EntryRecorded, HandRecorded, RecordHeld, RecordSpent,
        ReadCurrent, InHand

LEMMA MirrorShown ==
  ASSUME QueueCore, MirrorInv
  PROVE  StoreMirrorsQueue
<1> USE DEF QueueCore, MirrorInv
<1> SUFFICES ASSUME restore.pc = "finished"
             PROVE  Held = {store[m] : m \in Msgs} \ {0}
  BY DEF StoreMirrorsQueue
<1>1. ASSUME NEW m \in Msgs, NEW a \in Nat, Claim(m, a), store[m] = a
      PROVE  a \in {store[n] : n \in Msgs} \ {0}
  <2>1. a >= 1 BY <1>1 DEF Claims
  <2>2. a # 0 BY <2>1
  <2> QED BY <1>1, <2>2
<1>2. ASSUME NEW a \in Held PROVE a \in {store[m] : m \in Msgs} \ {0}
  <2>1. CASE InHand /\ flush.at = a
    <3>1. flush.m \in Msgs /\ a \in Nat /\ store[flush.m] = a /\ Claim(flush.m, a)
      BY <2>1 DEF QueueTypes, HandRecorded, Claim
    <3> QED BY <1>1, <3>1
  <2>2. ASSUME NEW i \in 1..Len(queue), queue[i].at = a
        PROVE  a \in {store[m] : m \in Msgs} \ {0}
    <3>1. queue[i] \in AnyEntry BY DEF QueueTypes
    <3>2. queue[i].m \in Msgs /\ a \in Nat BY <2>2, <3>1 DEF AnyEntry
    <3>3. store[queue[i].m] = a /\ Claim(queue[i].m, a)
      BY <2>2 DEF EntryRecorded, Claim
    <3> QED BY <1>1, <3>2, <3>3
  <2> QED BY <2>1, <2>2, HeldIff
<1>3. ASSUME NEW m \in Msgs, store[m] # 0 PROVE store[m] \in Held
  <2>1. InQueue(m, store[m]) \/ (InHand /\ flush.m = m) BY <1>3 DEF RecordHeld
  <2> QED BY <2>1, HeldIff DEF InQueue, HandRecorded
<1> QED BY <1>2, <1>3

\* While the queue does not reach its limit, and for a peer with one session, the
\* store holds a record for exactly the entries that are queued or in the hands
\* of the flush, whenever the restore is over: the writes of #enqueueMessage, of
\* the flush and of the restore keep pace with every await, timeout and reload.
THEOREM StoreMirrorsQueueHolds ==
  ASSUME Cardinality(Sids) = 1
  PROVE  Spec /\ []Room => []StoreMirrorsQueue
<1>1. Init => AckInv
  BY ConstantsOK DEF Init, AckInv, LinkTypes, JobTypes, WaiterTypes, AnyJob, Idle,
     JobResults, PlainInNet, PlainInRecent, PlainInJobs
<1>2. AckInv => JobTypes BY DEF AckInv
<1>3. JobTypes /\ QueueCore /\ MirrorInv /\ Room' /\ [Next]_vars => MirrorInv'
  BY MirrorInvStep
<1>4. QueueCore /\ MirrorInv => StoreMirrorsQueue BY MirrorShown
<1> QED BY <1>1, <1>2, <1>3, <1>4, AckInvStep, InitQueueCore, QueueCoreStep,
        InitMirrorInv, PTL DEF Spec
=============================================================================
