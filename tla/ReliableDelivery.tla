-------------------------- MODULE ReliableDelivery --------------------------
(***************************************************************************)
(* sendToService between two core versions that speak __env / __ack:       *)
(* RemoteUser.#deliverMessage and #awaitMessageAck on the sending page,    *)
(* its offline queue (persisted, flushed by events and by a backoff timer),*)
(* the AckWaiter keyed by msgId, and #dispatchToServiceApp with its        *)
(* DedupCache on every session of the peer.                                *)
(*                                                                         *)
(* Both pages are event loops: an action is the code from one await to the *)
(* next.  The link loses and reorders packets; a send that the server or   *)
(* the channel refuses is SendFails.  A delivery job is one run of         *)
(* #deliverMessage + #awaitMessageAck: "direct" from sendToService itself, *)
(* "flush" from the queue.                                                 *)
(***************************************************************************)
EXTENDS Integers, Sequences, FiniteSets

CONSTANTS Msgs,        \* msgIds; one sendToService call each
          NoMsg,       \* no entry is being flushed
          Sids,        \* sessions of the peer
          QueueMax,    \* #QUEUE_MAX
          Retries,     \* options.retries
          MaxSends,    \* bound: transmissions of one message
          MaxReloads,  \* bound: reloads of the sending page
          MaxPeerReloads \* bound: reloads of peer sessions

ASSUME ConstantsOK ==
  /\ Msgs # {} /\ IsFiniteSet(Msgs) /\ NoMsg \notin Msgs
  /\ Sids # {} /\ IsFiniteSet(Sids)
  /\ QueueMax \in Nat \ {0}
  /\ Retries \in Nat /\ MaxSends \in Nat
  /\ MaxReloads \in Nat /\ MaxPeerReloads \in Nat

VARIABLES
  job,       \* job[<<w, m>>]: the delivery of m by the call ("direct") or the queue
  queue,     \* #sendQueue: entries [m, at]; at is queuedAt, counted
  flush,     \* the running _flushQueue and the entry it took from the head
  wanted,    \* a _flushQueue call waits for the restore to finish
  timer,     \* #reflushTimer
  flushed,   \* flushed[at]: the promise of the queued receipt
  store,     \* nos-user-queue: store[m] is the persisted queuedAt, 0 if none
  restore,   \* #restoreQueue: its pc and what it has read
  clock,     \* number of entries enqueued so far
  aged,      \* entries queued at or before this time are past QUEUE_TTL
  pending,   \* AckWaiter.#pending: which job waits under a msgId
  recent,    \* AckWaiter.#recent: an ack nobody had waited for
  supports,  \* #peerSupportsAck
  net,       \* packets in flight
  sent,      \* transmissions per message
  dedup,     \* dedup[s]: #msgDedup of session s
  running,   \* handlers that have not returned: <<m, s, n>>
  started,   \* history: handler starts per message since session s loaded
  done,      \* history: <<m, s>> whose handler returned
  reloads    \* reloads of the sending page and of peer sessions

sending   == <<job, sent, net>>
queueing  == <<queue, store, flushed, clock>>
flushing  == <<flush, wanted, timer>>
life      == <<restore, aged, reloads>>
acks      == <<pending, recent, supports>>
peer      == <<dedup, running, started, done>>
vars == <<sending, queueing, flushing, life, acks, peer>>

Jobs == {"direct", "flush"} \X Msgs
Direct(m) == <<"direct", m>>
Queued(m) == <<"flush", m>>
MaxEntries == Cardinality(Msgs) * Cardinality(Sids)
Entry == [m : Msgs, at : 1..MaxEntries]
AckResults == {"ok", "dup", "nohandler", "error"}
Confirmed == {"ok", "dup"}
Idle == [pc |-> "off", left |-> {}, reach |-> {}, tries |-> 0, res |-> "none"]
Ended(r) == [Idle EXCEPT !.pc = "over", !.res = r]
SendingTo(S) == [Idle EXCEPT !.pc = "send", !.left = S]
Resent(d) == [d EXCEPT !.pc = "resend", !.left = d.reach, !.tries = @ + 1,
                       !.res = "none"]
NoFlush == [pc |-> "idle", m |-> NoMsg, at |-> 0]
NothingRead == [m \in Msgs |-> 0]

JobStates == [pc : {"off", "resolve", "send", "resend", "wait", "over"},
              left : SUBSET Sids, reach : SUBSET Sids, tries : 0..Retries,
              res : AckResults \cup {"none", "timeout", "unsent", "noreceiver",
                                     "queued", "gone"}]

Packets == [to : {"peer"}, m : Msgs, sid : Sids, n : 1..MaxSends, res : {"none"}]
           \cup [to : {"me"}, m : Msgs, sid : Sids, n : 1..MaxSends,
                 res : AckResults]

TypeOK ==
  /\ job \in [Jobs -> JobStates]
  /\ queue \in Seq(Entry) /\ Len(queue) <= QueueMax + 1
  /\ flush \in [pc : {"idle", "head", "resolve", "deliver"}, m : Msgs \cup {NoMsg},
                at : 0..MaxEntries]
  /\ wanted \in BOOLEAN
  /\ timer \in {"off", "armed"}
  /\ flushed \in [1..MaxEntries -> {"none", "pending", "delivered", "expired",
                                    "dropped", "failed", "gone"}]
  /\ store \in [Msgs -> 0..MaxEntries]
  /\ restore \in [pc : {"reading", "merging", "finished"},
                  read : [Msgs -> 0..MaxEntries]]
  /\ clock \in 0..MaxEntries
  /\ aged \in 0..clock
  /\ pending \in [Msgs -> {"none", "direct", "flush"}]
  /\ recent \in [Msgs -> AckResults \cup {"none"}]
  /\ supports \in BOOLEAN
  /\ net \subseteq Packets
  /\ sent \in [Msgs -> 0..MaxSends]
  /\ dedup \in [Sids -> SUBSET Msgs]
  /\ running \subseteq (Msgs \X Sids \X (1..MaxSends))
  /\ started \in [Msgs \X Sids -> 0..MaxSends]
  /\ done \subseteq (Msgs \X Sids)
  /\ reloads \in [page : 0..MaxReloads, peer : 0..MaxPeerReloads]

Init ==
  /\ job = [j \in Jobs |-> Idle]
  /\ queue = <<>>
  /\ flush = NoFlush
  /\ wanted = FALSE
  /\ timer = "off"
  /\ flushed = [a \in 1..MaxEntries |-> "none"]
  /\ store = [m \in Msgs |-> 0]
  /\ restore = [pc |-> "reading", read |-> NothingRead]
  /\ clock = 0
  /\ aged = 0
  /\ pending = [m \in Msgs |-> "none"]
  /\ recent = [m \in Msgs |-> "none"]
  /\ supports = FALSE
  /\ net = {}
  /\ sent = [m \in Msgs |-> 0]
  /\ dedup = [s \in Sids |-> {}]
  /\ running = {}
  /\ started = [x \in Msgs \X Sids |-> 0]
  /\ done = {}
  /\ reloads = [page |-> 0, peer |-> 0]

----------------------------------------------------------------------------
\* The offline queue as data.

Entries(q) == {q[i] : i \in 1..Len(q)}
Overflow(q) == IF Len(q) > QueueMax THEN Len(q) - QueueMax ELSE 0
Kept(q) == SubSeq(q, Overflow(q) + 1, Len(q))
Dropped(q) == {q[i] : i \in 1..Overflow(q)}

\* A promise is settled once; settling it again changes nothing.
Settle(f, ats, r) ==
  [a \in DOMAIN f |-> IF a \in ats /\ f[a] = "pending" THEN r ELSE f[a]]
Unpersist(st, ms) == [m \in DOMAIN st |-> IF m \in ms THEN 0 ELSE st[m]]

(* Faulty variants of the two operations that follow, see below. *)
EndWithoutRetry(q) ==                    \* no #scheduleReflush after a break
  /\ flush' = NoFlush
  /\ UNCHANGED <<wanted, timer>>

EnqueueUnsaved(m) ==                     \* no #persistEntry
  LET q == Append(queue, [m |-> m, at |-> clock + 1])
  IN /\ clock' = clock + 1
     /\ queue' = Kept(q)
     /\ flushed' = Settle([flushed EXCEPT ![clock + 1] = "pending"],
                          {d.at : d \in Dropped(q)}, "dropped")
     /\ timer' = "armed"
     /\ UNCHANGED <<flush, wanted, store>>

\* Leaving _flushQueue: #flushing = false, and a rest of the queue is retried.
EndFlush(q) ==
  /\ flush' = NoFlush
  /\ timer' = IF q # <<>> THEN "armed" ELSE timer
  /\ UNCHANGED wanted

\* #enqueueMessage, the overflow loop and #scheduleReflush included.
Enqueue(m) ==
  LET e == [m |-> m, at |-> clock + 1]
      q == Append(queue, e)
      out == Dropped(q)
  IN /\ clock' = clock + 1
     /\ queue' = Kept(q)
     /\ flushed' = Settle([flushed EXCEPT ![e.at] = "pending"],
                          {d.at : d \in out}, "dropped")
     /\ store' = Unpersist([store EXCEPT ![m] = e.at], {d.m : d \in out})
     /\ timer' = "armed"
     /\ UNCHANGED <<flush, wanted>>

Transmit(m, s) ==
  /\ sent[m] < MaxSends
  /\ sent' = [sent EXCEPT ![m] = @ + 1]
  /\ net' = net \cup {[to |-> "peer", m |-> m, sid |-> s, n |-> sent[m] + 1,
                       res |-> "none"]}

Acknowledge(p, r) == [to |-> "me", m |-> p.m, sid |-> p.sid, n |-> p.n, res |-> r]

----------------------------------------------------------------------------
(* Faulty variants of the operations, one per property.  No specification     *)
(* below uses them.                                                           *)

RequeueForgotten ==                      \* break without requeue()
  /\ flush.pc = "deliver" /\ job[Queued(flush.m)].pc = "over"
  /\ job[Queued(flush.m)].res \in {"unsent"} \cup IF supports THEN {"timeout"} ELSE {}
  /\ job' = [job EXCEPT ![Queued(flush.m)] = Idle]
  /\ EndFlush(queue)
  /\ UNCHANGED <<queueing, life, acks, peer, net, sent>>

RestoreQuietly ==                        \* no #scheduleReflush after a restore
  LET R == {[m |-> m, at |-> restore.read[m]] :
              m \in {n \in Msgs : restore.read[n] # 0 /\ n \notin {e.m : e \in Entries(queue)}}}
  IN /\ restore.pc = "merging"
     /\ restore' = [pc |-> "finished", read |-> NothingRead]
     /\ \E s \in [1..Cardinality(R) -> R] : queue' = Kept(queue \o s)
     /\ UNCHANGED <<sending, acks, peer, clock, flush, wanted, timer, store,
                    flushed, aged, reloads>>

AckOnArrival(p) ==                       \* the handler is not awaited
  /\ p \in net /\ p.to = "peer" /\ p.m \notin dedup[p.sid]
  /\ dedup' = [dedup EXCEPT ![p.sid] = @ \cup {p.m}]
  /\ running' = running \cup {<<p.m, p.sid, p.n>>}
  /\ started' = [started EXCEPT ![<<p.m, p.sid>>] = @ + 1]
  /\ net' = (net \ {p}) \cup {Acknowledge(p, "ok")}
  /\ UNCHANGED <<job, sent, queueing, flushing, life, acks, done>>

DispatchUnmarked(p) ==                   \* the msgId is never recorded
  /\ p \in net /\ p.to = "peer" /\ p.m \notin dedup[p.sid]
  /\ net' = net \ {p}
  /\ running' = running \cup {<<p.m, p.sid, p.n>>}
  /\ started' = [started EXCEPT ![<<p.m, p.sid>>] = @ + 1]
  /\ UNCHANGED <<job, sent, queueing, flushing, life, acks, dedup, done>>

----------------------------------------------------------------------------
\* Delivery jobs: #resolveServiceTargets, #deliverMessage, #awaitMessageAck.

Call(m) ==
  /\ job[Direct(m)].pc = "off"
  /\ job' = [job EXCEPT ![Direct(m)].pc = "resolve"]
  /\ UNCHANGED <<queueing, flushing, life, acks, peer, net, sent>>

\* Service discovery answers from a cache, from the server or from the peer; it
\* may be stale or lost, so any set of sessions is possible.
TargetsFound(m) ==
  /\ job[Direct(m)].pc = "resolve"
  /\ \E S \in SUBSET Sids :
       job' = [job EXCEPT ![Direct(m)] =
                 IF S = {} THEN Ended("noreceiver") ELSE SendingTo(S)]
  /\ UNCHANGED <<queueing, flushing, life, acks, peer, net, sent>>

\* The peer is offline and the server took the message into its inbox, from
\* where it reaches a session that connects later.
StoredOnServer(m) ==
  /\ job[Direct(m)].pc = "resolve"
  /\ \E s \in Sids : Transmit(m, s)
  /\ job' = [job EXCEPT ![Direct(m)].pc = "resend"]
  /\ UNCHANGED <<queueing, flushing, life, acks, peer>>

\* The peer is offline and no server takes the message: #enqueueMessage.
PeerOffline(m) ==
  /\ job[Direct(m)].pc = "resolve"
  /\ Enqueue(m)
  /\ job' = [job EXCEPT ![Direct(m)] = Ended("queued")]
  /\ UNCHANGED <<life, acks, peer, net, sent>>

SendOk(j, s) ==
  /\ job[j].pc \in {"send", "resend"} /\ s \in job[j].left
  /\ Transmit(j[2], s)
  /\ job' = [job EXCEPT ![j].left = @ \ {s}, ![j].reach = @ \cup {s}]
  /\ UNCHANGED <<queueing, flushing, life, acks, peer>>

\* A failed send: an offline session of a direct delivery gets a queue entry of
\* its own; a flush (queue: false), a resend or another error gets none.
SendFails(j, s) ==
  /\ job[j].pc \in {"send", "resend"} /\ s \in job[j].left
  /\ job' = [job EXCEPT ![j].left = @ \ {s}]
  /\ \/ j[1] = "direct" /\ job[j].pc = "send" /\ Enqueue(j[2])
     \/ UNCHANGED <<queueing, flushing>>
  /\ UNCHANGED <<life, acks, peer, net, sent>>

\* All sends are made.  AckWaiter.wait: an early ack settles at once, else the
\* job is entered under its msgId, over whoever waits there.
BeginWait(j) ==
  LET m == j[2] IN
  /\ job[j].pc \in {"send", "resend"} /\ job[j].left = {}
  /\ job[j].pc = "send" => job[j].reach # {}
  /\ job' = [job EXCEPT ![j].pc = "wait", ![j].res = recent[m]]
  /\ recent' = [recent EXCEPT ![m] = "none"]
  /\ pending' = [pending EXCEPT ![m] = IF recent[m] = "none" THEN j[1] ELSE @]
  /\ UNCHANGED <<queueing, flushing, life, peer, net, sent, supports>>

NothingSent(j) ==
  /\ job[j].pc = "send" /\ job[j].left = {} /\ job[j].reach = {}
  /\ job' = [job EXCEPT ![j] = Ended("unsent")]
  /\ UNCHANGED <<queueing, flushing, life, acks, peer, net, sent>>

\* The timer of wait(): it deletes the entry under the msgId, whoever made it.
AckTimeout(j) ==
  /\ job[j].pc = "wait" /\ job[j].res = "none"
  /\ job' = [job EXCEPT ![j].res = "timeout"]
  /\ pending' = [pending EXCEPT ![j[2]] = "none"]
  /\ UNCHANGED <<queueing, flushing, life, peer, net, sent, recent, supports>>

\* The continuation of the await: an answer ends the job; a timeout resends if
\* the peer is known to de-duplicate and tries are left.
Awaited(j) ==
  /\ job[j].pc = "wait" /\ job[j].res # "none"
  /\ LET again == job[j].res = "timeout" /\ supports /\ job[j].tries < Retries IN
     \/ again /\ job' = [job EXCEPT ![j] = Resent(@)]
     \/ ~again /\ job' = [job EXCEPT ![j] = Ended(@.res)]
  /\ UNCHANGED <<queueing, flushing, life, acks, peer, net, sent>>

\* An __ack: #peerSupportsAck, then AckWaiter.#settle.
AckArrives(p) ==
  /\ p \in net /\ p.to = "me"
  /\ net' = net \ {p}
  /\ supports' = TRUE
  /\ IF pending[p.m] # "none"
     THEN /\ job' = [job EXCEPT ![<<pending[p.m], p.m>>].res = p.res]
          /\ pending' = [pending EXCEPT ![p.m] = "none"]
          /\ UNCHANGED recent
     ELSE /\ recent' = [recent EXCEPT ![p.m] = p.res]
          /\ UNCHANGED <<job, pending>>
  /\ UNCHANGED <<queueing, flushing, life, peer, sent>>

----------------------------------------------------------------------------
\* _flushQueue.

\* server_connected, rtc_state connected and __service_available call it.
FlushRequested ==
  /\ flush.pc = "idle" /\ queue # <<>> /\ ~wanted
  /\ wanted' = TRUE
  /\ UNCHANGED <<sending, queueing, life, acks, peer, flush, timer>>

TimerFires ==
  /\ timer = "armed"
  /\ timer' = "off"
  /\ wanted' = (wanted \/ flush.pc = "idle")
  /\ UNCHANGED <<sending, queueing, life, acks, peer, flush>>

\* After await #queueRestorePromise: #flushing and the queue are looked at again.
FlushStarts ==
  /\ wanted /\ restore.pc = "finished"
  /\ wanted' = FALSE
  /\ flush' = IF flush.pc = "idle" /\ queue # <<>>
              THEN [NoFlush EXCEPT !.pc = "head"] ELSE flush
  /\ UNCHANGED <<sending, queueing, life, acks, peer, timer>>

FlushExpires ==
  /\ flush.pc = "head" /\ queue # <<>> /\ Head(queue).at <= aged
  /\ queue' = Tail(queue)
  /\ store' = Unpersist(store, {Head(queue).m})
  /\ flushed' = Settle(flushed, {Head(queue).at}, "expired")
  /\ UNCHANGED <<sending, flushing, life, acks, peer, clock>>

FlushTakesHead ==
  /\ flush.pc = "head" /\ queue # <<>> /\ Head(queue).at > aged
  /\ flush' = [pc |-> "resolve", m |-> Head(queue).m, at |-> Head(queue).at]
  /\ UNCHANGED <<sending, queueing, life, acks, peer, wanted, timer>>

FlushDrained ==
  /\ flush.pc = "head" /\ queue = <<>>
  /\ EndFlush(queue)
  /\ UNCHANGED <<sending, queueing, life, acks, peer>>

FlushUnreachable ==
  /\ flush.pc = "resolve"
  /\ EndFlush(queue)
  /\ UNCHANGED <<sending, queueing, life, acks, peer>>

\* After await #resolveServiceTargets: #sendQueue.shift() takes whatever is at
\* the head now; the entry read before the await is delivered.
FlushDelivers ==
  /\ flush.pc = "resolve"
  /\ queue' = IF queue = <<>> THEN queue ELSE Tail(queue)
  /\ flush' = [flush EXCEPT !.pc = "deliver"]
  /\ \E S \in SUBSET Sids \ {{}} :
       job' = [job EXCEPT ![Queued(flush.m)] = SendingTo(S)]
  /\ UNCHANGED <<life, acks, peer, net, sent, store, flushed, clock, wanted, timer>>

FlushJobEnds(results) ==
  /\ flush.pc = "deliver" /\ job[Queued(flush.m)].pc = "over"
  /\ job[Queued(flush.m)].res \in results
  /\ job' = [job EXCEPT ![Queued(flush.m)] = Idle]

FlushSettles(r) ==
  /\ store' = Unpersist(store, {flush.m})
  /\ flushed' = Settle(flushed, {flush.at}, r)
  /\ flush' = [NoFlush EXCEPT !.pc = "head"]
  /\ UNCHANGED <<life, acks, peer, net, sent, queue, clock, wanted, timer>>

\* An old peer never acknowledges: a timeout then counts as delivered.
FlushDelivered ==
  /\ FlushJobEnds(Confirmed \cup IF supports THEN {} ELSE {"timeout"})
  /\ FlushSettles("delivered")

FlushFailed ==
  /\ FlushJobEnds({"nohandler", "error"})
  /\ FlushSettles("failed")

FlushRequeues ==
  LET q == <<[m |-> flush.m, at |-> flush.at]>> \o queue IN
  /\ FlushJobEnds({"unsent"} \cup IF supports THEN {"timeout"} ELSE {})
  /\ queue' = q
  /\ EndFlush(q)
  /\ UNCHANGED <<life, acks, peer, net, sent, store, flushed, clock>>

----------------------------------------------------------------------------
\* Time, reloads and #restoreQueue.

\* QUEUE_TTL passes for the oldest entry that is not past it yet.
Age ==
  /\ aged < clock
  /\ aged' = aged + 1
  /\ UNCHANGED <<sending, queueing, flushing, acks, peer, restore, reloads>>

\* The sending page reloads: its memory is gone, calls included.
PageReloads ==
  /\ reloads.page < MaxReloads
  /\ reloads' = [reloads EXCEPT !.page = @ + 1]
  /\ restore' = [pc |-> "reading", read |-> NothingRead]
  /\ job' = [j \in Jobs |->
       IF j[1] = "flush" THEN Idle
       ELSE IF job[j].pc \in {"off", "over"} THEN job[j]
       ELSE Ended("gone")]
  /\ queue' = <<>>
  /\ flushed' = [a \in 1..MaxEntries |->
                   IF flushed[a] = "pending" THEN "gone" ELSE flushed[a]]
  /\ flush' = NoFlush /\ wanted' = FALSE /\ timer' = "off"
  /\ pending' = [m \in Msgs |-> "none"]
  /\ recent' = [m \in Msgs |-> "none"]
  /\ supports' = FALSE
  /\ UNCHANGED <<peer, net, sent, store, clock, aged>>

RestoreReads ==
  /\ restore.pc = "reading"
  /\ restore' = [pc |-> "merging", read |-> store]
  /\ UNCHANGED <<sending, queueing, flushing, acks, peer, aged, reloads>>

ByQueuedAt(R) == {s \in [1..Cardinality(R) -> R] :
                    \A i, k \in 1..Cardinality(R) : i < k => s[i].at < s[k].at}

\* Entries read and not in the queue by msgId are appended, oldest first.
RestoreMerges ==
  LET live == {e.m : e \in Entries(queue)}
      R == {[m |-> m, at |-> restore.read[m]] :
              m \in {n \in Msgs : restore.read[n] # 0 /\ n \notin live}}
  IN /\ restore.pc = "merging"
     /\ restore' = [pc |-> "finished", read |-> NothingRead]
     /\ \E s \in ByQueuedAt(R) :
          LET q == queue \o s IN
          /\ queue' = Kept(q)
          /\ store' = Unpersist(store, {d.m : d \in Dropped(q)})
          /\ flushed' = Settle(flushed, {d.at : d \in Dropped(q)}, "dropped")
          /\ timer' = IF q # <<>> THEN "armed" ELSE timer
     /\ UNCHANGED <<sending, acks, peer, clock, flush, wanted, aged, reloads>>

----------------------------------------------------------------------------
\* The peer: #dispatchToServiceApp.

\* A packet whose msgId is known is acknowledged as a duplicate, no more.
ArrivesAgain(p) ==
  /\ p \in net /\ p.to = "peer" /\ p.m \in dedup[p.sid]
  /\ net' = (net \ {p}) \cup {Acknowledge(p, "dup")}
  /\ UNCHANGED <<job, sent, queueing, flushing, life, acks, peer>>

\* Services come and go on the peer, so a fresh packet may find no handler.
NoHandler(p) ==
  /\ p \in net /\ p.to = "peer" /\ p.m \notin dedup[p.sid]
  /\ dedup' = [dedup EXCEPT ![p.sid] = @ \cup {p.m}]
  /\ net' = (net \ {p}) \cup {Acknowledge(p, "nohandler")}
  /\ UNCHANGED <<job, sent, queueing, flushing, life, acks, running,
                 started, done>>

HandlerStarts(p) ==
  /\ p \in net /\ p.to = "peer" /\ p.m \notin dedup[p.sid]
  /\ dedup' = [dedup EXCEPT ![p.sid] = @ \cup {p.m}]
  /\ net' = net \ {p}
  /\ running' = running \cup {<<p.m, p.sid, p.n>>}
  /\ started' = [started EXCEPT ![<<p.m, p.sid>>] = @ + 1]
  /\ UNCHANGED <<job, sent, queueing, flushing, life, acks, done>>

HandlerReturns(x) ==
  /\ x \in running
  /\ running' = running \ {x}
  /\ done' = done \cup {<<x[1], x[2]>>}
  /\ net' = net \cup {[to |-> "me", m |-> x[1], sid |-> x[2], n |-> x[3], res |-> "ok"]}
  /\ UNCHANGED <<job, sent, queueing, flushing, life, acks, dedup, started>>

\* The handler throws, or the large payload cannot be pulled.
HandlerFails(x) ==
  /\ x \in running
  /\ running' = running \ {x}
  /\ net' = net \cup {[to |-> "me", m |-> x[1], sid |-> x[2], n |-> x[3], res |-> "error"]}
  /\ UNCHANGED <<job, sent, queueing, flushing, life, acks, dedup, started, done>>

\* A peer session reloads: its DedupCache and its running handlers are gone.
PeerReloads(s) ==
  /\ reloads.peer < MaxPeerReloads
  /\ reloads' = [reloads EXCEPT !.peer = @ + 1]
  /\ dedup' = [dedup EXCEPT ![s] = {}]
  /\ running' = {x \in running : x[2] # s}
  /\ started' = [x \in Msgs \X Sids |-> IF x[2] = s THEN 0 ELSE started[x]]
  /\ UNCHANGED <<sending, queueing, flushing, acks, restore, aged, done>>

Lose(p) ==
  /\ p \in net
  /\ net' = net \ {p}
  /\ UNCHANGED <<job, sent, queueing, flushing, life, acks, peer>>

----------------------------------------------------------------------------
Delivery(j) ==
  \/ \E s \in Sids : SendOk(j, s) \/ SendFails(j, s)
  \/ BeginWait(j) \/ NothingSent(j) \/ AckTimeout(j) \/ Awaited(j)

Resolve(m) == TargetsFound(m) \/ StoredOnServer(m) \/ PeerOffline(m)

Flushing ==
  \/ FlushStarts \/ FlushExpires \/ FlushTakesHead \/ FlushDrained
  \/ FlushUnreachable \/ FlushDelivers \/ FlushDelivered \/ FlushFailed
  \/ FlushRequeues

Restoring == RestoreReads \/ RestoreMerges

Link == \E p \in net : Lose(p) \/ AckArrives(p)

Peer ==
  \/ \E p \in net : ArrivesAgain(p) \/ NoHandler(p) \/ HandlerStarts(p)
  \/ \E x \in running : HandlerReturns(x) \/ HandlerFails(x)
  \/ \E s \in Sids : PeerReloads(s)

Next ==
  \/ \E m \in Msgs : Call(m) \/ Resolve(m)
  \/ \E j \in Jobs : Delivery(j)
  \/ FlushRequested \/ TimerFires \/ Flushing
  \/ Age \/ PageReloads \/ Restoring
  \/ Link \/ Peer

Spec == Init /\ [][Next]_vars

\* The event loop runs every continuation, every send is answered or fails,
\* timers fire and days pass.  The link and the peer owe nothing.
FairSpec ==
  /\ Spec
  /\ WF_vars(\E j \in Jobs : Delivery(j))
  /\ WF_vars(TimerFires \/ Flushing) /\ WF_vars(Restoring)
  /\ WF_vars(Age)

----------------------------------------------------------------------------
(* What every interleaving satisfies. *)

\* A message left in the queue is not forgotten: whenever no flush is running
\* and the restore is over, the backoff timer is armed or a flush call is on
\* its way (#scheduleReflush at every place that leaves an entry behind).
ReflushArmed ==
  queue # <<>> /\ flush.pc = "idle" /\ restore.pc = "finished"
    => timer = "armed" \/ wanted

\* However a message is resent, requeued, restored and redelivered, a session
\* that has not reloaded starts its handler at most once.
HandlerStartsOnce == \A x \in Msgs \X Sids : started[x] <= 1

\* An ack that is neither a failure nor marked duplicate is the acknowledgement
\* of a handler that returned, whichever of the jobs under the msgId gets it.
PlainAckMeansHandled ==
  \A j \in Jobs : job[j].res = "ok" => \E s \in Sids : <<j[2], s>> \in done

\* The sender's own queue entries and the entry in the hands of a flush.
Held == {e.at : e \in Entries(queue)}
        \cup (IF flush.pc \in {"resolve", "deliver"} THEN {flush.at} ELSE {})

\* The persisted queue mirrors the queue: between restores, a record exists for
\* exactly the entries that are queued or being delivered, so a reload loses no
\* message and repeats none that was settled.
StoreMirrorsQueue ==
  restore.pc = "finished" =>
    Held = {store[m] : m \in Msgs} \ {0}

\* A queued receipt that is not settled still has its entry: no await in
\* _flushQueue loses one.
PendingIsHeld ==
  \A a \in 1..MaxEntries : flushed[a] = "pending" => a \in Held

\* The receipt of a queued message is settled in the end, or its page is gone.
QueuedSettles ==
  \A a \in 1..MaxEntries : flushed[a] = "pending" ~> flushed[a] # "pending"
=============================================================================
