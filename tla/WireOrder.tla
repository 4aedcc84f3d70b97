----------------------------- MODULE WireOrder -----------------------------
(***************************************************************************)
(* Ordered delivery between one session of a user and one session of a     *)
(* peer (nos/user).  The sender (RemoteUser.send) passes messages through  *)
(* a gate that numbers them with __wseq and puts each on the RTC channel   *)
(* or on a server relay; the receiver (LocalUser) reorders by __wseq and   *)
(* gives up on a gap after a hold time.                                    *)
(*                                                                         *)
(* The two paths and the receiver's asynchronous decryption deliver in any *)
(* order, so a packet is in `net` until the receiver dispatches it.  Calls *)
(* are numbered in call order: message n is the n-th call of send().       *)
(***************************************************************************)
EXTENDS Integers, Sequences, FiniteSets

CONSTANTS MaxCalls,    \* bound: calls of send()
          MaxTries,    \* bound: servers that know the target session
          MaxFlips,    \* bound: openings and closings of the RTC channel
          MaxRaw,      \* bound: sends that bypass the gate (ping, queries)
          MaxRestarts, \* bound: disconnectUser + connectUser
          MaxPrunes    \* bound: clean-ups of the receiver's state table

ASSUME BoundsOK ==
  /\ {MaxCalls, MaxTries, MaxFlips, MaxRaw, MaxRestarts, MaxPrunes} \subseteq Nat
  /\ MaxCalls > 0 /\ MaxTries > 0

VARIABLES
  called,   \* calls of send() so far
  turn,     \* the last call that left the gate; turn + 1 is in it
  result,   \* result[n]: how call n ended
  pc,       \* where the call in the gate is
  wireSeq,  \* #wireSeq of the session
  inFlight, \* #relayInFlight of the session
  rtcOpen,  \* getChannel() returns an open channel
  dc,       \* the channel the gated call holds is still open
  number,   \* __wseq attached to the gated call
  tries,    \* relay attempts of the gated call
  raws,     \* unanswered sends outside the gate
  epoch,    \* how often the RemoteUser was replaced
  disposed, \* dispose() ran and no new RemoteUser exists yet
  net,      \* packets sent and not yet dispatched or lost
  sent,     \* every packet ever sent
  order,    \* #orderStates entry: present, next, buffer, timer
  log,      \* packets in the order #dispatchOrdered saw them
  base,     \* `next` when an entry was first made, 0 before
  gaveUp,   \* wseqs a hold timeout passed over
  used      \* how much of MaxFlips, MaxRaw and MaxPrunes is used

calls    == <<called, turn, result>>
gated    == <<dc, number, tries>>
peer     == <<epoch, disposed>>
wire     == <<net, sent>>
sender   == <<called, turn, result, pc, wireSeq, inFlight, dc, number, tries, epoch,
              disposed>>
receiver == <<order, log, base, gaveUp>>
vars == <<called, turn, result, pc, wireSeq, inFlight, rtcOpen, dc, number, tries,
          raws, epoch, disposed, net, sent, order, log, base, gaveUp, used>>

Calls == 1..MaxCalls
\* via is 0 for RTC and i for the i-th server tried.
Packet == [msg : Calls, wseq : Calls, via : 0..MaxTries]
NoOrder == [present |-> FALSE, next |-> 0, buffer |-> {}, timer |-> "off"]

\* Places of the gated call: "gate" not entered, "drain" waiting for relay
\* answers, "stuck" waiting for a release that dispose() dropped.
Pcs == {"gate", "drain", "encrypt", "relay", "trying", "await", "stuck"}

TypeOK ==
  /\ called \in 0..MaxCalls /\ turn \in 0..called
  /\ result \in [Calls -> {"none", "pending", "ok", "failed"}]
  /\ pc \in Pcs /\ wireSeq \in 0..MaxCalls /\ inFlight \in 0..(MaxRaw + 1)
  /\ {rtcOpen, dc, disposed} \subseteq BOOLEAN
  /\ number \in 0..MaxCalls
  /\ tries \in 0..MaxTries /\ raws \in 0..MaxRaw /\ epoch \in 0..MaxRestarts
  /\ net \subseteq sent /\ sent \subseteq Packet
  /\ order \in [present : BOOLEAN, next : 0..(MaxCalls + 1),
                buffer : SUBSET Packet, timer : {"off", "armed"}]
  /\ log \in Seq(Packet) /\ base \in 0..MaxCalls /\ gaveUp \subseteq Calls
  /\ used \in [flips : 0..MaxFlips, raws : 0..MaxRaw, prunes : 0..MaxPrunes]

Init ==
  /\ called = 0 /\ turn = 0 /\ result = [n \in Calls |-> "none"]
  /\ pc = "gate" /\ wireSeq = 0 /\ inFlight = 0
  /\ rtcOpen \in BOOLEAN /\ dc = FALSE
  /\ number = 0 /\ tries = 0 /\ raws = 0 /\ epoch = 0 /\ disposed = FALSE
  /\ net = {} /\ sent = {}
  /\ order = NoOrder /\ log = <<>> /\ base = 0 /\ gaveUp = {}
  /\ used = [flips |-> 0, raws |-> 0, prunes |-> 0]

Gated == turn + 1
InGate == called > turn

----------------------------------------------------------------------------
(* Faulty variants of the definitions, one per property: what a plausible   *)
(* slip in the code would do.  No specification below uses them.            *)

\* `wseq !== next` for `wseq < next`: nothing is ever held back.
LateOrEarly(o, p) == p.wseq # o.next

\* The timer is armed once a second packet is held.
HoldArmsLate(o, p) ==
  [o EXCEPT !.buffer = {q \in @ : q.wseq # p.wseq} \cup {p},
            !.timer = IF o.buffer # {} THEN "armed" ELSE @]

\* releaseNext() only on success: a failed call keeps the gate.
GiveUpKeepsGate ==
  /\ pc = "trying" /\ pc' = "stuck"
  /\ UNCHANGED <<calls, wireSeq, inFlight, rtcOpen, gated, raws, peer, wire,
                 receiver, used>>

\* The flush expects the last number it dispatched once more.
FlushKeepsTop ==
  /\ order.timer = "armed"
  /\ \E top \in order.buffer :
       /\ \A q \in order.buffer : q.wseq <= top.wseq
       /\ order' = [order EXCEPT !.next = top.wseq, !.buffer = {}, !.timer = "off"]
       /\ \E t \in [1..Cardinality(order.buffer) -> order.buffer] :
            /\ \A i, k \in DOMAIN t : i < k => t[i].wseq < t[k].wseq
            /\ log' = log \o t
       /\ gaveUp' = gaveUp \cup {n \in order.next..top.wseq :
                                  \A q \in order.buffer : q.wseq # n}
  /\ UNCHANGED <<sender, rtcOpen, raws, wire, base, used>>

----------------------------------------------------------------------------
\* Sender helpers.

Emit(via) ==
  LET p == [msg |-> Gated, wseq |-> number, via |-> via]
  IN net' = net \cup {p} /\ sent' = sent \cup {p}

\* finally { releaseNext() }: the call settles and the gate opens.
Leave(outcome) ==
  /\ result' = [result EXCEPT ![Gated] = outcome]
  /\ turn' = Gated /\ pc' = "gate" /\ dc' = FALSE /\ number' = 0 /\ tries' = 0

\* release() of #trackRelaySend: after a dispose the count restarts from 1.
Released == IF inFlight <= 1 THEN 0 ELSE inFlight - 1

----------------------------------------------------------------------------
\* The gate.

Call ==
  /\ called < MaxCalls /\ ~disposed
  /\ called' = called + 1
  /\ result' = [result EXCEPT ![called + 1] = "pending"]
  /\ UNCHANGED <<turn, pc, wireSeq, inFlight, rtcOpen, gated, raws, peer, wire,
                 receiver, used>>

\* The turn has come: number the message, look up the channel and, when relay
\* sends are unanswered, wait for them before using RTC.
Enter ==
  /\ pc = "gate" /\ InGate
  /\ wireSeq' = wireSeq + 1 /\ number' = wireSeq + 1
  /\ dc' = rtcOpen
  /\ pc' = IF ~rtcOpen THEN "relay" ELSE IF inFlight > 0 THEN "drain" ELSE "encrypt"
  /\ UNCHANGED <<calls, inFlight, rtcOpen, tries, raws, peer, wire, receiver,
                 used>>

\* The payload is ready: dc.send, unless the channel closed meanwhile.
WriteRtc ==
  /\ pc = "encrypt" /\ dc
  /\ Emit(0) /\ Leave("ok")
  /\ UNCHANGED <<called, wireSeq, inFlight, rtcOpen, raws, peer, receiver, used>>

FallBack ==
  /\ pc = "encrypt" /\ ~dc /\ pc' = "relay"
  /\ UNCHANGED <<calls, wireSeq, inFlight, rtcOpen, gated, raws, peer, wire,
                 receiver, used>>

\* dc.send throws, or the payload of either path cannot be prepared: the call
\* fails, its wseq is spent.
PayloadFails ==
  /\ pc \in {"encrypt", "relay"} /\ Leave("failed")
  /\ UNCHANGED <<called, wireSeq, inFlight, rtcOpen, raws, peer, wire, receiver,
                 used>>

\* server.sendToUser is called and #trackRelaySend counts it.
BeginRelay ==
  /\ pc = "relay" /\ pc' = "trying" /\ inFlight' = inFlight + 1
  /\ UNCHANGED <<calls, wireSeq, rtcOpen, gated, raws, peer, wire, receiver,
                 used>>

\* One candidate server: it forwards the frame, or answers that it cannot.
RelayForwarded ==
  /\ pc = "trying" /\ tries < MaxTries
  /\ tries' = tries + 1 /\ pc' = "await" /\ Emit(tries + 1)
  /\ UNCHANGED <<calls, wireSeq, inFlight, rtcOpen, dc, number, raws, peer, receiver,
                 used>>

RelayRefused ==
  /\ pc = "trying" /\ tries < MaxTries /\ tries' = tries + 1
  /\ UNCHANGED <<calls, pc, wireSeq, inFlight, rtcOpen, dc, number, raws, peer, wire,
                 receiver, used>>

RelayAnswered ==
  /\ pc = "await" /\ Leave("ok") /\ inFlight' = Released
  /\ UNCHANGED <<called, wireSeq, rtcOpen, raws, peer, wire, receiver, used>>

\* The answer is lost: the same frame goes to the next server.
RelayTimedOut ==
  /\ pc = "await" /\ pc' = "trying"
  /\ UNCHANGED <<calls, wireSeq, inFlight, rtcOpen, gated, raws, peer, wire,
                 receiver, used>>

\* No (further) server knows the session: the call fails, its wseq is spent.
GiveUp ==
  /\ pc = "trying" /\ Leave("failed") /\ inFlight' = Released
  /\ UNCHANGED <<called, wireSeq, rtcOpen, raws, peer, wire, receiver, used>>

----------------------------------------------------------------------------
\* Around the gate.

\* #sendRaw over a relay: counted as in flight, not numbered, not gated.
RawSend ==
  /\ ~disposed /\ used.raws < MaxRaw
  /\ used' = [used EXCEPT !.raws = @ + 1]
  /\ raws' = raws + 1 /\ inFlight' = inFlight + 1
  /\ UNCHANGED <<calls, pc, wireSeq, rtcOpen, gated, peer, wire, receiver>>

\* Its answer or timeout; the last one releases a waiting switch to RTC.
RawAnswered ==
  /\ raws > 0 /\ raws' = raws - 1 /\ inFlight' = Released
  /\ pc' = IF pc = "drain" /\ Released = 0
           THEN (IF dc THEN "encrypt" ELSE "relay") ELSE pc
  /\ UNCHANGED <<calls, wireSeq, rtcOpen, gated, peer, wire, receiver, used>>

ChannelFlips ==
  /\ used.flips < MaxFlips
  /\ used' = [used EXCEPT !.flips = @ + 1]
  /\ rtcOpen' = ~rtcOpen
  /\ dc' = (dc /\ rtcOpen')
  /\ UNCHANGED <<calls, pc, wireSeq, inFlight, number, tries, raws, peer, wire,
                 receiver>>

\* disconnectUser -> dispose(): counters reset, the drain's release dropped.
Dispose ==
  /\ ~disposed /\ epoch < MaxRestarts
  /\ disposed' = TRUE /\ wireSeq' = 0 /\ inFlight' = 0
  /\ pc' = IF pc = "drain" THEN "stuck" ELSE pc
  /\ UNCHANGED <<calls, rtcOpen, gated, raws, epoch, wire, receiver, used>>

\* connectUser: a new RemoteUser for the same peer, same session id on both
\* sides.  Calls still waiting in the old gate never leave it.
Reconnect ==
  /\ disposed /\ (pc = "stuck" \/ (pc = "gate" /\ ~InGate))
  /\ disposed' = FALSE /\ epoch' = epoch + 1
  /\ turn' = called /\ pc' = "gate" /\ dc' = FALSE /\ raws' = 0
  /\ number' = 0 /\ tries' = 0
  /\ UNCHANGED <<called, result, wireSeq, inFlight, rtcOpen, wire, receiver,
                 used>>

----------------------------------------------------------------------------
\* The receiver.

\* n is the first number from `next` on that no buffered packet carries.
FirstGap(n, next, buffer) ==
  /\ \A q \in buffer : q.wseq # n
  /\ \A s \in next..(n - 1) : \E q \in buffer : q.wseq = s
\* The packets of S, each once, in the order of their numbers.
BySeq(S) ==
  CHOOSE t \in [1..Cardinality(S) -> S] :
    \A i, k \in 1..Cardinality(S) : i < k => t[i] # t[k] /\ t[i].wseq <= t[k].wseq

\* What #reorderDispatch makes of packet p, given entry o (made if absent).
Late(o, p) == p.wseq < o.next
Held(o, p) == p.wseq > o.next
Hold(o, p) ==
  [o EXCEPT !.buffer = {q \in @ : q.wseq # p.wseq} \cup {p},
            !.timer = "armed"]
Release(o, n) ==
  LET rest == {q \in o.buffer : q.wseq > n}
  IN [o EXCEPT !.next = n, !.buffer = rest, !.timer = IF rest = {} THEN "off" ELSE @]

Entry(p) == IF order.present THEN order
            ELSE [NoOrder EXCEPT !.present = TRUE, !.next = p.wseq]

ReorderDispatch(p) ==
  LET o == Entry(p)
  IN /\ p \in net /\ net' = net \ {p}
     /\ base' = IF base = 0 THEN p.wseq ELSE base
     /\ \/ /\ Late(o, p)
           /\ order' = o /\ log' = Append(log, p)
        \/ /\ Held(o, p)
           /\ order' = Hold(o, p) /\ UNCHANGED log
        \/ /\ p.wseq = o.next
           /\ \E n \in (o.next + 1)..(o.next + 1 + Cardinality(o.buffer)) :
                /\ FirstGap(n, o.next + 1, o.buffer)
                /\ order' = Release(o, n)
                /\ log' = Append(log, p) \o BySeq({q \in o.buffer : q.wseq < n})
     /\ UNCHANGED <<sender, rtcOpen, raws, sent, gaveUp, used>>

\* #ORDER_HOLD_MS passed: the held packets are dispatched and the gap skipped.
FlushOrderBuffer ==
  /\ order.timer = "armed"
  /\ \/ /\ order.buffer = {}
        /\ order' = [order EXCEPT !.timer = "off"] /\ UNCHANGED <<log, gaveUp>>
     \/ \E top \in order.buffer :
          /\ \A q \in order.buffer : q.wseq <= top.wseq
          /\ order' = [order EXCEPT !.next = top.wseq + 1, !.buffer = {},
                                    !.timer = "off"]
          /\ log' = log \o BySeq({q \in order.buffer : q.wseq >= order.next})
          /\ gaveUp' = gaveUp \cup {n \in order.next..top.wseq :
                                     \A q \in order.buffer : q.wseq # n}
  /\ UNCHANGED <<sender, rtcOpen, raws, wire, base, used>>

\* #pruneOrderStates, when other streams overfill the table.
PruneOrderStates ==
  /\ used.prunes < MaxPrunes
  /\ order.present /\ order.buffer = {} /\ order.timer = "off"
  /\ used' = [used EXCEPT !.prunes = @ + 1]
  /\ order' = NoOrder
  /\ UNCHANGED <<sender, rtcOpen, raws, wire, log, base, gaveUp>>

\* A connection on the way breaks with the packet inside.
Lose(p) ==
  /\ p \in net /\ net' = net \ {p}
  /\ UNCHANGED <<sender, rtcOpen, raws, sent, receiver, used>>

----------------------------------------------------------------------------
SenderStep ==
  \/ Enter \/ WriteRtc \/ FallBack \/ PayloadFails \/ BeginRelay
  \/ RelayForwarded \/ RelayRefused \/ RelayAnswered \/ RelayTimedOut \/ GiveUp

Next ==
  \/ Call \/ SenderStep \/ RawSend \/ RawAnswered \/ ChannelFlips
  \/ Dispose \/ Reconnect
  \/ \E p \in net : ReorderDispatch(p) \/ Lose(p)
  \/ FlushOrderBuffer \/ PruneOrderStates

Spec == Init /\ [][Next]_vars

\* The event loop runs a ready continuation, a request is answered or times
\* out, a timer fires.  The network owes nothing.
FairSpec ==
  /\ Spec /\ WF_vars(SenderStep) /\ WF_vars(RawAnswered) /\ WF_vars(FlushOrderBuffer)
----------------------------------------------------------------------------
(* What the receiver promises on its own. *)

\* Messages are dispatched in call order across both paths: one that comes
\* after a later message was given up by the hold timeout, is older than the
\* first packet ever seen, or repeats a message already dispatched.  A pruned
\* stream and a new RemoteUser start over and may break the order.
OrderUnlessGivenUp ==
  used.prunes = 0 /\ epoch = 0 /\ ~disposed =>
  \A j \in DOMAIN log : \A i \in 1..(j - 1) :
    log[i].msg > log[j].msg =>
      \/ log[j].wseq \in gaveUp
      \/ log[j].wseq < base
      \/ \E h \in 1..(j - 1) : log[h].msg = log[j].msg

\* A held packet lies beyond a gap, no two share a number, and a timer runs:
\* the flush finds nothing to discard and nothing is held for ever.
HoldSound ==
  /\ order.buffer # {} => order.timer = "armed"
  /\ \A q \in order.buffer : q.wseq > order.next
  /\ \A q, r \in order.buffer : q.wseq = r.wseq => q = r

\* A message the receiver holds is dispatched in the end, whatever was lost.
HeldIsDispatched ==
  \A n \in Calls : (\E q \in order.buffer : q.msg = n)
                      ~> (\E i \in DOMAIN log : log[i].msg = n)

(* Paths, buffer and timer together are one ordered stream, through losses,   *)
(* repetitions, prunings and new RemoteUsers: a held packet is handed out      *)
(* where its number belongs, and a gap is given up only while the number       *)
(* expected is missing (user.js #reorderDispatch, #flushOrderBuffer).          *)
InOrder == INSTANCE OrderedStream WITH
             running <- order.present, next <- order.next,
             out <- log, passed <- gaveUp
WireIsStream == InOrder!Spec

----------------------------------------------------------------------------
(* What the sender promises. *)

\* A call of send() ends, with the path it took or with an error: no answer
\* that is lost, server that refuses or channel that closes blocks the gate.
\* Only dispose() can leave a call unsettled, while it waits for the drain.
SendsSettle ==
  \A n \in Calls : result[n] = "pending" /\ n > turn
                      ~> result[n] # "pending" \/ disposed
=============================================================================
