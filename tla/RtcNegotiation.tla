--------------------------- MODULE RtcNegotiation ---------------------------
(***************************************************************************)
(* The negotiation of one WebRTC connection between two sessions           *)
(* (nos/user/rtc.js): at each end an RTCManager with one #peers entry for  *)
(* the other, the lock that serialises offers and answers, and the events  *)
(* of connections and channels, which find the entry by its key.           *)
(*                                                                         *)
(* An end may create several RTCPeerConnections one after another.  The    *)
(* entry made with a connection has that connection's name, <<e, n>>; the  *)
(* placeholder that only buffers candidates is <<e, 0>>.  Signals pass     *)
(* through a relay server, which may reorder or lose them.                 *)
(***************************************************************************)
EXTENDS Integers, Sequences, FiniteSets

CONSTANTS Ends,      \* the two sessions
          UserOf,    \* the user id of each end, ordered as strings are
          None,      \* no connection, no entry, no channel
          MaxPcs,    \* bound: connections that each end creates
          MaxFaults  \* bound: kinds of disturbance, each of which comes once

VARIABLES
  peers,      \* #peers at each end: an entry or None
  entry,      \* the fields of every entry ever made
  pc,         \* every RTCPeerConnection ever made
  half,       \* readyState of each end's half of a data channel
  lock,       \* #pcLocks: the operations of an end, the first of them runs
  step,       \* where the running operation is
  work,       \* the connection that it works on
  connecting, \* #connectPromises has the key
  initiated,  \* #rtcInitiated of the RemoteUser
  net,        \* signals on the way
  gathered,   \* connections whose candidate was sent
  faults      \* disturbances so far

rtcVars == <<peers, entry, pc, half, lock, step, work, connecting, initiated, net,
             gathered, faults>>
locks    == <<lock, step, work, connecting>>
entries  == <<peers, entry>>
browser  == <<pc, half>>

Other(e) == CHOOSE o \in Ends : o # e
Pcs      == UNION {{e} \X (1..MaxPcs[e]) : e \in Ends}
Stub(e)  == <<e, 0>>
Objects  == Pcs \cup {Stub(e) : e \in Ends}
Halves   == Pcs \X {"own", "in"}
Signals  == [kind : {"offer", "answer", "ice"}, from : Pcs]
\* The network breaks a connection, a call of disconnectUser, a lost signal.
Faults   == {"break", "disconnectUser", "loss"}
Op       == [kind : {"connect", "offer", "answer"}, from : Pcs \cup {None}]

ASSUME RtcAssumption ==
  /\ \A e \in Ends : \E o \in Ends : o # e
  /\ MaxPcs \in [Ends -> Nat] /\ None \notin Objects

\* The sessions belong to two users, whose ids compare opposite ways at the two
\* ends (#isPolite): one end is polite.
ASSUME TwoUsers ==
  /\ UserOf \in [Ends -> Int]
  /\ \E x, y \in Ends : Ends = {x, y} /\ UserOf[x] < UserOf[y]

PcStates == [sig : {"none", "stable", "have-local-offer", "have-remote-offer", "closed"},
             conn : {"new", "connected", "failed", "closed"},
             remote : Pcs \cup {None}, added : SUBSET Pcs]
EntryStates == [state : {"connecting", "connected", "disconnected"},
                dc : Halves \cup {None}, pend : SUBSET Pcs]
Steps    == {"start", "setLocal", "apply", "answer", "send"}

NoPc     == [sig |-> "none", conn |-> "new", remote |-> None, added |-> {}]
FreshPc  == [NoPc EXCEPT !.sig = "stable"]
NewEntry(dc, pend) == [state |-> "connecting", dc |-> dc, pend |-> pend]

RtcTypeOK ==
  /\ peers \in [Ends -> Objects \cup {None}]
  /\ entry \in [Objects -> EntryStates] /\ pc \in [Pcs -> PcStates]
  /\ half \in [Halves -> {"none", "connecting", "open", "closed"}]
  /\ lock \in [Ends -> Seq(Op)]
  /\ step \in [Ends -> Steps]
  /\ work \in [Ends -> Pcs \cup {None}]
  /\ connecting \in [Ends -> BOOLEAN] /\ initiated \in [Ends -> BOOLEAN]
  /\ net \subseteq Signals /\ gathered \subseteq Pcs
  /\ faults \subseteq Faults

RtcInit ==
  /\ peers = [e \in Ends |-> None]
  /\ entry = [o \in Objects |-> NewEntry(None, {})]
  /\ pc = [p \in Pcs |-> NoPc]
  /\ half = [h \in Halves |-> "none"]
  /\ lock = [e \in Ends |-> <<>>] /\ step = [e \in Ends |-> "start"]
  /\ work = [e \in Ends |-> None]
  /\ connecting = [e \in Ends |-> FALSE] /\ initiated = [e \in Ends |-> FALSE]
  /\ net = {} /\ gathered = {} /\ faults = {}

----------------------------------------------------------------------------
\* What the code reads.

HasPc(e) == peers[e] # None /\ peers[e] # Stub(e)
DcOpen(e) ==
  peers[e] # None /\ entry[peers[e]].dc # None /\ half[entry[peers[e]].dc] = "open"
PcUsable(e) == IF HasPc(e) THEN pc[peers[e]].conn # "closed" ELSE FALSE

\* Faulty variant: #doConnect does not look again once it has the lock.
NeverTakenOver(e) == FALSE

TakenOver(e) == PcUsable(e) /\ pc[peers[e]].remote # None
OfferOut(e) == HasPc(e) /\ pc[peers[e]].sig = "have-local-offer"
UnusedPcs(e) == {p \in Pcs : p[1] = e /\ pc[p].sig = "none"}
NextPc(e) == CHOOSE p \in UnusedPcs(e) : TRUE
Pending(e) == IF peers[e] = None THEN {} ELSE entry[peers[e]].pend
Running(e, kind) == lock[e] # <<>> /\ Head(lock[e]).kind = kind
Sig(p, s) == [pc EXCEPT ![p].sig = s]

\* Faulty variant: both ends insist on their own offers.
NeverPolite(e) == FALSE

IsPolite(e) == UserOf[e] < UserOf[Other(e)]

----------------------------------------------------------------------------
\* Helpers that change state.

\* The finally of #withPcLock, and of connect() for its promise.
Leave(e) ==
  /\ lock' = [lock EXCEPT ![e] = Tail(@)]
  /\ step' = [step EXCEPT ![e] = "start"]
  /\ work' = [work EXCEPT ![e] = None]
  /\ connecting' = [connecting EXCEPT ![e] = @ /\ ~Running(e, "connect")]

Fault(kind) ==
  /\ kind \notin faults /\ Cardinality(faults) < MaxFaults
  /\ faults' = faults \cup {kind}

Goto(e, s, p) ==
  /\ step' = [step EXCEPT ![e] = s] /\ work' = [work EXCEPT ![e] = p]
  /\ UNCHANGED <<lock, connecting>>

Enqueue(e, op) == lock' = [lock EXCEPT ![e] = Append(@, op)]

Send(kind, from) == net' = net \cup {[kind |-> kind, from |-> from]}

\* Faulty variant: the state reported is not one that the code handles.
CloseAsDisconnected(p) ==
  IF p = None THEN UNCHANGED browser
  ELSE pc' = [pc EXCEPT ![p].conn = "disconnected"] /\ UNCHANGED half

\* pc.close(): both channels of the connection close without local events.
Close(p) ==
  IF p = None THEN UNCHANGED browser
  ELSE /\ pc' = [pc EXCEPT ![p].sig = "closed", ![p].conn = "closed"]
       /\ half' = [h \in Halves |-> IF h[1] = p /\ half[h] # "none" THEN "closed"
                                    ELSE half[h]]

\* #teardownPeer of the entry under the key, with the connection it is told to
\* close; rtc_state(disconnected) clears the mark of the RemoteUser.
Teardown(e, p) ==
  /\ entry' = [entry EXCEPT ![peers[e]].state = "disconnected"]
  /\ peers' = [peers EXCEPT ![e] = None]
  /\ Close(p)
  /\ initiated' = [initiated EXCEPT ![e] = FALSE]

\* setRemoteDescription and #flushPendingCandidates: a candidate of another
\* connection than the description's is refused.
Describe(e, p, from, s) ==
  /\ pc' = [pc EXCEPT ![p].remote = from, ![p].sig = s,
                      ![p].added = @ \cup (entry[p].pend \cap {from})]
  /\ entry' = [entry EXCEPT ![p].pend = {}]

----------------------------------------------------------------------------
\* Operations under the lock.

\* RemoteUser.send starts a connection once; connect() skips what is connected
\* or negotiating, and joins an attempt under way.
ConnectPeer(e) ==
  /\ ~initiated[e]
  /\ initiated' = [initiated EXCEPT ![e] = TRUE]
  /\ IF \/ peers[e] # None /\ entry[peers[e]].state = "connected"
        \/ DcOpen(e)
        \/ HasPc(e) /\ pc[peers[e]].sig \notin {"stable", "closed"}
        \/ connecting[e]
     THEN UNCHANGED <<lock, connecting>>
     ELSE /\ Enqueue(e, [kind |-> "connect", from |-> None])
          /\ connecting' = [connecting EXCEPT ![e] = TRUE]
  /\ UNCHANGED <<entries, browser, step, work, net, gathered, faults>>

\* #doConnect has the lock: give way to an open channel or to a connection that
\* an offer of the other end took over.
DoConnectGivesWay(e) ==
  /\ Running(e, "connect") /\ step[e] = "start"
  /\ DcOpen(e) \/ TakenOver(e)
  /\ Leave(e)
  /\ UNCHANGED <<entries, browser, initiated, net, gathered, faults>>

DoConnect(e) ==
  /\ Running(e, "connect") /\ step[e] = "start" /\ ~DcOpen(e) /\ ~TakenOver(e)
  /\ UnusedPcs(e) # {}
  /\ LET p == NextPc(e) IN
     /\ pc' = [pc EXCEPT ![p] = FreshPc]
     /\ half' = [half EXCEPT ![<<p, "own">>] = "connecting"]
     /\ entry' = [entry EXCEPT ![p] = NewEntry(<<p, "own">>, Pending(e))]
     /\ peers' = [peers EXCEPT ![e] = p]
     /\ Goto(e, "setLocal", p)
  /\ UNCHANGED <<initiated, net, gathered, faults>>

\* createOffer and setLocalDescription; they reject when the connection was
\* closed meanwhile.
SetLocalOffer(e) ==
  /\ step[e] = "setLocal"
  /\ IF pc[work[e]].sig = "closed" THEN Leave(e) /\ UNCHANGED pc
     ELSE pc' = Sig(work[e], "have-local-offer") /\ Goto(e, "send", work[e])
  /\ UNCHANGED <<entries, half, initiated, net, gathered, faults>>

\* #handleOffer ignores an offer: a channel is open, or both ends have made one
\* and this end is impolite.
IgnoreOffer(e) ==
  /\ Running(e, "offer") /\ step[e] = "start"
  /\ DcOpen(e) \/ (OfferOut(e) /\ ~IsPolite(e))
  /\ Leave(e)
  /\ UNCHANGED <<entries, browser, initiated, net, gathered, faults>>

\* The polite end rolls its own offer back and forgets the channel made with it.
RollBack(e) ==
  /\ Running(e, "offer") /\ step[e] = "start"
  /\ ~DcOpen(e) /\ OfferOut(e) /\ IsPolite(e)
  /\ pc' = Sig(peers[e], "stable")
  /\ entry' = [entry EXCEPT ![peers[e]].dc = None]
  /\ Goto(e, "apply", peers[e])
  /\ UNCHANGED <<peers, half, initiated, net, gathered, faults>>

\* An offer with no usable connection: a new one, which keeps the channel and
\* the buffered candidates of the entry that it replaces.
AcceptOnNewPc(e) ==
  /\ Running(e, "offer") /\ step[e] = "start" /\ ~DcOpen(e)
  /\ ~PcUsable(e)
  /\ UnusedPcs(e) # {}
  /\ LET p == NextPc(e)
         dc == IF peers[e] = None THEN None ELSE entry[peers[e]].dc
     IN /\ pc' = [pc EXCEPT ![p] = FreshPc]
        /\ entry' = [entry EXCEPT ![p] = NewEntry(dc, Pending(e))]
        /\ peers' = [peers EXCEPT ![e] = p]
        /\ Goto(e, "apply", p)
  /\ UNCHANGED <<half, initiated, net, gathered, faults>>

\* The connection in use takes the offer.
AcceptOnOldPc(e) ==
  /\ Running(e, "offer") /\ step[e] = "start" /\ ~DcOpen(e)
  /\ PcUsable(e) /\ ~OfferOut(e)
  /\ Goto(e, "apply", peers[e])
  /\ UNCHANGED <<entries, browser, initiated, net, gathered, faults>>

\* setRemoteDescription(offer): fails on a closed connection, and may fail on
\* one that was described by another remote connection before.
ApplyOffer(e) ==
  /\ step[e] = "apply"
  /\ LET p == work[e]  from == Head(lock[e]).from IN
     \/ /\ pc[p].sig # "closed"
        /\ Describe(e, p, from, "have-remote-offer")
        /\ Goto(e, "answer", p)
     \/ /\ pc[p].sig = "closed" \/ pc[p].remote \notin {None, from}
        /\ Leave(e) /\ UNCHANGED <<pc, entry>>
  /\ UNCHANGED <<peers, half, initiated, net, gathered, faults>>

SetLocalAnswer(e) ==
  /\ step[e] = "answer"
  /\ IF pc[work[e]].sig = "closed" THEN Leave(e) /\ UNCHANGED pc
     ELSE pc' = Sig(work[e], "stable") /\ Goto(e, "send", work[e])
  /\ UNCHANGED <<entries, half, initiated, net, gathered, faults>>

\* #sendSignal under the lock.  The wait for the relay's answer only delays what
\* queues behind it, as the network may do, so it is part of this step.
SendSignal(e) ==
  /\ step[e] = "send"
  /\ Send(IF Running(e, "connect") THEN "offer" ELSE "answer", work[e])
  /\ Leave(e)
  /\ UNCHANGED <<entries, browser, initiated, gathered, faults>>

\* The relay refuses the signal: the operation rejects, its entry stays.
SendFails(e) ==
  /\ step[e] = "send" /\ Fault("loss")
  /\ Leave(e)
  /\ UNCHANGED <<entries, browser, initiated, net, gathered>>

\* #handleAnswer: only a connection with an offer out takes an answer.
HandleAnswer(e) ==
  /\ Running(e, "answer") /\ step[e] = "start"
  /\ IF OfferOut(e) THEN Describe(e, peers[e], Head(lock[e]).from, "stable")
     ELSE UNCHANGED <<pc, entry>>
  /\ Leave(e)
  /\ UNCHANGED <<peers, half, initiated, net, gathered, faults>>

----------------------------------------------------------------------------
\* Signals.

To(m) == Other(m.from[1])

\* handleSignal: offers and answers queue for the lock.
HandleSignal(m) ==
  /\ m \in net /\ m.kind # "ice" /\ net' = net \ {m}
  /\ Enqueue(To(m), [kind |-> m.kind, from |-> m.from])
  /\ UNCHANGED <<entries, browser, step, work, connecting, initiated, gathered,
                 faults>>

\* #handleIce runs outside the lock: buffer, or add to the connection in use.
HandleIce(m) ==
  /\ m \in net /\ m.kind = "ice" /\ net' = net \ {m}
  /\ LET e == To(m)  o == IF peers[e] = None THEN Stub(e) ELSE peers[e]
         c == m.from
     IN IF ~HasPc(e) \/ pc[o].remote = None \/ pc[o].sig = "have-local-offer"
        THEN /\ peers' = [peers EXCEPT ![e] = o]
             /\ entry' = [entry EXCEPT ![o] =
                  IF peers[e] = None THEN NewEntry(None, {c})
                  ELSE [entry[o] EXCEPT !.pend = @ \cup {c}]]
             /\ UNCHANGED pc
        ELSE /\ pc' = [pc EXCEPT ![o].added =
                  IF pc[o].remote = c /\ pc[o].sig # "closed" THEN @ \cup {c} ELSE @]
             /\ UNCHANGED entries
  /\ UNCHANGED <<half, locks, initiated, gathered, faults>>

\* onicecandidate, once a local description is set; not under the lock.
EmitCandidate(p) ==
  /\ p \notin gathered /\ pc[p].conn = "new"
  /\ pc[p].sig = "have-local-offer" \/ (pc[p].sig = "stable" /\ pc[p].remote # None)
  /\ gathered' = gathered \cup {p} /\ Send("ice", p)
  /\ UNCHANGED <<entries, browser, locks, initiated, faults>>

LoseSignal(m) ==
  /\ m \in net /\ Fault("loss")
  /\ net' = net \ {m}
  /\ UNCHANGED <<entries, browser, locks, initiated, gathered>>

----------------------------------------------------------------------------
\* Events of the browser.

\* Two connections that hold each other's descriptions and an address.
Linked(p, q) ==
  /\ pc[p].remote = q /\ pc[q].remote = p
  /\ pc[p].sig = "stable" /\ pc[q].sig = "stable"
  /\ pc[p].conn \in {"new", "connected"} /\ pc[q].conn \in {"new", "connected"}
  /\ q \in pc[p].added \/ p \in pc[q].added

MarkConnected(e) ==
  entry' = IF peers[e] = None THEN entry
           ELSE [entry EXCEPT ![peers[e]].state = "connected"]

\* onconnectionstatechange, "connected".
PcConnects(p) ==
  /\ pc[p].conn = "new" /\ \E q \in Pcs : Linked(p, q)
  /\ pc' = [pc EXCEPT ![p].conn = "connected"]
  /\ MarkConnected(p[1])
  /\ UNCHANGED <<peers, half, locks, initiated, net, gathered, faults>>

\* dc.onopen of the channel that this end created.
DcOpens(p) ==
  /\ half[<<p, "own">>] = "connecting" /\ pc[p].conn = "connected"
  /\ \E q \in Pcs : Linked(p, q) /\ pc[q].conn = "connected"
  /\ half' = [half EXCEPT ![<<p, "own">>] = "open"]
  /\ MarkConnected(p[1])
  /\ UNCHANGED <<peers, pc, locks, initiated, net, gathered, faults>>

\* ondatachannel, and onopen right after it.
DcArrives(p) ==
  /\ half[<<p, "in">>] = "none" /\ pc[p].conn = "connected"
  /\ \E q \in Pcs : Linked(p, q) /\ half[<<q, "own">>] = "open"
  /\ half' = [half EXCEPT ![<<p, "in">>] = "open"]
  /\ entry' = IF peers[p[1]] = None THEN entry
              ELSE [entry EXCEPT ![peers[p[1]]].dc = <<p, "in">>,
                                 ![peers[p[1]]].state = "connected"]
  /\ UNCHANGED <<peers, pc, locks, initiated, net, gathered, faults>>

\* onconnectionstatechange, "failed" or "disconnected": whatever entry is under
\* the key is torn down, with the connection of the event.
PcFails(p) ==
  LET e == p[1] IN
  IF peers[e] = None
  THEN /\ pc' = [pc EXCEPT ![p].conn = "failed"]
       /\ UNCHANGED <<entries, half, initiated>>
  ELSE Teardown(e, p)

\* ICE gives up on descriptions that do not fit, or on a peer that is gone.
Hopeless(p) ==
  /\ pc[p].sig = "stable" /\ pc[p].conn \in {"new", "connected"} /\ pc[p].remote # None
  /\ LET q == pc[p].remote IN
     \/ pc[q].sig = "closed" \/ pc[q].conn = "failed"
     \/ pc[q].sig = "stable" /\ pc[q].remote # p

PcGivesUp(p) ==
  /\ Hopeless(p) /\ PcFails(p)
  /\ UNCHANGED <<locks, net, gathered, faults>>

\* The network breaks a connection.
PcBreaks(p) ==
  /\ pc[p].conn = "connected" /\ Fault("break")
  /\ PcFails(p)
  /\ UNCHANGED <<locks, net, gathered>>

\* dc.onclose: the other end closed the connection.
DcCloses(h) ==
  LET p == h[1]  e == p[1]  IN
  /\ half[h] = "open" /\ Hopeless(p)
  /\ IF peers[e] = None
     THEN half' = [half EXCEPT ![h] = "closed"] /\ UNCHANGED <<entries, pc, initiated>>
     ELSE LET target == IF HasPc(e) THEN peers[e] ELSE None IN
          /\ entry' = [entry EXCEPT ![peers[e]].state = "disconnected"]
          /\ peers' = [peers EXCEPT ![e] = None]
          /\ pc' = IF target = None THEN pc
                   ELSE [pc EXCEPT ![target].sig = "closed", ![target].conn = "closed"]
          /\ half' = [g \in Halves |->
               IF g = h \/ (g[1] = target /\ half[g] # "none") THEN "closed" ELSE half[g]]
          /\ initiated' = [initiated EXCEPT ![e] = FALSE]
  /\ UNCHANGED <<locks, net, gathered, faults>>

\* LocalUser.disconnectUser: disconnectAllForUser, and a RemoteUser that starts
\* without the mark when the user is connected again.
DisconnectUser(e) ==
  /\ Fault("disconnectUser")
  /\ IF HasPc(e) THEN Teardown(e, peers[e])
     ELSE /\ peers' = [peers EXCEPT ![e] = None]
          /\ initiated' = [initiated EXCEPT ![e] = FALSE]
          /\ UNCHANGED <<entry, browser>>
  /\ UNCHANGED <<locks, net, gathered>>

----------------------------------------------------------------------------
Operation(e) ==
  \/ DoConnectGivesWay(e) \/ DoConnect(e) \/ SetLocalOffer(e)
  \/ IgnoreOffer(e) \/ RollBack(e) \/ AcceptOnNewPc(e) \/ AcceptOnOldPc(e)
  \/ ApplyOffer(e) \/ SetLocalAnswer(e)
  \/ SendSignal(e) \/ HandleAnswer(e)

Signalling(m) == HandleSignal(m) \/ HandleIce(m)

Event(p) ==
  \/ EmitCandidate(p) \/ PcConnects(p) \/ DcOpens(p) \/ DcArrives(p) \/ PcGivesUp(p)
  \/ \E k \in {"own", "in"} : DcCloses(<<p, k>>)

RtcNext ==
  \/ \E e \in Ends : ConnectPeer(e) \/ Operation(e) \/ SendFails(e) \/ DisconnectUser(e)
  \/ \E m \in net : Signalling(m) \/ LoseSignal(m)
  \/ \E p \in Pcs : Event(p) \/ PcBreaks(p)

RtcSpec == RtcInit /\ [][RtcNext]_rtcVars

----------------------------------------------------------------------------
Quiet == net = {} /\ \A e \in Ends : lock[e] = <<>>
Undisturbed == faults = {}

\* While no signal is lost and nothing breaks, the negotiation comes to its end
\* for any timing of two attempts, of offers that cross and of late signals:
\* when nothing is under way, both ends hold connections that describe each other.
QuietMeansPaired ==
  Quiet /\ Undisturbed => \A e \in Ends : HasPc(e) =>
     /\ HasPc(Other(e)) /\ pc[peers[e]].sig = "stable"
     /\ pc[peers[e]].remote = peers[Other(e)]

\* No connection lives on unseen: one that is connected is the one under the
\* key, so getChannel, disconnectUser and the teardown reach it, however late
\* the events of an earlier connection come.
Reachable == \A p \in Pcs : pc[p].conn = "connected" => peers[p[1]] = p
=============================================================================
