---------------------------- MODULE OrderedStream ----------------------------
(***************************************************************************)
(* What a receiver that restores the order of numbered packets promises,   *)
(* whatever brings them and however often: it hands out packets that were  *)
(* sent, in runs of ascending numbers that start where the last one ended. *)
(* A run leaves no number out, unless the number expected is missing and   *)
(* is given up with it; only a number that was passed comes late.  The     *)
(* buffer, the timer and the paths are not said here.                      *)
(***************************************************************************)
EXTENDS Integers, Sequences

VARIABLES sent,    \* packets that were ever sent, each with a number wseq
          running, \* the receiver knows where the stream is
          next,    \* the number it expects
          out,     \* packets handed out, in this order
          passed   \* numbers given up

streamVars == <<sent, running, next, out, passed>>

Init == sent = {} /\ ~running /\ next = 0 /\ out = <<>> /\ passed = {}

Send == sent \subseteq sent' /\ UNCHANGED <<running, next, out, passed>>

\* The places of `out` that a step adds, and what it adds there was sent.
Added == (Len(out) + 1)..Len(out')
Extends ==
  /\ Len(out') > Len(out) /\ \A i \in 1..Len(out) : out'[i] = out[i]
  /\ \A i \in Added : out'[i] \in sent
  /\ UNCHANGED sent

\* A run from the number `from` up to the one before the next expected.
Run(from) ==
  /\ Extends /\ running'
  /\ \A i \in Added : from <= out'[i].wseq /\ out'[i].wseq < next'
  /\ \A i, j \in Added : i < j => out'[i].wseq < out'[j].wseq
Missing(from) == {k \in from..(next' - 1) : \A i \in Added : out'[i].wseq # k}

\* The first packet says where a stream starts.
Deliver ==
  LET from == IF running THEN next ELSE out'[Len(out) + 1].wseq
  IN Run(from) /\ Missing(from) = {} /\ UNCHANGED passed
GiveUp ==
  /\ running /\ Run(next)
  /\ next \in Missing(next) /\ next' - 1 \notin Missing(next)
  /\ passed' = passed \cup Missing(next)
Late ==
  /\ running /\ Extends
  /\ Len(out') = Len(out) + 1 /\ out'[Len(out')].wseq < next
  /\ UNCHANGED <<running, next, passed>>
Forget == ~running' /\ next' = 0 /\ UNCHANGED <<sent, out, passed>>

Next == Send \/ Deliver \/ GiveUp \/ Late \/ Forget

Spec == Init /\ [][Next]_streamVars
=============================================================================
