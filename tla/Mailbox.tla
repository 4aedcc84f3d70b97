------------------------------- MODULE Mailbox -------------------------------
(***************************************************************************)
(* What the relay promises about a message, whichever way it takes: its    *)
(* sender gets one verdict; an accepted message is held until it is given  *)
(* to a client of the target, once, or dropped; a refused one is never     *)
(* given.  How a message is held, and that it is held in one place only,   *)
(* is not said here.                                                       *)
(***************************************************************************)
CONSTANT Messages

VARIABLES verdict,  \* of a message: "none", "accepted" or "refused"
          held,     \* messages on their way
          given,    \* messages a client of the target got
          dropped   \* messages nobody will get

mailVars == <<verdict, held, given, dropped>>

Init ==
  /\ verdict = [m \in Messages |-> "none"]
  /\ held = {} /\ given = {} /\ dropped = {}

\* A message is judged once.  Making room for it may drop others.
Accept(m, D) ==
  /\ verdict[m] = "none"
  /\ verdict' = [verdict EXCEPT ![m] = "accepted"]
  /\ held' = (held \ D) \cup {m} /\ dropped' = dropped \cup D
  /\ UNCHANGED given
Refuse(m, D) ==
  /\ verdict[m] = "none"
  /\ verdict' = [verdict EXCEPT ![m] = "refused"]
  /\ held' = held \ D /\ dropped' = dropped \cup D
  /\ UNCHANGED given
Give(m) ==
  /\ m \in held
  /\ held' = held \ {m} /\ given' = given \cup {m}
  /\ UNCHANGED <<verdict, dropped>>
Drop(D) ==
  /\ held' = held \ D /\ dropped' = dropped \cup D
  /\ UNCHANGED <<verdict, given>>

Next ==
  \/ \E m \in Messages, D \in SUBSET held : Accept(m, D) \/ Refuse(m, D)
  \/ \E m \in Messages : Give(m)
  \/ \E D \in SUBSET held : Drop(D)

Spec == Init /\ [][Next]_mailVars

\* The accepted messages are held, given or dropped, each one of these.
OneFate ==
  /\ {m \in Messages : verdict[m] = "accepted"} = held \cup given \cup dropped
  /\ held \cap given = {} /\ held \cap dropped = {} /\ given \cap dropped = {}
=============================================================================
