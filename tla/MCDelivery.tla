----------------------------- MODULE MCDelivery -----------------------------
(* Instances of ReliableDelivery for TLC: messages and sessions are           *)
(* interchangeable wherever only safety is checked.                           *)
EXTENDS ReliableDelivery, TLC

Symmetry == Permutations(Msgs) \cup Permutations(Sids)

=============================================================================
