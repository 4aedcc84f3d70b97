------------------------------ MODULE MCInbox ------------------------------
(* Instances of RelayInbox for TLC: connections and senders are               *)
(* interchangeable wherever only safety is checked.                           *)
EXTENDS RelayInbox, TLC

Symmetry == Permutations(Conns) \cup Permutations(Senders)

=============================================================================
