------------------------------ MODULE MCWire ------------------------------
(* Instances of WireOrder for TLC; the bounds are set in the .cfg files.   *)
EXTENDS WireOrder
=============================================================================
