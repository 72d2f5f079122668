----------------------------- MODULE MCHistory -----------------------------
(* Instances of History for TLC: the bounds are numbers, given in the cfg. *)
EXTENDS History
=============================================================================
