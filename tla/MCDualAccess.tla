---------------------------- MODULE MCDualAccess ----------------------------
(* Three internet addresses, two jobs at once, two mishaps. *)
EXTENDS DualAccess, TLC

Symmetry == Permutations(Internets) \cup Permutations(Jobs)
=============================================================================
