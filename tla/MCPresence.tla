----------------------------- MODULE MCPresence -----------------------------
(* Instances of Presence for TLC: a peer on our subnet and one beyond it. *)
EXTENDS Presence

CONSTANTS near, far

Both  == {near, far}
Near  == {near}
=============================================================================
