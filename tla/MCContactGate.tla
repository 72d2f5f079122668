--------------------------- MODULE MCContactGate ---------------------------
(* An instance of ContactGate for TLC: two messages of one peer. *)
EXTENDS ContactGate, TLC

CONSTANTS p1, m1, m2

OnePeer == {p1}
TwoMsgs == {m1, m2}
FromP1  == m1 :> p1 @@ m2 :> p1
=============================================================================
