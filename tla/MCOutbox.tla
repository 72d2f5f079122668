----------------------------- MODULE MCOutbox ------------------------------
(* An instance of Outbox for TLC: one peer, one text to it, one group. *)
EXTENDS Outbox, TLC

CONSTANTS p1, t1, g1

OnePeer  == {p1}
OneText  == {t1}
OneGroup == {g1}
ToP1     == t1 :> {p1}
=============================================================================
