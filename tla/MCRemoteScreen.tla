-------------------------- MODULE MCRemoteScreen ---------------------------
(* Instances of RemoteScreen for TLC. *)
EXTENDS RemoteScreen

CONSTANT v1

OneViewer  == {v1}
Nobody     == {}
=============================================================================
