-------------------------- MODULE MCFileTransfer ---------------------------
(* Instances of FileTransfer for TLC. *)
EXTENDS FileTransfer

CONSTANTS r1, r2

TwoReceivers == {r1, r2}
OneOrTwo     == {{r1}, {r1, r2}}
Private      == {{r1}}
=============================================================================
