------------------------------ MODULE MCUpdater ------------------------------
(* Four versions: an entry for one can be left when another is installed and *)
(* two more are out; two checks at once and two kills.                       *)
EXTENDS Updater
=============================================================================
