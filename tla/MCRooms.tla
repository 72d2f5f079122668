------------------------------ MODULE MCRooms ------------------------------
(* Instances of Rooms for TLC. *)
EXTENDS Rooms, TLC

CONSTANTS n1, n2, n3

Three      == {n1, n2, n3}
NoOne      == {}
GroupOnly  == {"group"}
AnyKind    == {"group", "channel"}
Alike      == Permutations(Three)
=============================================================================
