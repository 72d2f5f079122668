--------------------------- MODULE MCConversation ---------------------------
(* Instances of Conversation for TLC: one text to one peer. *)
EXTENDS Conversation, TLC

CONSTANTS p1, t1

OnePeer  == {p1}
OneText  == {t1}
NoGroups == {}
ToP1     == t1 :> {p1}
=============================================================================
