----------------------------- MODULE MCProxyHost -----------------------------
(* A client, two handlers and the GUI thread, two loops of a kind alive.     *)
EXTENDS ProxyHost

CONSTANTS c1, k1, k2, gui

OneClient == {c1}
TwoConns == {k1, k2}
TheThreads == TwoConns \cup {gui}
TheLists == SUBSET OneClient
EmptyList == {}
=============================================================================
