----------------------------- MODULE Retention -----------------------------
(***************************************************************************)
(* What a sender-retained queue promises, whatever threads implement it:   *)
(* a message handed to the service is owed to its peer; it arrives at most *)
(* once; it is given up only after the user recalled it or because another *)
(* message with the same key was sent.                                     *)
(***************************************************************************)
CONSTANTS
  Peers,
  Msgs,
  KeyOf     \* KeyOf[m]: messages with the same key replace each other

VARIABLES issued, owed, taken, recalled

rvars == <<issued, owed, taken, recalled>>

RInit ==
  /\ issued = [p \in Peers |-> {}]
  /\ owed = [p \in Peers |-> {}]
  /\ taken = [p \in Peers |-> {}]
  /\ recalled = [p \in Peers |-> {}]

\* One call, possibly to several peers.
Promise(ps, m) ==
  /\ \A p \in ps : m \notin issued[p]
  /\ issued' = [p \in Peers |-> IF p \in ps THEN issued[p] \cup {m} ELSE issued[p]]
  /\ owed' = [p \in Peers |-> IF p \in ps THEN owed[p] \cup {m} ELSE owed[p]]
  /\ UNCHANGED <<taken, recalled>>

Arrive(p, m) ==
  /\ m \in owed[p]
  /\ owed' = [owed EXCEPT ![p] = @ \ {m}]
  /\ taken' = [taken EXCEPT ![p] = @ \cup {m}]
  /\ UNCHANGED <<issued, recalled>>

MayGiveUp(p, m, back) ==
  m \in back \/ \E n \in issued[p] \ {m} : KeyOf[n] = KeyOf[m]

GiveUp(p, S) ==
  /\ S # {} /\ S \subseteq owed[p]
  /\ \A m \in S : MayGiveUp(p, m, recalled[p])
  /\ owed' = [owed EXCEPT ![p] = @ \ S]
  /\ UNCHANGED <<issued, taken, recalled>>

\* The user recalls what waits; a message already on its way may still arrive.
Recall(p, R, S) ==
  /\ R \subseteq issued[p]
  /\ S \subseteq owed[p] \cap R
  /\ recalled' = [recalled EXCEPT ![p] = @ \cup R]
  /\ owed' = [owed EXCEPT ![p] = @ \ S]
  /\ UNCHANGED <<issued, taken>>

RNext ==
  \/ \E ps \in SUBSET Peers, m \in Msgs : Promise(ps, m)
  \/ \E p \in Peers :
       \/ \E m \in Msgs : Arrive(p, m)
       \/ \E S \in SUBSET owed[p] : GiveUp(p, S)
       \/ \E R \in SUBSET issued[p] : \E S \in SUBSET (owed[p] \cap R) : Recall(p, R, S)

RSpec == RInit /\ [][RNext]_rvars

-----------------------------------------------------------------------------
\* Every message is accounted for: it is owed, or has been taken and is not owed
\* any more, or there was a reason to give it up; nothing else is owed or taken.
Accounted ==
  \A p \in Peers :
    /\ owed[p] \cap taken[p] = {}
    /\ owed[p] \cup taken[p] \subseteq issued[p]
    /\ \A m \in issued[p] \ (owed[p] \cup taken[p]) : MayGiveUp(p, m, recalled[p])
=============================================================================
