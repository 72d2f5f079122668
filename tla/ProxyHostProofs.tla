--------------------------- MODULE ProxyHostProofs ---------------------------
(***************************************************************************)
(* Proofs about the proxy's host, for any clients, handlers and bounds.    *)
(*                                                                         *)
(* Shape is the type of every variable but for the bound of the table of   *)
(* clients, which follows from Counted: a client is counted as often as it *)
(* is served.  LoopsKept is what the loops, the sockets and the flags have *)
(* to do with each other.  ListKnown relates a handler's decision to the   *)
(* registry: once a save has finished while nobody was reading, no thread  *)
(* misses the cache again, and the cache has what the registry has.        *)
(***************************************************************************)
EXTENDS ProxyHost, FiniteSetTheorems, TLAPS

Shape ==
  /\ StoreType
  /\ running \in BOOLEAN /\ broken \in BOOLEAN /\ beaconOn \in BOOLEAN /\ autostart \in BOOLEAN
  /\ loops \in 0..MaxLoops /\ stale \in 0..loops /\ beacons \in 0..MaxLoops
  /\ conn \in [Conns -> [pc : {"none", "check", "serve"}, client : Clients, late : BOOLEAN]]
  /\ active \in [Clients -> Nat]

Serving(c) == {k \in Conns : conn[k].pc = "serve" /\ conn[k].client = c}
Counted == \A c \in Clients : active[c] = Cardinality(Serving(c))

LoopsKept ==
  /\ running /\ ~broken => loops > stale
  /\ beaconOn => running

\* Only the GUI thread saves; a late connection's client is in the registry.
Late == /\ \A k \in Conns : access[k].pc # "written"
        /\ access[Gui].pc = "written" => access[Gui].val = stored
        /\ \A k \in Conns : conn[k].late => settled /\ conn[k].client \in stored /\ conn[k].pc # "serve"

ListKnown ==
  /\ cached # Miss /\ NobodyReads
  /\ access[Gui].pc = "written" \/ cached = stored
  /\ \A k \in Conns : conn[k].late /\ access[k].pc = "known" => conn[k].client \in access[k].val

\* The inductive invariant.
HostInv == Shape /\ Counted /\ LoopsKept /\ Late /\ (settled => ListKnown)

-----------------------------------------------------------------------------
(* Types.                                                                  *)

\* A connection that is none is a connection.
LEMMA NoConnIsConn ==
  NoConn \in [pc : {"none", "check", "serve"}, client : Clients, late : BOOLEAN]
  BY HostAssumption DEF NoConn

\* The steps of the store keep its type.
LEMMA StoreKeepsType ==
  ASSUME StoreType, NEW t \in Threads, StoreSteps(t)
  PROVE  StoreType'
<1>1. access[t] \in [pc : {"idle", "missed", "read", "known", "written"}, val : Values]
  BY DEF StoreType
<1>2. CASE ReadRegistry(t) BY <1>2, StoreAssumption DEF StoreType, ReadRegistry, Goes
<1>3. CASE Fill(t) BY <1>1, <1>3 DEF StoreType, Fill, Goes
<1>4. CASE WriteCache(t)
  <2>1. settled' \in BOOLEAN BY <1>4, Zenon DEF WriteCache, NobodyReads
  <2>2. stored' = stored /\ cached' = access[t].val /\ Goes(t, "idle", Default)
    BY <1>4 DEF WriteCache
  <2>3. QED BY <1>1, <2>1, <2>2, StoreAssumption DEF StoreType, Goes
<1>5. QED BY <1>2, <1>3, <1>4 DEF StoreSteps

\* So do a look into the cache, a save that goes through or fails, and a restart.
LEMMA AccessKeepsType ==
  ASSUME StoreType, NEW t \in Threads, NEW v \in Values
  PROVE  /\ Look(t) => StoreType'
         /\ \A done \in BOOLEAN : WriteRegistry(t, v, done) => StoreType'
         /\ Goes(t, "idle", Default) /\ UNCHANGED <<stored, cached, settled>> => StoreType'
         /\ Restarted => StoreType'
<1> USE StoreAssumption
<1>1. ASSUME Look(t) PROVE StoreType' BY <1>1 DEF StoreType, Look, Goes
<1>2. ASSUME NEW done \in BOOLEAN, WriteRegistry(t, v, done) PROVE StoreType'
  <2>1. settled' \in BOOLEAN BY <1>2 DEF WriteRegistry, StoreType
  <2>2. stored' \in Values BY <1>2 DEF WriteRegistry, StoreType
  <2>3. QED BY <1>2, <2>1, <2>2 DEF StoreType, WriteRegistry, Goes
<1>3. ASSUME Goes(t, "idle", Default), UNCHANGED <<stored, cached, settled>> PROVE StoreType'
  BY <1>3 DEF StoreType, Goes
<1>4. ASSUME Restarted PROVE StoreType' BY <1>4 DEF StoreType, Restarted, Rest
<1>5. QED BY <1>1, <1>2, <1>3, <1>4

\* Every step keeps the types of the host's variables.
LEMMA ShapeStep ==
  ASSUME Shape, HostNext
  PROVE  Shape'
<1> USE HostAssumption, StoreAssumption
<1>1. CASE Loops
  <2>1. StoreType' BY <1>1 DEF Loops, storeVars, Shape, StoreType
  <2>2. CASE StaleLoop BY <2>1, <2>2 DEF StaleLoop, Leave, Shape
  <2>3. CASE AcceptFails BY <2>1, <2>3 DEF AcceptFails, Shape
  <2>4. CASE BeaconEnds BY <2>1, <2>4 DEF BeaconEnds, Shape
  <2>5. QED BY <1>1, <2>2, <2>3, <2>4 DEF Loops
<1>2. ASSUME NEW k \in Conns, Handler(k) PROVE Shape'
  <2>1. ASSUME NEW c \in Clients, Accept(k, c) PROVE Shape'
    <3>1. StoreType' BY <2>1, AccessKeepsType DEF Accept, Shape
    <3>2. QED BY <2>1, <3>1 DEF Accept, Shape, StoreType
  <2>2. CASE Decide(k)
    <3>1. StoreType' BY <2>2, AccessKeepsType DEF Decide, Shape
    <3>2. QED BY <2>2, <3>1, NoConnIsConn DEF Decide, CountIn, Shape
  <2>3. CASE Finish(k)
    BY <2>3, NoConnIsConn DEF Finish, Shape, StoreType, storeVars
  <2>4. QED BY <1>2, <2>1, <2>2, <2>3 DEF Handler
<1>3. CASE Dashboard
  <2>1. ASSUME NEW v \in Values, Saves(v) PROVE Shape'
    <3>1. PICK done \in BOOLEAN : WriteRegistry(Gui, v, done) BY <2>1 DEF Saves
    <3>2. StoreType' BY <3>1, AccessKeepsType DEF Shape
    <3>3. conn' \in [Conns -> [pc : {"none", "check", "serve"}, client : Clients, late : BOOLEAN]]
      <4>1. \A k \in Conns :
              [conn[k] EXCEPT !.late = FALSE] \in [pc : {"none", "check", "serve"}, client : Clients, late : BOOLEAN]
        BY DEF Shape
      <4>2. PICK d \in BOOLEAN :
              conn' = [k \in Conns |-> IF d /\ conn[k].client \notin v
                                       THEN [conn[k] EXCEPT !.late = FALSE] ELSE conn[k]]
        BY <2>1 DEF Saves
      <4>3. QED BY <4>1, <4>2 DEF Shape
    <3>4. QED BY <2>1, <3>2, <3>3 DEF Saves, Shape
  <2>2. CASE LoadList
    BY <2>2, AccessKeepsType DEF LoadList, Shape, hostVars
  <2>3. ASSUME NEW c \in Clients, Block(c) PROVE Shape'
    <3>1. access[Gui].val \cup {c} \in Values BY DEF Shape, StoreType
    <3>2. CASE c \notin access[Gui].val BY <2>1, <2>3, <3>1, <3>2 DEF Block
    <3>3. CASE c \in access[Gui].val
      BY <2>3, <3>3, AccessKeepsType DEF Block, Shape, hostVars
    <3>4. QED BY <3>2, <3>3
  <2>4. QED BY <1>3, <2>1, <2>2, <2>3 DEF Dashboard, SaveAcl
<1>4. CASE Buttons
  <2>1. StoreType' BY <1>4 DEF Buttons, storeVars, Shape, StoreType
  <2>2. CASE StartProxy
    <3>1. autostart' \in BOOLEAN BY <2>2, Zenon DEF StartProxy, Shape
    <3>2. running' = TRUE /\ broken' = FALSE /\ loops' \in 0..MaxLoops /\ stale' \in 0..loops'
      BY <2>2 DEF StartProxy, Shape
    <3>3. beaconOn' \in BOOLEAN /\ beacons' \in 0..MaxLoops
      <4>1. CASE BeaconStarts BY <4>1 DEF BeaconStarts, Shape
      <4>2. CASE BeaconSame BY <4>2 DEF BeaconSame, Shape
      <4>3. QED BY <2>2, <4>1, <4>2 DEF StartProxy
    <3>4. UNCHANGED <<conn, active>> BY <2>2 DEF StartProxy
    <3>5. QED BY <2>1, <3>1, <3>2, <3>3, <3>4, Zenon DEF Shape
  <2>3. CASE StopProxy
    <3>1. autostart' \in BOOLEAN BY <2>3, Zenon DEF StopProxy, Shape
    <3>2. running' \in BOOLEAN /\ beaconOn' = FALSE /\ stale' = loops
          /\ UNCHANGED <<loops, broken, beacons, conn, active>>
      BY <2>3 DEF StopProxy
    <3>3. stale' \in 0..loops' BY <3>2 DEF Shape
    <3>4. QED BY <2>1, <3>1, <3>2, <3>3, Zenon DEF Shape
  <2>4. CASE Poll BY <2>1, <2>4 DEF Poll, BeaconStarts, Shape
  <2>5. QED BY <1>4, <2>2, <2>3, <2>4 DEF Buttons
<1>5. CASE (\E t \in Threads : StoreSteps(t)) /\ UNCHANGED hostVars
  BY <1>5, StoreKeepsType DEF hostVars, Shape
<1>6. CASE Restart
  <2>1. StoreType' BY <1>6, AccessKeepsType DEF Restart, Shape
  <2>2. running' \in BOOLEAN /\ loops' \in 0..MaxLoops
    <3>1. running' \in BOOLEAN BY <1>6, Zenon DEF Restart, Shape
    <3>2. loops' \in 0..MaxLoops BY <1>6 DEF Restart
    <3>3. QED BY <3>1, <3>2
  <2>3. autostart' \in BOOLEAN /\ broken' = FALSE /\ beaconOn' = FALSE
    BY <1>6, Zenon DEF Restart, Shape
  <2>4. stale' = 0 /\ beacons' = 0 /\ conn' = [k \in Conns |-> NoConn] /\ active' = [c \in Clients |-> 0]
    BY <1>6 DEF Restart
  <2>5. stale' \in 0..loops' /\ beacons' \in 0..MaxLoops BY <2>2, <2>4
  <2>6. conn' \in [Conns -> [pc : {"none", "check", "serve"}, client : Clients, late : BOOLEAN]]
    BY <2>4, NoConnIsConn
  <2>7. active' \in [Clients -> Nat] BY <2>4
  <2>8. QED BY <2>1, <2>2, <2>3, <2>5, <2>6, <2>7, Zenon DEF Shape
<1>7. QED BY <1>1, <1>2, <1>3, <1>4, <1>5, <1>6 DEF HostNext, Threading

-----------------------------------------------------------------------------
(* The loops and the table of clients.                                     *)

\* Starts, stops, loops that find the flag set again, failed accepts, polls and
\* restarts keep a loop on the socket of a server that runs.
LEMMA LoopsStep ==
  ASSUME Shape, LoopsKept, HostNext
  PROVE  LoopsKept'
<1>1. CASE UNCHANGED <<running, loops, stale, broken, beaconOn, beacons, autostart>>
  BY <1>1 DEF LoopsKept
<1>2. CASE Loops
  BY <1>2 DEF Loops, StaleLoop, Leave, AcceptFails, BeaconEnds, LoopsKept, Shape
<1>3. CASE Buttons
  <2>1. CASE StartProxy BY <2>1 DEF StartProxy, LoopsKept, Shape
  <2>2. CASE StopProxy BY <2>2 DEF StopProxy, LoopsKept
  <2>3. CASE Poll BY <2>3 DEF Poll, LoopsKept
  <2>4. QED BY <1>3, <2>1, <2>2, <2>3 DEF Buttons
<1>4. CASE Restart
  BY <1>4 DEF Restart, LoopsKept
<1>5. ASSUME NEW k \in Conns, Handler(k)
      PROVE  UNCHANGED <<running, loops, stale, broken, beaconOn, beacons, autostart>>
  BY <1>5 DEF Handler, Accept, Decide, Finish
<1>6. CASE Dashboard
  <2>1. UNCHANGED <<running, loops, stale, broken, beaconOn, beacons, autostart>>
    BY <1>6 DEF Dashboard, LoadList, Block, SaveAcl, Saves, hostVars
  <2>2. QED BY <1>1, <2>1
<1>7. CASE Threading
  BY <1>1, <1>7 DEF Threading, hostVars
<1>8. QED BY <1>1, <1>2, <1>3, <1>4, <1>5, <1>6, <1>7 DEF HostNext

\* The connections that are served and the table change together.
LEMMA CountedStep ==
  ASSUME Shape, Counted, HostNext
  PROVE  Counted'
<1> USE HostAssumption
<1>1. \A c \in Clients : Serving(c) \subseteq Conns /\ IsFiniteSet(Serving(c))
  BY FS_Subset DEF Serving
<1>2. ASSUME active' = active,
             \A k \in Conns : conn'[k].pc = "serve" <=> conn[k].pc = "serve",
             \A k \in Conns : conn[k].pc = "serve" => conn'[k].client = conn[k].client
      PROVE  Counted'
  <2>1. ASSUME NEW c \in Clients PROVE Serving(c)' = Serving(c)
    BY <1>2 DEF Serving
  <2>2. QED BY <1>2, <2>1 DEF Counted
<1>3. ASSUME NEW k \in Conns, Handler(k) PROVE Counted'
  <2>1. ASSUME NEW c \in Clients, Accept(k, c) PROVE Counted'
    <3>1. conn[k].pc = "none" /\ active' = active BY <2>1 DEF Accept
    <3>2. \A j \in Conns \ {k} : conn'[j] = conn[j] BY <2>1 DEF Accept, Shape
    <3>3. conn'[k].pc = "check" BY <2>1 DEF Accept, Shape
    <3>4. QED BY <1>2, <3>1, <3>2, <3>3
  <2>2. CASE Decide(k)
    <3> DEFINE refused == conn[k].client \in access[k].val
    <3>1. PICK c \in Clients : c = conn[k].client BY DEF Shape
    <3>2. \A j \in Conns \ {k} : conn'[j] = conn[j] BY <2>2 DEF Decide, Shape
    <3>3. conn[k].pc = "check" BY <2>2 DEF Decide
    <3>4. CASE refused
      <4>1. conn'[k] = NoConn BY <2>2, <3>4 DEF Decide, Shape
      <4>2. active' = active BY <2>2, <3>1, <3>4 DEF Decide, CountIn, Shape
      <4>3. QED BY <1>2, <3>2, <3>3, <4>1, <4>2 DEF NoConn
    <3>5. CASE ~refused
      <4>1. conn'[k].pc = "serve" /\ conn'[k].client = c BY <2>2, <3>1, <3>5 DEF Decide, Shape
      <4>2. Serving(c)' = Serving(c) \cup {k} /\ k \notin Serving(c)
        BY <3>2, <3>3, <4>1 DEF Serving
      <4>3. \A d \in Clients \ {c} : Serving(d)' = Serving(d) BY <3>2, <3>3, <4>1 DEF Serving
      <4>4. Cardinality(Serving(c)') = Cardinality(Serving(c)) + 1
        BY <1>1, <3>1, <4>2, FS_AddElement
      <4>5. active' = [active EXCEPT ![c] = @ + 1] BY <2>2, <3>1, <3>5 DEF Decide, CountIn
      <4>6. QED BY <3>1, <4>3, <4>4, <4>5 DEF Counted, Shape
    <3>6. QED BY <3>4, <3>5
  <2>3. CASE Finish(k)
    <3>1. PICK c \in Clients : c = conn[k].client /\ k \in Serving(c)
      BY <2>3 DEF Finish, Serving, Shape
    <3>2. \A j \in Conns \ {k} : conn'[j] = conn[j] BY <2>3 DEF Finish, Shape
    <3>3. conn'[k].pc = "none" BY <2>3 DEF Finish, NoConn, Shape
    <3>4. Serving(c)' = Serving(c) \ {k} BY <3>2, <3>3 DEF Serving
    <3>5. \A d \in Clients \ {c} : Serving(d)' = Serving(d) BY <3>1, <3>2, <3>3 DEF Serving
    <3>6. Cardinality(Serving(c)') = Cardinality(Serving(c)) - 1
      <4>1. IsFiniteSet(Serving(c)) BY <1>1
      <4>2. Cardinality(Serving(c) \ {k}) = Cardinality(Serving(c)) - 1
        BY <3>1, <4>1, FS_RemoveElement
      <4>3. QED BY <3>4, <4>2
    <3>7. Cardinality(Serving(c)) \in Nat /\ Cardinality(Serving(c)) # 0
      BY <1>1, <3>1, FS_CardinalityType, FS_EmptySet
    <3>8. active' = [active EXCEPT ![c] = IF @ > 0 THEN @ - 1 ELSE 0] BY <2>3, <3>1 DEF Finish
    <3>9. active[c] > 0 BY <3>1, <3>7 DEF Counted
    <3>10. QED BY <3>1, <3>5, <3>6, <3>8, <3>9 DEF Counted, Shape
  <2>4. QED BY <1>3, <2>1, <2>2, <2>3 DEF Handler
<1>4. CASE Dashboard
  <2>1. ASSUME NEW v \in Values, Saves(v) PROVE Counted'
    BY <1>2, <2>1 DEF Saves, Shape
  <2>2. CASE UNCHANGED hostVars BY <1>2, <2>2 DEF hostVars
  <2>3. ASSUME NEW c \in Clients, Block(c) PROVE Counted'
    <3>1. access[Gui].val \cup {c} \in Values BY DEF Shape, StoreType
    <3>2. QED BY <2>1, <2>2, <2>3, <3>1 DEF Block
  <2>4. QED BY <1>4, <2>1, <2>2, <2>3 DEF Dashboard, SaveAcl, LoadList
<1>5. CASE Loops \/ Buttons \/ Threading
  <2>1. UNCHANGED <<conn, active>>
    BY <1>5 DEF Loops, StaleLoop, Leave, AcceptFails, BeaconEnds, Buttons, StartProxy, StopProxy, Poll,
                Threading, hostVars
  <2>2. QED BY <1>2, <2>1
<1>6. CASE Restart
  <2>1. \A c \in Clients : Serving(c)' = {} /\ active'[c] = 0
    BY <1>6 DEF Restart, Serving, NoConn
  <2>2. QED BY <2>1, FS_EmptySet DEF Counted
<1>7. QED BY <1>3, <1>4, <1>5, <1>6 DEF HostNext

-----------------------------------------------------------------------------
(* The list of blocked clients.                                            *)

\* Only the GUI thread is ever between a save's two halves, and a connection
\* that came after a block keeps being one that the registry blocks and that is
\* not served; what the cache and the handlers have of a settled list stays right.
LEMMA ListStep ==
  ASSUME Shape, Late, settled => ListKnown, HostNext
  PROVE  Late' /\ (settled' => ListKnown')
<1> USE HostAssumption
<1> DEFINE Kept == Late' /\ (settled' => ListKnown')
<1> SUFFICES Kept OBVIOUS
<1>1. CASE Loops \/ Buttons
  <2>1. UNCHANGED <<storeVars, conn>>
    BY <1>1 DEF Loops, StaleLoop, Leave, AcceptFails, BeaconEnds, Buttons, StartProxy, StopProxy, Poll
  <2>2. Late' BY <2>1 DEF Late, storeVars
  <2>3. settled' => ListKnown' BY <2>1 DEF ListKnown, NobodyReads, storeVars
  <2>4. QED BY <2>2, <2>3
<1>2. ASSUME NEW k \in Conns, Handler(k) PROVE Kept
  <2>1. UNCHANGED <<stored, cached, settled>>
    BY <1>2 DEF Handler, Accept, Look, Decide, Finish, storeVars
  <2>2. \A j \in Conns \ {k} : conn'[j] = conn[j]
    BY <1>2 DEF Handler, Accept, Decide, Finish, Shape
  <2>3. \A t \in Threads \ {k} : access'[t] = access[t]
    BY <1>2 DEF Handler, Accept, Look, Decide, Finish, Goes, storeVars, Shape, StoreType
  <2>4. access'[k].pc # "written"
    BY <1>2 DEF Handler, Accept, Look, Decide, Finish, Goes, storeVars, Late, Shape, StoreType
  <2>5. conn'[k].late => settled /\ conn'[k].client \in stored /\ conn'[k].pc # "serve"
    <3>1. ASSUME NEW c \in Clients, Accept(k, c)
          PROVE  conn'[k].late => settled /\ conn'[k].client \in stored /\ conn'[k].pc # "serve"
      <4> DEFINE after == c \in stored /\ settled /\ access[Gui].pc # "written"
      <4>1. conn'[k] = [pc |-> "check", client |-> c, late |-> after]
        BY <3>1 DEF Accept, Shape
      <4> HIDE DEF after
      <4>2. conn'[k].client = c /\ conn'[k].pc = "check" /\ conn'[k].late = after BY <4>1
      <4>3. after => c \in stored /\ settled BY Zenon DEF after
      <4>4. QED BY <4>2, <4>3
    <3>2. CASE Decide(k)
      <4>1. CASE conn[k].client \in access[k].val
        <5>1. conn'[k] = NoConn BY <3>2, <4>1 DEF Decide, Shape
        <5>2. QED BY <5>1 DEF NoConn
      <4>2. CASE conn[k].client \notin access[k].val
        <5>1. conn'[k].late = conn[k].late BY <3>2, <4>2 DEF Decide, Shape
        <5>2. access[k].pc = "known" BY <3>2 DEF Decide
        <5>3. ~conn[k].late BY <4>2, <5>2 DEF Late, ListKnown
        <5>4. QED BY <5>1, <5>3
      <4>3. QED BY <4>1, <4>2
    <3>3. CASE Finish(k)
      <4>1. conn'[k] = NoConn BY <3>3 DEF Finish, Shape
      <4>2. QED BY <4>1 DEF NoConn
    <3>4. QED BY <1>2, <3>1, <3>2, <3>3 DEF Handler
  <2>6. Late' BY <2>1, <2>2, <2>3, <2>4, <2>5 DEF Late
  <2>7. ASSUME settled PROVE ListKnown'
    <3>1. ListKnown BY <2>7
    <3>2. access'[k].pc \notin {"missed", "read"}
      BY <1>2, <3>1 DEF Handler, Accept, Look, Decide, Finish, Goes, storeVars, ListKnown, NobodyReads,
                        Shape, StoreType
    <3>3. conn'[k].late /\ access'[k].pc = "known" => conn'[k].client \in access'[k].val
      <4>1. ASSUME NEW c \in Clients, Accept(k, c), conn'[k].late, access'[k].pc = "known"
            PROVE  conn'[k].client \in access'[k].val
        <5>1. conn'[k].client = c /\ c \in stored /\ access[Gui].pc # "written"
          BY <4>1 DEF Accept, Shape
        <5>2. access'[k].val = cached BY <4>1 DEF Accept, Look, Goes, Shape, StoreType
        <5>3. QED BY <3>1, <5>1, <5>2 DEF ListKnown
      <4>2. CASE Decide(k)
        <5>1. access'[k].pc = "idle" BY <4>2 DEF Decide, Goes, Shape, StoreType
        <5>2. QED BY <5>1
      <4>3. CASE Finish(k)
        <5>1. conn'[k] = NoConn BY <4>3 DEF Finish, Shape
        <5>2. QED BY <5>1 DEF NoConn
      <4>4. QED BY <1>2, <4>1, <4>2, <4>3 DEF Handler
    <3>4. QED BY <2>1, <2>2, <2>3, <3>1, <3>2, <3>3 DEF ListKnown, NobodyReads
  <2>8. QED BY <2>1, <2>6, <2>7
<1>3. CASE Dashboard
  <2>1. ASSUME NEW v \in Values, Saves(v), access[Gui].pc # "written" PROVE Kept
    <3>1. PICK done \in BOOLEAN :
            /\ WriteRegistry(Gui, v, done)
            /\ conn' = [k \in Conns |-> IF done /\ conn[k].client \notin v
                                     THEN [conn[k] EXCEPT !.late = FALSE] ELSE conn[k]]
      BY <2>1 DEF Saves
    <3>2. UNCHANGED <<cached, settled>> BY <3>1 DEF WriteRegistry
    <3>3. \A k \in Conns : access'[k] = access[k]
      BY <3>1 DEF WriteRegistry, Goes, Shape, StoreType
    <3>4. \A k \in Conns : conn'[k].pc = conn[k].pc /\ conn'[k].client = conn[k].client
                           /\ (conn'[k].late => conn[k].late)
      BY <3>1 DEF Shape
    <3>5. CASE done
      <4>1. stored' = v /\ access'[Gui] = [pc |-> "written", val |-> v]
        BY <3>1, <3>5 DEF WriteRegistry, Goes, Shape, StoreType
      <4>2. \A k \in Conns : conn'[k].late => conn'[k].client \in v
        BY <3>1, <3>5 DEF Shape
      <4>3. Late' BY <3>2, <3>3, <3>4, <4>1, <4>2 DEF Late
      <4>4. settled' => ListKnown' BY <3>2, <3>3, <3>4, <4>1 DEF ListKnown, NobodyReads
      <4>5. QED BY <4>3, <4>4
    <3>6. CASE ~done
      <4>1. stored' = stored /\ access'[Gui].pc = "idle"
        BY <3>1, <3>6 DEF WriteRegistry, Goes, Shape, StoreType
      <4>2. Late' BY <3>2, <3>3, <3>4, <4>1 DEF Late
      <4>3. settled' => ListKnown' BY <2>1, <3>2, <3>3, <3>4, <4>1 DEF ListKnown, NobodyReads
      <4>4. QED BY <4>2, <4>3
    <3>7. QED BY <3>5, <3>6
  <2>2. ASSUME UNCHANGED <<stored, cached, settled, conn>>,
               \A k \in Conns : access'[k] = access[k],
               access[Gui].pc # "written", access'[Gui].pc # "written",
               settled => access'[Gui].pc \notin {"missed", "read"}
        PROVE  Kept
    <3>1. Late' BY <2>2 DEF Late
    <3>2. settled' => ListKnown' BY <2>2 DEF ListKnown, NobodyReads
    <3>3. QED BY <3>1, <3>2
  <2>3. CASE LoadList
    <3>1. UNCHANGED <<stored, cached, settled, conn>> BY <2>3 DEF LoadList, Look, hostVars
    <3>2. \A k \in Conns : access'[k] = access[k]
      BY <2>3 DEF LoadList, Look, Goes, Shape, StoreType
    <3>3. access[Gui].pc # "written" /\ access'[Gui].pc # "written"
      BY <2>3 DEF LoadList, GuiFree, Look, Goes, Shape, StoreType
    <3>4. settled => access'[Gui].pc \notin {"missed", "read"}
      BY <2>3 DEF LoadList, Look, Goes, ListKnown, Shape, StoreType
    <3>5. QED BY <2>2, <3>1, <3>2, <3>3, <3>4
  <2>4. ASSUME NEW c \in Clients, Block(c) PROVE Kept
    <3>1. access[Gui].val \cup {c} \in Values BY DEF Shape, StoreType
    <3>2. CASE c \notin access[Gui].val BY <2>1, <2>4, <3>1, <3>2 DEF Block
    <3>3. CASE c \in access[Gui].val
      <4>1. UNCHANGED <<stored, cached, settled, conn>> BY <2>4, <3>3 DEF Block, hostVars
      <4>2. \A k \in Conns : access'[k] = access[k]
        BY <2>4, <3>3 DEF Block, Goes, Shape, StoreType
      <4>3. access[Gui].pc = "known" /\ access'[Gui].pc = "idle"
        BY <2>4, <3>3 DEF Block, Goes, Shape, StoreType
      <4>4. QED BY <2>2, <4>1, <4>2, <4>3
    <3>4. QED BY <3>2, <3>3
  <2>5. ASSUME NEW v \in Values, SaveAcl(v) PROVE Kept
    BY <2>1, <2>5 DEF SaveAcl, GuiFree
  <2>6. QED BY <1>3, <2>3, <2>4, <2>5 DEF Dashboard
<1>4. ASSUME NEW t \in Threads, StoreSteps(t), UNCHANGED hostVars PROVE Kept
  <2>1. stored' = stored /\ conn' = conn
    BY <1>4 DEF StoreSteps, ReadRegistry, Fill, WriteCache, hostVars
  <2>2. \A u \in Threads \ {t} : access'[u] = access[u]
    BY <1>4 DEF StoreSteps, ReadRegistry, Fill, WriteCache, Goes, Shape, StoreType
  <2>3. CASE (ReadRegistry(t) \/ Fill(t)) /\ ~settled
    <3>1. settled' = settled BY <2>3 DEF ReadRegistry, Fill
    <3>2. access'[t].pc # "written" BY <2>3 DEF ReadRegistry, Fill, Goes, Shape, StoreType
    <3>3. Late' BY <2>1, <2>2, <3>1, <3>2 DEF Late
    <3>4. QED BY <2>3, <3>1, <3>3
  <2>4. ~((ReadRegistry(t) \/ Fill(t)) /\ settled)
    BY DEF ReadRegistry, Fill, ListKnown, NobodyReads
  <2>5. CASE WriteCache(t)
    <3>1. t = Gui BY <2>5 DEF WriteCache, Late
    <3>2. access'[Gui].pc = "idle" /\ cached' = stored /\ cached' # Miss
      BY <2>5, <3>1, StoreAssumption DEF WriteCache, Goes, Late, Shape, StoreType
    <3>3. settled' = NobodyReads BY <2>5 DEF WriteCache
    <3>4. settled => settled' BY <3>3 DEF ListKnown
    <3>5. Late' BY <2>1, <2>2, <3>1, <3>2, <3>4 DEF Late
    <3>6. ASSUME settled' PROVE ListKnown'
      <4>1. NobodyReads' BY <2>2, <3>1, <3>2, <3>3, <3>6 DEF NobodyReads
      <4>2. \A k \in Conns : conn[k].late /\ access[k].pc = "known" => conn[k].client \in access[k].val
        BY DEF Late, ListKnown
      <4>3. \A k \in Conns : access'[k] = access[k] BY <2>2, <3>1
      <4>4. QED BY <2>1, <3>2, <4>1, <4>2, <4>3 DEF ListKnown
    <3>7. QED BY <3>5, <3>6
  <2>6. QED BY <1>4, <2>3, <2>4, <2>5 DEF StoreSteps
<1>5. CASE Restart
  <2>1. settled' = FALSE BY <1>5 DEF Restart, Restarted
  <2>2. Late' BY <1>5 DEF Restart, Restarted, Rest, NoConn, Late
  <2>3. QED BY <2>1, <2>2
<1>6. QED BY <1>1, <1>2, <1>3, <1>4, <1>5 DEF HostNext, Threading

-----------------------------------------------------------------------------
(* The theorems.                                                           *)

\* A host that was never started has nothing to keep.
LEMMA HostStarts == HostInit => HostInv
<1> USE HostAssumption, StoreAssumption
<1> SUFFICES ASSUME HostInit PROVE HostInv OBVIOUS
<1>1. StoreType BY DEF HostInit, Cold, Rest, StoreType
<1>2. Shape
  <2>1. loops \in 0..MaxLoops /\ stale \in 0..loops /\ beacons \in 0..MaxLoops BY DEF HostInit
  <2>2. conn \in [Conns -> [pc : {"none", "check", "serve"}, client : Clients, late : BOOLEAN]]
    BY NoConnIsConn DEF HostInit
  <2>3. active \in [Clients -> Nat] BY DEF HostInit
  <2>4. running = FALSE /\ broken = FALSE /\ beaconOn = FALSE /\ autostart = FALSE BY DEF HostInit
  <2>5. QED BY <1>1, <2>1, <2>2, <2>3, <2>4, Zenon DEF Shape
<1>3. Counted
  <2>1. \A c \in Clients : Serving(c) = {} BY DEF HostInit, NoConn, Serving
  <2>2. QED BY <2>1, FS_EmptySet DEF HostInit, Counted
<1>4. LoopsKept BY DEF HostInit, LoopsKept
<1>5. Late /\ ~settled BY DEF HostInit, Cold, Rest, NoConn, Late
<1>6. QED BY <1>2, <1>3, <1>4, <1>5 DEF HostInv

\* Every step keeps the invariant, and so does doing nothing.
LEMMA HostKeeps == HostInv /\ [HostNext]_pvars => HostInv'
<1> SUFFICES ASSUME HostInv, [HostNext]_pvars PROVE HostInv' OBVIOUS
<1>1. CASE HostNext
  BY <1>1, ShapeStep, CountedStep, LoopsStep, ListStep DEF HostInv
<1>2. CASE UNCHANGED pvars
  <2>1. Shape' BY <1>2 DEF HostInv, Shape, StoreType, pvars, hostVars, storeVars
  <2>2. Counted' BY <1>2 DEF HostInv, Counted, Serving, pvars, hostVars
  <2>3. LoopsKept' BY <1>2 DEF HostInv, LoopsKept, pvars, hostVars
  <2>4. Late' /\ (settled' => ListKnown')
    BY <1>2 DEF HostInv, Late, ListKnown, NobodyReads, pvars, hostVars, storeVars
  <2>5. QED BY <2>1, <2>2, <2>3, <2>4 DEF HostInv
<1>3. QED BY <1>1, <1>2

\* The flags, the sockets, the table of clients and the list fit together in
\* every state: the invariant the other theorems follow from.
THEOREM HostInductive == HostSpec => []HostInv
<1>1. QED BY HostStarts, HostKeeps, PTL DEF HostSpec

\* Every variable of the host keeps its type; a client is never counted more
\* often than there are handlers (_track_client, _untrack_client).
THEOREM HostTypes == HostSpec => []HostTypeOK
<1>1. HostInv => HostTypeOK
  <2> SUFFICES ASSUME HostInv PROVE HostTypeOK OBVIOUS
  <2>1. ASSUME NEW c \in Clients PROVE active[c] \in 0..Cardinality(Conns)
    <3>1. Serving(c) \subseteq Conns BY DEF Serving
    <3>2. Cardinality(Serving(c)) <= Cardinality(Conns) /\ Cardinality(Conns) \in Nat
      BY <3>1, HostAssumption, FS_Subset, FS_CardinalityType
    <3>3. QED BY <3>2 DEF HostInv, Counted, Shape
  <2>2. active \in [Clients -> 0..Cardinality(Conns)] BY <2>1 DEF HostInv, Shape
  <2>3. QED BY <2>2 DEF HostInv, Shape, HostTypeOK
<1>2. QED BY <1>1, HostInductive, PTL

\* A server that counts as running, or is announced, has a loop on its socket.
THEOREM HostIsServed == HostSpec => []AdvertisedIsServed
<1>1. HostInv => AdvertisedIsServed BY DEF HostInv, LoopsKept, AdvertisedIsServed
<1>2. QED BY <1>1, HostInductive, PTL

\* From the first save that finishes while nobody reads the registry, a client
\* that the saved list blocks is refused, for any clients and handlers.
THEOREM ListIsObeyed == HostSpec => []SavedListIsObeyed
<1>1. HostInv => SavedListIsObeyed BY DEF HostInv, Late, SavedListIsObeyed
<1>2. QED BY <1>1, HostInductive, PTL
=============================================================================
