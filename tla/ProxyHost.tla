------------------------------ MODULE ProxyHost ------------------------------
(***************************************************************************)
(* The host's side of the shared proxy: the server with its accept loops   *)
(* and a handler per connection, the list of blocked clients read through  *)
(* the configuration, and the beacon that tells clients where the host is. *)
(* It composes the server with the configuration store: handlers and the   *)
(* GUI thread are the threads that load and save the list.                 *)
(*                                                                         *)
(* Stopping closes the socket and clears a flag that the loops look at     *)
(* again when their wait ends; a start in between sets the flag for them   *)
(* too.  Requests are abstracted to a connection that is checked, served   *)
(* and ended.                                                              *)
(***************************************************************************)
EXTENDS ConfigStore

CONSTANTS Clients,     \* addresses of clients
          Conns,       \* handler threads that can run at once
          Gui,         \* the GUI thread
          MaxLoops     \* bound on loops of one kind alive at once

ASSUME HostAssumption ==
  /\ Threads = Conns \cup {Gui} /\ Gui \notin Conns
  /\ IsFiniteSet(Conns) /\ Clients # {}
  /\ Values = SUBSET Clients /\ Default = {}
  /\ MaxLoops \in Nat \ {0}

VARIABLES
  running,     \* ProxyServer.running
  loops,       \* accept loops alive
  stale,       \* those of them that wait on a socket that was closed
  broken,      \* history: a loop ended on an error of accept
  beaconOn,    \* HostBeacon.running
  beacons,     \* beacon threads alive
  autostart,   \* ProxyServerAutoStart
  conn,        \* each handler's connection: where it is, whose, and whether it came after a settled block
  active       \* _connected_clients[ip]["active_conns"]

hostVars == <<running, loops, stale, broken, beaconOn, beacons, autostart, conn, active>>
pvars == <<storeVars, hostVars>>

HostTypeOK ==
  /\ StoreType
  /\ running \in BOOLEAN /\ broken \in BOOLEAN /\ beaconOn \in BOOLEAN /\ autostart \in BOOLEAN
  /\ loops \in 0..MaxLoops /\ stale \in 0..loops /\ beacons \in 0..MaxLoops
  /\ conn \in [Conns -> [pc : {"none", "check", "serve"}, client : Clients, late : BOOLEAN]]
  /\ active \in [Clients -> 0..Cardinality(Conns)]

NoConn == [pc |-> "none", client |-> CHOOSE c \in Clients : TRUE, late |-> FALSE]

HostInit ==
  /\ stored = Default /\ Cold
  /\ autostart = FALSE /\ running = FALSE /\ loops = 0
  /\ stale = 0 /\ broken = FALSE /\ beaconOn = FALSE /\ beacons = 0
  /\ conn = [k \in Conns |-> NoConn]
  /\ active = [c \in Clients |-> 0]

\* The program ends, by the user or not, and starts again, with the server if
\* it ran when it was last toggled and its port is free.
Restart ==
  /\ Restarted
  /\ running' \in {FALSE, autostart} /\ loops' = IF running' THEN 1 ELSE 0
  /\ stale' = 0 /\ broken' = FALSE /\ beaconOn' = FALSE /\ beacons' = 0
  /\ conn' = [k \in Conns |-> NoConn]
  /\ active' = [c \in Clients |-> 0]
  /\ UNCHANGED autostart

GuiFree == access[Gui].pc = "idle"

-----------------------------------------------------------------------------
(* Start, stop and the loops.                                              *)

BeaconStarts == /\ beaconOn' = TRUE
                /\ beacons' = IF beaconOn THEN beacons ELSE beacons + 1
                /\ beacons' <= MaxLoops
BeaconSame == UNCHANGED <<beaconOn, beacons>>

\* The button starts a loop on a new socket, and the beacon when there is an
\* intranet address; the next start is to do the same, if the save works.
StartProxy ==
  /\ ~running
  /\ loops < MaxLoops
  /\ running' = TRUE /\ loops' = loops + 1 /\ broken' = FALSE
  /\ autostart' \in {autostart, TRUE}
  /\ BeaconStarts \/ BeaconSame
  /\ UNCHANGED <<stale, conn, active>>

StopProxy ==
  /\ running
  /\ running' = FALSE
  /\ stale' = loops
  /\ autostart' \in {autostart, FALSE}
  /\ beaconOn' = FALSE
  /\ UNCHANGED <<loops, broken, beacons, conn, active>>

\* Mutant: a loop that leaves closes the server's socket.
CloseOnLeave == /\ loops' = loops - 1 /\ stale' = loops - 1
                /\ UNCHANGED <<running, broken, beaconOn, beacons, autostart, conn, active>>
\* A loop leaves; the others keep their sockets.
Leave == /\ loops' = loops - 1 /\ stale' = stale - 1
         /\ UNCHANGED <<running, broken, beaconOn, beacons, autostart, conn, active>>

\* A loop on a closed socket: accept raises and it ends, or the wait times out
\* and it looks at the flag; set again meanwhile, it goes on with the new socket.
StaleLoop ==
  /\ stale > 0
  /\ \/ Leave
     \/ /\ running
        /\ stale' = stale - 1
        /\ UNCHANGED <<running, loops, broken, beaconOn, beacons, autostart, conn, active>>

\* Any other error of accept ends a loop, and nobody is told.
AcceptFails ==
  /\ loops > stale
  /\ broken' = TRUE
  /\ loops' = loops - 1
  /\ UNCHANGED <<running, stale, beaconOn, beacons, autostart, conn, active>>

\* The status poll starts the beacon of a server that runs without one.
Poll ==
  /\ running /\ ~beaconOn
  /\ BeaconStarts
  /\ UNCHANGED <<running, loops, stale, broken, autostart, conn, active>>

\* A beacon thread wakes from its sleep and sees that it is to end; with the
\* flag set again meanwhile it goes on beside the new one.
BeaconEnds ==
  /\ beacons > 0 /\ ~beaconOn
  /\ beacons' = beacons - 1
  /\ UNCHANGED <<running, loops, stale, broken, beaconOn, autostart, conn, active>>

Loops == (StaleLoop \/ AcceptFails \/ BeaconEnds) /\ UNCHANGED storeVars

-----------------------------------------------------------------------------
(* Connections.                                                            *)

\* A loop accepts; the handler's first act is to look up the blocked clients.
Accept(k, c) ==
  /\ loops > stale
  /\ conn[k].pc = "none"
  /\ conn' = [conn EXCEPT ![k] = [pc |-> "check", client |-> c,
                                  late |-> c \in stored /\ settled /\ access[Gui].pc # "written"]]
  /\ Look(k)
  /\ UNCHANGED <<running, loops, stale, broken, beaconOn, beacons, autostart, active>>

\* Mutant: a client is counted in before the list is looked at.
CountAll(k, refused) == active' = [active EXCEPT ![conn[k].client] = @ + 1]
CountIn(k, refused) ==
  active' = [active EXCEPT ![conn[k].client] = IF refused THEN @ ELSE @ + 1]

\* A blocked client is sent away; another is counted and served.
Decide(k) ==
  /\ conn[k].pc = "check"
  /\ access[k].pc = "known"
  /\ LET refused == conn[k].client \in access[k].val IN
     /\ CountIn(k, refused)
     /\ conn' = [conn EXCEPT ![k] = IF refused THEN NoConn ELSE [@ EXCEPT !.pc = "serve"]]
  /\ Goes(k, "idle", Default)
  /\ UNCHANGED <<stored, cached, settled, running, loops, stale, broken, beaconOn, beacons, autostart>>

\* The request is bad or blocked, the pipe ends or breaks: in every case the
\* connection is counted out.
Finish(k) ==
  /\ conn[k].pc = "serve"
  /\ active' = [active EXCEPT ![conn[k].client] = IF @ > 0 THEN @ - 1 ELSE 0]
  /\ conn' = [conn EXCEPT ![k] = NoConn]
  /\ UNCHANGED <<running, loops, stale, broken, beaconOn, beacons, autostart>>
  /\ UNCHANGED storeVars

Handler(k) == (\E c \in Clients : Accept(k, c)) \/ Decide(k) \/ Finish(k)

-----------------------------------------------------------------------------
(* The dashboard, in the GUI thread.                                       *)

Saves(v) ==
  /\ \E done \in BOOLEAN :
       /\ WriteRegistry(Gui, v, done)
       /\ conn' = [k \in Conns |-> IF done /\ conn[k].client \notin v
                                   THEN [conn[k] EXCEPT !.late = FALSE] ELSE conn[k]]
  /\ UNCHANGED <<running, loops, stale, broken, beaconOn, beacons, autostart, active>>

\* Blocking the selected client: the list is loaded,
LoadList == GuiFree /\ Look(Gui) /\ UNCHANGED hostVars
\* and saved with the client, unless it is there already.
Block(c) ==
  /\ access[Gui].pc = "known"
  /\ IF c \notin access[Gui].val THEN Saves(access[Gui].val \cup {c})
     ELSE Goes(Gui, "idle", Default) /\ UNCHANGED <<stored, cached, settled>> /\ UNCHANGED hostVars
\* The list as it was edited is saved over the old one.
SaveAcl(v) == GuiFree /\ Saves(v)

Dashboard == LoadList \/ (\E c \in Clients : Block(c)) \/ (\E v \in Values : SaveAcl(v))
Buttons == GuiFree /\ (StartProxy \/ StopProxy \/ Poll) /\ UNCHANGED storeVars
Threading == (\E t \in Threads : StoreSteps(t)) /\ UNCHANGED hostVars

HostNext == Loops \/ (\E k \in Conns : Handler(k)) \/ Dashboard \/ Buttons \/ Threading \/ Restart
HostSpec == HostInit /\ [][HostNext]_pvars

-----------------------------------------------------------------------------
(* Properties.                                                              *)

\* What the window and the beacon say is so: while the server counts as running
\* or the beacon announces it, some loop accepts on its socket, however starts
\* and stops overlap with loops that have not ended yet, unless accept failed.
AdvertisedIsServed == (running \/ beaconOn) /\ ~broken => loops > stale

\* From the first save of a run that finishes while nobody reads the registry,
\* the cache has the list: a client that the saved list blocks and that connects
\* then is not served, however lookups, further blocks, edits of the whole list
\* and saves that fail interleave.  Before such a save nothing is promised: a
\* read that fails, or that a save overtakes, leaves the wrong list in the cache.
SavedListIsObeyed == \A k \in Conns : ~(conn[k].pc = "serve" /\ conn[k].late)
=============================================================================
