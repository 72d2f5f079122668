---------------------------- MODULE RemoteScreen ----------------------------
(***************************************************************************)
(* The host's side of a screen session: RemoteScreenService and            *)
(* HostSession (nst/remotescreen.py) with the sharing banner and the       *)
(* approval box of RemoteHostController (nst/qt/remote_window.py).         *)
(*                                                                         *)
(* A session has up to three threads in it: the handler, which becomes its *)
(* capture loop; its input loop; and the GUI thread, when the user presses *)
(* Stop or switches sharing off.  Each of them may run HostSession.stop(). *)
(* at[v][thread] says where they are.  The GUI thread stops the sessions   *)
(* of a snapshot one after the other; the turns touch different sessions,  *)
(* so the model lets them overlap.                                         *)
(***************************************************************************)
EXTENDS Naturals, Sequences, FiniteSets

CONSTANTS
  Viewers,    \* connections of peers, one session each
  Trusted,    \* those that present the unattended secret
  MaxSaves    \* bound: how often the settings are saved

ASSUME RemoteAssumption == Trusted \subseteq Viewers /\ MaxSaves \in Nat

VARIABLES
  enabled,    \* config: allow others to view this PC
  unattended, \* config: let in without asking who knows the secret
  saves,      \* how often the settings were saved
  on,         \* RemoteScreenService.running
  binding,    \* server threads that have still to bind the port
  listening,  \* a server thread holds the port and accepts
  viewer,     \* the peer's end: away, here, stalled (not reading), gone
  conn,       \* our end of the socket: none, open, closed
  at,         \* at[v][thread]
  live,       \* live[v]: HostSession._running
  sessions,   \* _sessions
  answer,     \* answer[v]: what the user said to v's request
  boxes,      \* request boxes on the screen, the newest last
  signals,    \* queued for the GUI thread
  banner      \* sessions with a banner (_indicators)

config  == <<enabled, unattended, saves>>
server  == <<on, binding, listening>>
gui     == <<answer, boxes, banner>>
svars   == <<config, server, viewer, conn, at, live, sessions, gui, signals>>

Threads == {"host", "input", "gui"}
Stopping == {"stop", "clear", "bye", "end"}
PC == [host  |-> {"none", "hello", "policy", "waiting", "register", "announce", "begin",
                  "accept", "capture", "grab", "sending", "done"} \cup Stopping,
       input |-> {"none", "read", "done"} \cup Stopping,
       gui   |-> {"none", "done"} \cup Stopping]

Signal == [type : {"request", "started", "stopped"}, of : Viewers]

RemoteTypeOK ==
  /\ enabled \in BOOLEAN /\ unattended \in BOOLEAN /\ saves \in 0..MaxSaves
  /\ on \in BOOLEAN /\ binding \in 0..(MaxSaves + 1) /\ listening \in BOOLEAN
  /\ viewer \in [Viewers -> {"away", "here", "stalled", "gone"}]
  /\ conn \in [Viewers -> {"none", "open", "closed"}]
  /\ \A v \in Viewers : /\ DOMAIN at[v] = Threads
                        /\ \A th \in Threads : at[v][th] \in PC[th]
  /\ live \in [Viewers -> BOOLEAN]
  /\ sessions \subseteq Viewers /\ banner \subseteq Viewers
  /\ answer \in [Viewers -> {"none", "yes", "no"}]
  /\ boxes \in Seq(Viewers)
  /\ signals \in Seq(Signal)

\* The program has started, with sharing on or off.
SInit ==
  /\ enabled \in BOOLEAN /\ unattended \in BOOLEAN /\ saves = 0
  /\ on = enabled /\ listening = FALSE
  /\ binding = IF enabled THEN 1 ELSE 0
  /\ viewer = [v \in Viewers |-> "away"]
  /\ conn = [v \in Viewers |-> "none"]
  /\ at = [v \in Viewers |-> [th \in Threads |-> "none"]]
  /\ live = [v \in Viewers |-> FALSE]
  /\ sessions = {} /\ banner = {}
  /\ answer = [v \in Viewers |-> "none"]
  /\ boxes = <<>> /\ signals = <<>>

Goto(v, th, from, to) == at[v][th] = from /\ at' = [at EXCEPT ![v][th] = to]
Emit(type, v)         == signals' = Append(signals, [type |-> type, of |-> v])
CloseSock(v)          == conn' = [conn EXCEPT ![v] = "closed"]

-----------------------------------------------------------------------------
(* The server threads (_server_loop).                                      *)

Bind ==
  /\ binding > 0 /\ ~listening
  /\ binding' = binding - 1
  /\ listening' = TRUE
  /\ UNCHANGED <<config, on, viewer, conn, at, live, sessions, gui, signals>>

\* The port is taken: the service is told that it does not run.
BindFails ==
  /\ binding > 0 /\ listening
  /\ binding' = binding - 1
  /\ on' = FALSE
  /\ UNCHANGED <<config, listening, viewer, conn, at, live, sessions, gui, signals>>

\* The loop looks at running between two accepts of a second each.
ListenerExits ==
  /\ listening /\ ~on
  /\ listening' = FALSE
  /\ UNCHANGED <<config, on, binding, viewer, conn, at, live, sessions, gui, signals>>

Connect(v) ==
  /\ viewer[v] = "away" /\ listening
  /\ viewer' = [viewer EXCEPT ![v] = "here"]
  /\ conn' = [conn EXCEPT ![v] = "open"]
  /\ Goto(v, "host", "none", "hello")
  /\ UNCHANGED <<config, server, live, sessions, gui, signals>>

-----------------------------------------------------------------------------
(* The handler (_handle_session) and the capture loop it becomes.          *)

ReadHello(v) ==
  /\ \/ viewer[v] = "here" /\ Goto(v, "host", "hello", "policy") /\ UNCHANGED conn
     \/ viewer[v] # "here" /\ Goto(v, "host", "hello", "done") /\ CloseSock(v)
  /\ UNCHANGED <<config, server, viewer, live, sessions, gui, signals>>

Policy(v) ==
  /\ \/ ~enabled /\ Goto(v, "host", "policy", "done") /\ CloseSock(v) /\ UNCHANGED signals
     \/ /\ enabled /\ unattended /\ v \in Trusted
        /\ Goto(v, "host", "policy", "register") /\ UNCHANGED <<conn, signals>>
     \/ /\ enabled /\ ~(unattended /\ v \in Trusted)
        /\ Goto(v, "host", "policy", "waiting") /\ Emit("request", v) /\ UNCHANGED conn
  /\ UNCHANGED <<config, server, viewer, live, sessions, gui>>

\* Mutant: respond() does not set the event, so every answer comes too late.
DecidedTooLate(v) ==
  /\ Goto(v, "host", "waiting", "done") /\ CloseSock(v)
  /\ UNCHANGED <<config, server, viewer, live, sessions, gui, signals>>

\* The decision, or the timeout, after which an answer comes too late.
Decided(v) ==
  /\ \/ answer[v] = "yes" /\ Goto(v, "host", "waiting", "register") /\ UNCHANGED conn
     \/ answer[v] # "yes" /\ Goto(v, "host", "waiting", "done") /\ CloseSock(v)
  /\ UNCHANGED <<config, server, viewer, live, sessions, gui, signals>>

Register(v) ==
  /\ Goto(v, "host", "register", "announce")
  /\ sessions' = sessions \cup {v}
  /\ UNCHANGED <<config, server, viewer, conn, live, gui, signals>>

Announce(v) ==
  /\ Goto(v, "host", "announce", "begin")
  /\ Emit("started", v)
  /\ UNCHANGED <<config, server, viewer, conn, live, sessions, gui>>

Begin(v) ==
  /\ Goto(v, "host", "begin", "accept")
  /\ live' = [live EXCEPT ![v] = TRUE]
  /\ UNCHANGED <<config, server, viewer, conn, sessions, gui, signals>>

Reachable(v) == conn[v] = "open" /\ viewer[v] # "gone"

\* Mutant: the two loops are given each other's thread.
SendAcceptSwapped(v) ==
  /\ at[v]["host"] = "accept"
  /\ \/ /\ Reachable(v)
        /\ at' = [at EXCEPT ![v]["host"] = "read", ![v]["input"] = "capture"]
        /\ UNCHANGED conn
     \/ /\ ~Reachable(v)
        /\ at' = [at EXCEPT ![v]["host"] = "done"]
        /\ CloseSock(v)
  /\ UNCHANGED <<config, server, viewer, live, sessions, gui, signals>>

\* SF_ACCEPT; when it cannot be sent, _handle_session closes the socket and ends.
SendAccept(v) ==
  /\ at[v]["host"] = "accept"
  /\ \/ /\ Reachable(v)
        /\ at' = [at EXCEPT ![v]["host"] = "capture", ![v]["input"] = "read"]
        /\ UNCHANGED conn
     \/ /\ ~Reachable(v)
        /\ at' = [at EXCEPT ![v]["host"] = "done"]
        /\ CloseSock(v)
  /\ UNCHANGED <<config, server, viewer, live, sessions, gui, signals>>

CaptureTest(v) ==
  /\ Goto(v, "host", "capture", IF live[v] /\ on THEN "grab" ELSE "stop")
  /\ UNCHANGED <<config, server, viewer, conn, live, sessions, gui, signals>>

\* The frame is ready; _send_frame takes the send lock, before or after a stop()
\* that waits for it as well.
Grab(v) ==
  /\ Goto(v, "host", "grab", "sending")
  /\ UNCHANGED <<config, server, viewer, conn, live, sessions, gui, signals>>

FrameSent(v) ==
  /\ Reachable(v) /\ Goto(v, "host", "sending", "capture")
  /\ UNCHANGED <<config, server, viewer, conn, live, sessions, gui, signals>>

FrameFails(v) ==
  /\ ~Reachable(v) /\ Goto(v, "host", "sending", "stop")
  /\ UNCHANGED <<config, server, viewer, conn, live, sessions, gui, signals>>

-----------------------------------------------------------------------------
(* The input loop, and HostSession.stop() in whichever thread calls it.    *)

\* The viewer hung up, or the socket was closed under the thread, or stop() ran.
InputEnds(v) ==
  /\ ~Reachable(v) \/ ~live[v]
  /\ Goto(v, "input", "read", "stop")
  /\ UNCHANGED <<config, server, viewer, conn, live, sessions, gui, signals>>

StopTest(v, th) ==
  /\ \/ live[v] /\ Goto(v, th, "stop", "clear") /\ UNCHANGED conn
     \/ ~live[v] /\ Goto(v, th, "stop", "done") /\ CloseSock(v)
  /\ UNCHANGED <<config, server, viewer, live, sessions, gui, signals>>

\* Mutant: the end is announced before the socket is closed.
StopClearEmits(v, th) ==
  /\ Goto(v, th, "clear", "bye")
  /\ live' = [live EXCEPT ![v] = FALSE]
  /\ Emit("stopped", v)
  /\ UNCHANGED <<config, server, viewer, conn, sessions, gui>>

StopClear(v, th) ==
  /\ Goto(v, th, "clear", "bye")
  /\ live' = [live EXCEPT ![v] = FALSE]
  /\ UNCHANGED <<config, server, viewer, conn, sessions, gui, signals>>

\* Mutant: stop() waits for the capture thread, in whatever thread it runs.
StopByeJoins(v, th) ==
  /\ at[v]["host"] = "done"
  /\ Goto(v, th, "bye", "end")
  /\ CloseSock(v)
  /\ UNCHANGED <<config, server, viewer, live, sessions, gui, signals>>

\* SF_BYE needs the send lock; then the socket is closed.
StopBye(v, th) ==
  /\ at[v]["host"] # "sending"
  /\ Goto(v, th, "bye", "end")
  /\ CloseSock(v)
  /\ UNCHANGED <<config, server, viewer, live, sessions, gui, signals>>

\* _on_session_ended
StopEnd(v, th) ==
  /\ Goto(v, th, "end", "done")
  /\ sessions' = sessions \ {v}
  /\ Emit("stopped", v)
  /\ UNCHANGED <<config, server, viewer, conn, live, gui>>

-----------------------------------------------------------------------------
(* The GUI thread.                                                         *)

GuiFree == \A v \in Viewers : at[v]["gui"] \notin Stopping

\* A request box runs a nested event loop: signals are still handled, but it
\* keeps the user from every other window.
HandleSignal ==
  /\ GuiFree /\ signals # <<>>
  /\ signals' = Tail(signals)
  /\ LET s == Head(signals) IN
     \/ s.type = "request" /\ boxes' = Append(boxes, s.of) /\ UNCHANGED banner
     \/ s.type = "started" /\ banner' = banner \cup {s.of} /\ UNCHANGED boxes
     \/ s.type = "stopped" /\ banner' = banner \ {s.of} /\ UNCHANGED boxes
  /\ UNCHANGED <<config, server, viewer, conn, at, live, sessions, answer>>

\* The user answers the box on top; its caller may have given up.
Answer(a) ==
  /\ GuiFree /\ boxes # <<>>
  /\ answer' = [answer EXCEPT ![boxes[Len(boxes)]] = a]
  /\ boxes' = SubSeq(boxes, 1, Len(boxes) - 1)
  /\ UNCHANGED <<config, server, viewer, conn, at, live, sessions, banner, signals>>

\* The GUI thread calls stop() on these sessions.
StopThem(vs) ==
  at' = [v \in Viewers |-> IF v \in vs THEN [at[v] EXCEPT !["gui"] = "stop"] ELSE at[v]]

\* The banner's Stop button: stop_session.
PressStop(v) ==
  /\ GuiFree /\ boxes = <<>> /\ v \in banner
  /\ StopThem({v} \cap sessions)
  /\ UNCHANGED <<config, server, viewer, conn, live, sessions, gui, signals>>

\* SettingsDialog saves; apply_remote_enabled when the switch has moved.
SaveSettings(e, u) ==
  /\ GuiFree /\ boxes = <<>>
  /\ saves < MaxSaves /\ saves' = saves + 1
  /\ enabled' = e /\ unattended' = u
  /\ \/ /\ e = enabled \/ (e /\ on)
        /\ UNCHANGED <<on, binding, at>>
     \/ /\ e /\ ~enabled /\ ~on
        /\ on' = TRUE /\ binding' = binding + 1
        /\ UNCHANGED at
     \/ /\ ~e /\ enabled
        /\ on' = FALSE /\ StopThem(sessions)
        /\ UNCHANGED binding
  /\ UNCHANGED <<listening, viewer, conn, live, sessions, gui, signals>>

-----------------------------------------------------------------------------
(* The peer.                                                               *)

\* ViewerSession.close, or the peer's machine is gone.
Leave(v) ==
  /\ viewer[v] \in {"here", "stalled"}
  /\ viewer' = [viewer EXCEPT ![v] = "gone"]
  /\ UNCHANGED <<config, server, conn, at, live, sessions, gui, signals>>

Stall(v) ==
  /\ viewer[v] = "here"
  /\ viewer' = [viewer EXCEPT ![v] = "stalled"]
  /\ UNCHANGED <<config, server, conn, at, live, sessions, gui, signals>>

Recover(v) ==
  /\ viewer[v] = "stalled"
  /\ viewer' = [viewer EXCEPT ![v] = "here"]
  /\ UNCHANGED <<config, server, conn, at, live, sessions, gui, signals>>

-----------------------------------------------------------------------------
Listener == Bind \/ BindFails \/ ListenerExits

Handler(v) ==
  \/ ReadHello(v) \/ Policy(v) \/ Decided(v) \/ Register(v) \/ Announce(v)
  \/ Begin(v) \/ SendAccept(v) \/ CaptureTest(v) \/ Grab(v)
  \/ FrameSent(v) \/ FrameFails(v)

Stop(v, th) == StopTest(v, th) \/ StopClear(v, th) \/ StopBye(v, th) \/ StopEnd(v, th)

User ==
  \/ \E a \in {"yes", "no"} : Answer(a)
  \/ \E v \in Viewers : PressStop(v)
  \/ \E e, u \in BOOLEAN : SaveSettings(e, u)

SNext ==
  \/ Listener
  \/ HandleSignal
  \/ User
  \/ \E v \in Viewers :
       \/ Connect(v) \/ Leave(v) \/ Stall(v) \/ Recover(v)
       \/ Handler(v) \/ InputEnds(v)
       \/ \E th \in Threads : Stop(v, th)

SSpec == SInit /\ [][SNext]_svars

\* What is sent to a viewer that does not read may take for ever.
Flowing(v) == viewer[v] # "stalled" \/ conn[v] = "closed"

\* Threads that can run do run; users and peers owe nothing.
FairSSpec ==
  /\ SSpec
  /\ WF_svars(Listener)
  /\ WF_svars(HandleSignal)
  /\ \A v \in Viewers :
       /\ WF_svars(Flowing(v) /\ Handler(v))
       /\ WF_svars(InputEnds(v))
       /\ \A th \in Threads : WF_svars(Flowing(v) /\ Stop(v, th))

-----------------------------------------------------------------------------
\* The peer is being sent the screen, or is about to be.
Served(v) ==
  at[v]["host"] \in {"capture", "grab", "sending"} /\ conn[v] = "open"

Pending(type, v) == \E i \in DOMAIN signals : signals[i] = [type |-> type, of |-> v]

\* README, "Remote Screen": while the user is being viewed a banner stays on
\* top, "so a session can never run silently", and the Stop button ends it: a
\* session that is served has its banner, or the GUI is about to draw it, and
\* once stop() has returned in the GUI thread the socket is closed, whatever
\* order three threads begin and end the session in.
NeverSilent ==
  \A v \in Viewers :
    /\ Served(v) => \/ v \in banner /\ ~Pending("stopped", v)
                    \/ Pending("started", v)
    /\ at[v]["gui"] = "done" => conn[v] = "closed"

\* A session that has ended is not held for ever: each of the threads in it
\* gets out, as long as the viewer does not stop reading for good.
StopReturns ==
  \A v \in Viewers : \A th \in Threads :
    <>[](viewer[v] # "stalled") => (at[v][th] \in Stopping ~> at[v][th] = "done")

\* The user's "Allow", given in time, lets the peer in, unless the peer has left
\* or the user has stopped the session since.
AllowedIsServed ==
  \A v \in Viewers :
    (at[v]["host"] = "waiting" /\ answer[v] = "yes")
      ~> (Served(v) \/ viewer[v] # "here" \/ at[v]["gui"] = "done")
=============================================================================
