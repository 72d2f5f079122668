------------------------- MODULE RemoteScreenProofs -------------------------
(* Theorems about RemoteScreen: for any viewers, whichever of them know the    *)
(* unattended secret, and any number of saves.                                 *)
EXTENDS RemoteScreen, TLAPS

-----------------------------------------------------------------------------
(* The inductive invariant.                                                *)

Places == UNION {PC[th] : th \in Threads}

\* The settings and the listener.  A save starts at most one server thread.
ServerTypeOK ==
  /\ enabled \in BOOLEAN /\ unattended \in BOOLEAN /\ on \in BOOLEAN /\ listening \in BOOLEAN
  /\ saves \in 0..MaxSaves
  /\ binding \in 0..(saves + 1)

GuiTypeOK ==
  /\ sessions \subseteq Viewers /\ banner \subseteq Viewers
  /\ answer \in [Viewers -> {"none", "yes", "no"}]
  /\ boxes \in Seq(Viewers)
  /\ signals \in Seq(Signal)

ThreadsTypeOK ==
  /\ viewer \in [Viewers -> {"away", "here", "stalled", "gone"}]
  /\ conn \in [Viewers -> {"none", "open", "closed"}]
  /\ live \in [Viewers -> BOOLEAN]
  /\ at \in [Viewers -> [Threads -> Places]]
  /\ \A v \in Viewers : \A th \in Threads : at[v][th] \in PC[th]

\* The handler has emitted session_started and has not begun to stop.
Announced == {"begin", "accept", "capture", "grab", "sending"}

\* A session before it exists is nowhere; what announces its end, or is over in
\* the GUI thread, comes after its socket is closed; and an open session that
\* was announced has its banner, or the announcement is still queued.
Session(v) ==
  /\ viewer[v] = "away" =>
       conn[v] = "none" /\ v \notin sessions /\ \A th \in Threads : at[v][th] = "none"
  /\ \A th \in Threads : at[v][th] = "end" => conn[v] = "closed"
  /\ at[v]["gui"] = "done" => conn[v] = "closed"
  /\ Pending("stopped", v) => conn[v] = "closed"
  /\ at[v]["host"] \in Announced /\ conn[v] = "open" => v \in banner \/ Pending("started", v)

ScreenInv ==
  /\ ServerTypeOK
  /\ GuiTypeOK
  /\ ThreadsTypeOK
  /\ \A v \in Viewers : Session(v)

LEMMA ScreenInvImplies == ScreenInv => RemoteTypeOK /\ NeverSilent
<1>. SUFFICES ASSUME ScreenInv PROVE RemoteTypeOK /\ NeverSilent
  OBVIOUS
<1>1. binding \in 0..(MaxSaves + 1)
  BY RemoteAssumption DEF ScreenInv, ServerTypeOK
<1>2. \A v \in Viewers : /\ DOMAIN at[v] = Threads
                         /\ \A th \in Threads : at[v][th] \in PC[th]
  BY DEF ScreenInv, ThreadsTypeOK
<1>3. RemoteTypeOK
  BY <1>1, <1>2, Zenon DEF ScreenInv, ServerTypeOK, GuiTypeOK, ThreadsTypeOK, RemoteTypeOK
<1>4. NeverSilent
  BY DEF ScreenInv, Session, NeverSilent, Served, Announced
<1>. QED  BY <1>3, <1>4

-----------------------------------------------------------------------------
(* The queue of signals, and one thread's step.                            *)

\* A signal that is emitted joins those that are pending.
LEMMA Emitted ==
  ASSUME GuiTypeOK, NEW t \in {"request", "started", "stopped"}, NEW v \in Viewers, Emit(t, v)
  PROVE  /\ signals' \in Seq(Signal)
         /\ \A type \in {"started", "stopped"} : \A q \in Viewers :
              Pending(type, q)' <=> Pending(type, q) \/ (type = t /\ q = v)
<1>. DEFINE s == [type |-> t, of |-> v]
<1>1. s \in Signal /\ signals' = Append(signals, s) /\ signals \in Seq(Signal)
  BY DEF Signal, Emit, GuiTypeOK
<1>2. signals' \in Seq(Signal)
  BY <1>1
<1>3. ASSUME NEW type \in {"started", "stopped"}, NEW q \in Viewers
      PROVE  Pending(type, q)' <=> Pending(type, q) \/ (type = t /\ q = v)
  <2>1. [type |-> type, of |-> q] = s <=> type = t /\ q = v
    OBVIOUS
  <2>. DEFINE x == [type |-> type, of |-> q]
  <2>. HIDE DEF s, x
  <2>2. (\E i \in DOMAIN signals' : signals'[i] = x) <=> (\E i \in DOMAIN signals : signals[i] = x) \/ x = s
    <3>1. /\ Len(signals') = Len(signals) + 1 /\ Len(signals) \in Nat
          /\ DOMAIN signals = 1..Len(signals) /\ DOMAIN signals' = 1..Len(signals')
          /\ \A i \in 1..Len(signals) : signals'[i] = signals[i]
          /\ signals'[Len(signals) + 1] = s
      BY <1>1
    <3>. QED  BY <3>1
  <2>. QED  BY <2>1, <2>2 DEF Pending, x, s
<1>. QED  BY <1>2, <1>3

\* The GUI thread takes the oldest: the others stay.
LEMMA Taken ==
  ASSUME GuiTypeOK, signals # <<>>, signals' = Tail(signals)
  PROVE  /\ signals' \in Seq(Signal) /\ Head(signals) \in Signal
         /\ \A type \in {"started", "stopped"} : \A q \in Viewers :
              /\ Pending(type, q)' => Pending(type, q)
              /\ Pending(type, q) => Pending(type, q)' \/ Head(signals) = [type |-> type, of |-> q]
              /\ Head(signals) = [type |-> type, of |-> q] => Pending(type, q)
<1>1. /\ signals \in Seq(Signal) /\ signals' \in Seq(Signal) /\ Head(signals) \in Signal
      /\ Head(signals) = signals[1] /\ 1 \in DOMAIN signals
      /\ Len(signals) \in Nat /\ Len(signals') = Len(signals) - 1
      /\ DOMAIN signals = 1..Len(signals) /\ DOMAIN signals' = 1..Len(signals')
      /\ \A i \in 1..Len(signals') : signals'[i] = signals[i + 1]
  BY DEF GuiTypeOK
<1>2. ASSUME NEW x
      PROVE  /\ (\E i \in DOMAIN signals' : signals'[i] = x) => \E i \in DOMAIN signals : signals[i] = x
             /\ (\E i \in DOMAIN signals : signals[i] = x) =>
                  (\E i \in DOMAIN signals' : signals'[i] = x) \/ Head(signals) = x
  <2>1. ASSUME NEW i \in DOMAIN signals', signals'[i] = x PROVE \E j \in DOMAIN signals : signals[j] = x
    BY <1>1, <2>1
  <2>2. ASSUME NEW i \in DOMAIN signals, signals[i] = x, Head(signals) # x
        PROVE  \E j \in DOMAIN signals' : signals'[j] = x
    <3>1. i # 1 /\ i - 1 \in DOMAIN signals' /\ signals'[i - 1] = x
      BY <1>1, <2>2
    <3>. QED  BY <3>1
  <2>. QED  BY <2>1, <2>2
<1>. QED  BY <1>1, <1>2 DEF Pending

\* One thread of one session moves.
LEMMA Moves ==
  ASSUME ThreadsTypeOK, NEW v \in Viewers, NEW th \in Threads, NEW from, NEW to \in PC[th],
         Goto(v, th, from, to)
  PROVE  /\ at' \in [Viewers -> [Threads -> Places]]
         /\ \A q \in Viewers : \A t \in Threads : at'[q][t] \in PC[t]
         /\ at'[v][th] = to /\ at[v][th] = from
         /\ \A t \in Threads : t # th => at'[v][t] = at[v][t]
         /\ \A q \in Viewers : q # v => at'[q] = at[q]
<1>1. to \in Places
  BY DEF Places
<1>. QED  BY <1>1 DEF Goto, ThreadsTypeOK

\* What keeps a session's part of the invariant: its own threads, socket and
\* viewer stay, no signal about it goes away or comes in, its banner stays.
LEMMA Untouched ==
  ASSUME NEW q \in Viewers, Session(q),
         viewer'[q] = viewer[q], conn'[q] = conn[q], at'[q] = at[q],
         q \in sessions' => q \in sessions, q \in banner => q \in banner',
         Pending("stopped", q)' => Pending("stopped", q),
         Pending("started", q) => Pending("started", q)'
  PROVE  Session(q)'
BY DEF Session

\* A step of one of v's threads keeps ThreadsTypeOK and every session, when it
\* closes the socket before it is at "end" or, in the GUI thread, done, announces
\* before it is Announced, and emits the end of v only from "end".
LEMMA ThreadStep ==
  ASSUME ThreadsTypeOK, \A q \in Viewers : Session(q),
         NEW v \in Viewers, NEW th \in Threads, NEW from \in Places \ {"none"}, NEW to \in PC[th],
         Goto(v, th, from, to),
         UNCHANGED <<viewer, banner>>, live' \in [Viewers -> BOOLEAN],
         conn' = conn \/ CloseSock(v),
         sessions' \in {sessions, sessions \cup {v}, sessions \ {v}},
         \A type \in {"started", "stopped"} : \A q \in Viewers :
           /\ q # v => (Pending(type, q)' <=> Pending(type, q))
           /\ Pending(type, q) => Pending(type, q)',
         Pending("stopped", v)' => Pending("stopped", v) \/ from = "end",
         to = "end" => CloseSock(v),
         th = "gui" /\ to = "done" => from = "end" \/ CloseSock(v),
         th = "host" /\ to \in Announced => from \in Announced \/ Pending("started", v)'
  PROVE  ThreadsTypeOK' /\ \A q \in Viewers : Session(q)'
<1>1. /\ at' \in [Viewers -> [Threads -> Places]]
      /\ \A q \in Viewers : \A t \in Threads : at'[q][t] \in PC[t]
      /\ at'[v][th] = to /\ at[v][th] = from
      /\ \A t \in Threads : t # th => at'[v][t] = at[v][t]
      /\ \A q \in Viewers : q # v => at'[q] = at[q]
  BY Moves
<1>2. /\ conn' \in [Viewers -> {"none", "open", "closed"}]
      /\ conn[v] = "closed" => conn'[v] = "closed"
      /\ conn'[v] = "open" => conn[v] = "open"
      /\ \A q \in Viewers : q # v => conn'[q] = conn[q]
      /\ CloseSock(v) => conn'[v] = "closed"
  BY DEF CloseSock, ThreadsTypeOK
<1>3. ThreadsTypeOK'
  BY <1>1, <1>2 DEF ThreadsTypeOK
<1>4. viewer'[v] # "away"
  BY <1>1 DEF Session
<1>5. Session(v)'
  <2>1. ASSUME NEW t \in Threads, at'[v][t] = "end" PROVE conn'[v] = "closed"
    BY <1>1, <1>2, <2>1 DEF Session
  <2>2. at'[v]["gui"] = "done" => conn'[v] = "closed"
    BY <1>1, <1>2 DEF Session, Threads
  <2>3. Pending("stopped", v)' => conn'[v] = "closed"
    BY <1>1, <1>2 DEF Session
  <2>4. at'[v]["host"] \in Announced /\ conn'[v] = "open" => v \in banner' \/ Pending("started", v)'
    BY <1>1, <1>2 DEF Session, Threads
  <2>. QED  BY <1>4, <2>1, <2>2, <2>3, <2>4 DEF Session
<1>6. ASSUME NEW q \in Viewers, q # v PROVE Session(q)'
  BY <1>1, <1>2, <1>6, Untouched
<1>. QED  BY <1>3, <1>5, <1>6

-----------------------------------------------------------------------------
(* The steps.                                                              *)

LEMMA ListenerStep ==
  ASSUME ScreenInv, Listener \/ UNCHANGED svars
  PROVE  ScreenInv'
<1>1. UNCHANGED <<config, viewer, conn, at, live, sessions, gui, signals>>
  BY DEF Listener, Bind, BindFails, ListenerExits, svars, config, gui
<1>2. ServerTypeOK'
  <2>1. /\ on' = on \/ on' = FALSE
        /\ listening' = listening \/ listening' = TRUE \/ listening' = FALSE
        /\ binding' = binding \/ (binding > 0 /\ binding' = binding - 1)
    BY DEF Listener, Bind, BindFails, ListenerExits, svars, server
  <2>2. binding' \in 0..(saves' + 1) /\ saves' \in 0..MaxSaves
    BY <1>1, <2>1, RemoteAssumption DEF ScreenInv, ServerTypeOK, config
  <2>3. enabled' \in BOOLEAN /\ unattended' \in BOOLEAN
    BY <1>1 DEF ScreenInv, ServerTypeOK, config
  <2>4. on' \in BOOLEAN
    BY <2>1, Zenon DEF ScreenInv, ServerTypeOK
  <2>5. listening' \in BOOLEAN
    BY <2>1, Zenon DEF ScreenInv, ServerTypeOK
  <2>. QED  BY <2>2, <2>3, <2>4, <2>5, Zenon DEF ServerTypeOK
<1>3. GuiTypeOK' /\ ThreadsTypeOK' /\ \A v \in Viewers : Session(v)'
  BY <1>1 DEF ScreenInv, GuiTypeOK, ThreadsTypeOK, Session, Pending, gui
<1>. QED  BY <1>2, <1>3 DEF ScreenInv

LEMMA PeerStep ==
  ASSUME ScreenInv, NEW v \in Viewers, Connect(v) \/ Leave(v) \/ Stall(v) \/ Recover(v)
  PROVE  ScreenInv'
<1>. USE DEF ScreenInv
<1>1. UNCHANGED <<config, server, live, sessions, gui, signals>>
  BY DEF Connect, Leave, Stall, Recover
<1>2. ServerTypeOK' /\ GuiTypeOK'
  BY <1>1 DEF ServerTypeOK, GuiTypeOK, config, server, gui
<1>3. \A type \in {"started", "stopped"} : \A q \in Viewers : Pending(type, q)' <=> Pending(type, q)
  BY <1>1 DEF Pending
<1>4. CASE Connect(v)
  <2>1. Goto(v, "host", "none", "hello") /\ "host" \in Threads /\ "hello" \in PC["host"]
    BY <1>4 DEF Connect, Threads, PC
  <2>2. /\ at' \in [Viewers -> [Threads -> Places]]
        /\ \A q \in Viewers : \A t \in Threads : at'[q][t] \in PC[t]
        /\ at'[v]["host"] = "hello"
        /\ \A t \in Threads : t # "host" => at'[v][t] = at[v][t]
        /\ \A q \in Viewers : q # v => at'[q] = at[q]
    BY <2>1, Moves
  <2>3. /\ viewer[v] = "away" /\ viewer' = [viewer EXCEPT ![v] = "here"]
        /\ conn' = [conn EXCEPT ![v] = "open"]
    BY <1>4 DEF Connect
  <2>4. ThreadsTypeOK'
    BY <1>1, <2>2, <2>3 DEF ThreadsTypeOK
  <2>5. Session(v)'
    BY <1>1, <1>3, <2>2, <2>3 DEF Session, ThreadsTypeOK, Threads, Announced
  <2>6. ASSUME NEW q \in Viewers, q # v PROVE Session(q)'
    BY <1>1, <1>3, <2>2, <2>3, <2>6, Untouched DEF ThreadsTypeOK, gui
  <2>. QED  BY <1>2, <2>4, <2>5, <2>6
<1>5. CASE Leave(v) \/ Stall(v) \/ Recover(v)
  <2>1. /\ UNCHANGED <<at, conn>> /\ viewer[v] # "away"
        /\ \E x \in {"here", "stalled", "gone"} : viewer' = [viewer EXCEPT ![v] = x]
    BY <1>5 DEF Leave, Stall, Recover
  <2>2. ThreadsTypeOK'
    BY <1>1, <2>1 DEF ThreadsTypeOK
  <2>3. \A q \in Viewers : Session(q)'
    BY <1>1, <1>3, <2>1 DEF Session, ThreadsTypeOK, gui
  <2>. QED  BY <1>2, <2>2, <2>3
<1>. QED  BY <1>4, <1>5

\* The handler, the input loop and the threads that stop a session.
LEMMA LoopStep ==
  ASSUME ScreenInv, NEW v \in Viewers, NEW th \in Threads,
         \/ th = "host" /\ (\/ ReadHello(v) \/ Policy(v) \/ Decided(v) \/ Register(v) \/ Begin(v)
                            \/ CaptureTest(v) \/ Grab(v) \/ FrameSent(v) \/ FrameFails(v))
         \/ th = "input" /\ InputEnds(v)
         \/ StopTest(v, th) \/ StopClear(v, th) \/ StopBye(v, th)
  PROVE  ScreenInv'
<1>. USE DEF ScreenInv
<1>1. /\ UNCHANGED <<config, server, viewer, gui>>
      /\ signals' = signals \/ Emit("request", v)
      /\ sessions' \in {sessions, sessions \cup {v}}
      /\ conn' = conn \/ CloseSock(v)
  BY DEF ReadHello, Policy, Decided, Register, Begin, CaptureTest, Grab, FrameSent, FrameFails,
         InputEnds, StopTest, StopClear, StopBye
<1>2. live' = live \/ \E b \in BOOLEAN : live' = [live EXCEPT ![v] = b]
  BY DEF ReadHello, Policy, Decided, Register, Begin, CaptureTest, Grab, FrameSent, FrameFails,
         InputEnds, StopTest, StopClear, StopBye
<1>3. live' \in [Viewers -> BOOLEAN]
  BY <1>2 DEF ThreadsTypeOK
<1>4. /\ signals' \in Seq(Signal)
      /\ \A type \in {"started", "stopped"} : \A q \in Viewers :
           Pending(type, q)' <=> Pending(type, q)
  <2>1. CASE signals' = signals
    BY <2>1 DEF GuiTypeOK, Pending
  <2>2. CASE Emit("request", v)
    BY <2>2, Emitted
  <2>. QED  BY <1>1, <2>1, <2>2
<1>5. ServerTypeOK' /\ GuiTypeOK'
  BY <1>1, <1>4 DEF ServerTypeOK, GuiTypeOK, config, server, gui
<1>6. PICK from \in Places \ {"none"}, to \in PC[th] :
        /\ Goto(v, th, from, to)
        /\ to = "end" => CloseSock(v)
        /\ to = "done" => CloseSock(v)
        /\ th = "host" /\ to \in Announced => from \in Announced
  <2>1. CASE th = "host" /\ (\/ ReadHello(v) \/ Policy(v) \/ Decided(v) \/ Register(v) \/ Begin(v)
                             \/ CaptureTest(v) \/ Grab(v) \/ FrameSent(v) \/ FrameFails(v))
    BY <2>1 DEF ReadHello, Policy, Decided, Register, Begin, CaptureTest, Grab, FrameSent,
                FrameFails, Places, PC, Threads, Announced, Stopping
  <2>2. CASE th = "input" /\ InputEnds(v)
    BY <2>2 DEF InputEnds, Places, PC, Threads, Stopping
  <2>3. \A x \in {"done", "stop", "clear", "bye", "end"} : x \in PC[th] /\ x \in Places
    BY DEF Places, PC, Threads, Stopping
  <2>4. CASE StopTest(v, th) \/ StopClear(v, th) \/ StopBye(v, th)
    BY <2>3, <2>4 DEF StopTest, StopClear, StopBye, Announced
  <2>. QED  BY <2>1, <2>2, <2>4
<1>7. ThreadsTypeOK' /\ \A q \in Viewers : Session(q)'
  <2>1. UNCHANGED <<viewer, banner>>
    BY <1>1 DEF gui
  <2>. QED  BY <1>1, <1>3, <1>4, <1>6, <2>1, ThreadStep
<1>. QED  BY <1>5, <1>7

\* session_started, and its end: the two signals NeverSilent is about.
LEMMA AnnounceStep ==
  ASSUME ScreenInv, NEW v \in Viewers, NEW th \in Threads, Announce(v) \/ StopEnd(v, th)
  PROVE  ScreenInv'
<1>. USE DEF ScreenInv
<1>1. PICK type \in {"started", "stopped"}, t \in Threads, from \in {"announce", "end"} :
        /\ Emit(type, v) /\ UNCHANGED <<config, server, viewer, conn, live, gui>>
        /\ sessions' \in {sessions, sessions \ {v}}
        /\ type = "stopped" => from = "end"
        /\ \/ from = "end" /\ Goto(v, t, from, "done")
           \/ type = "started" /\ t = "host" /\ Goto(v, t, from, "begin")
  BY DEF Announce, StopEnd, Threads
<1>2. /\ signals' \in Seq(Signal)
      /\ \A y \in {"started", "stopped"} : \A q \in Viewers :
           Pending(y, q)' <=> Pending(y, q) \/ (y = type /\ q = v)
  BY <1>1, Emitted
<1>3. ServerTypeOK' /\ GuiTypeOK'
  BY <1>1, <1>2 DEF ServerTypeOK, GuiTypeOK, config, server, gui
<1>4. /\ UNCHANGED <<viewer, banner, conn>> /\ live' \in [Viewers -> BOOLEAN]
      /\ from \in Places \ {"none"} /\ "done" \in PC[t] /\ "begin" \in PC["host"]
  BY <1>1 DEF gui, ThreadsTypeOK, Places, PC, Threads, Stopping
<1>5. CASE from = "end" /\ Goto(v, t, from, "done")
  <2>1. "done" # "end" /\ "done" \notin Announced
    BY DEF Announced
  <2>. QED  BY <1>1, <1>2, <1>3, <1>4, <1>5, <2>1, ThreadStep
<1>6. CASE type = "started" /\ t = "host" /\ Goto(v, t, from, "begin")
  BY <1>1, <1>2, <1>3, <1>4, <1>6, ThreadStep
<1>. QED  BY <1>1, <1>5, <1>6

\* The handler goes on as the capture loop and starts the input loop.
LEMMA SendAcceptStep ==
  ASSUME ScreenInv, NEW v \in Viewers, SendAccept(v)
  PROVE  ScreenInv'
<1>. USE DEF ScreenInv
<1>1. /\ UNCHANGED <<config, server, viewer, live, sessions, gui, signals>>
      /\ at[v]["host"] = "accept"
  BY DEF SendAccept
<1>2. ServerTypeOK' /\ GuiTypeOK'
  BY <1>1 DEF ServerTypeOK, GuiTypeOK, config, server, gui
<1>3. \A type \in {"started", "stopped"} : \A q \in Viewers : Pending(type, q)' <=> Pending(type, q)
  BY <1>1 DEF Pending
<1>4. CASE /\ conn' = conn
           /\ at' = [at EXCEPT ![v]["host"] = "capture", ![v]["input"] = "read"]
  <2>1. "capture" \in Places /\ "read" \in Places /\ "host" \in Threads /\ "input" \in Threads
        /\ "capture" \in PC["host"] /\ "read" \in PC["input"]
    BY DEF Places, PC, Threads
  <2>2. /\ at' \in [Viewers -> [Threads -> Places]]
        /\ at'[v]["host"] = "capture" /\ at'[v]["input"] = "read" /\ at'[v]["gui"] = at[v]["gui"]
        /\ \A q \in Viewers : q # v => at'[q] = at[q]
    BY <1>4, <2>1 DEF ThreadsTypeOK, Threads
  <2>3. ThreadsTypeOK'
    BY <1>1, <1>4, <2>1, <2>2 DEF ThreadsTypeOK, Threads
  <2>4. Session(v)'
    BY <1>1, <1>3, <1>4, <2>2 DEF Session, Threads, Announced, gui
  <2>5. ASSUME NEW q \in Viewers, q # v PROVE Session(q)'
    BY <1>1, <1>3, <1>4, <2>2, <2>5, Untouched DEF gui
  <2>. QED  BY <1>2, <2>3, <2>4, <2>5
<1>5. CASE CloseSock(v) /\ Goto(v, "host", "accept", "done")
  <2>1. /\ "host" \in Threads /\ "done" \in PC["host"] /\ "accept" \in Places \ {"none"}
        /\ "done" \notin Announced /\ UNCHANGED <<viewer, banner>> /\ live' \in [Viewers -> BOOLEAN]
    BY <1>1 DEF PC, Places, Threads, Announced, gui, ThreadsTypeOK
  <2>. QED  BY <1>1, <1>2, <1>3, <1>5, <2>1, ThreadStep
<1>. QED  BY <1>4, <1>5 DEF SendAccept, Goto

\* Only a queued end takes a banner away.
LEMMA HandleSignalStep ==
  ASSUME ScreenInv, HandleSignal
  PROVE  ScreenInv'
<1>. USE DEF ScreenInv
<1>1. /\ signals # <<>> /\ signals' = Tail(signals)
      /\ UNCHANGED <<config, server, viewer, conn, at, live, sessions, answer>>
  BY DEF HandleSignal
<1>2. /\ signals' \in Seq(Signal) /\ Head(signals) \in Signal
      /\ \A type \in {"started", "stopped"} : \A q \in Viewers :
           /\ Pending(type, q)' => Pending(type, q)
           /\ Pending(type, q) => Pending(type, q)' \/ Head(signals) = [type |-> type, of |-> q]
           /\ Head(signals) = [type |-> type, of |-> q] => Pending(type, q)
  BY <1>1, Taken
<1>3. PICK type \in {"request", "started", "stopped"}, p \in Viewers :
        Head(signals) = [type |-> type, of |-> p]
  BY <1>2 DEF Signal
<1>4. \/ type = "request" /\ boxes' = Append(boxes, p) /\ banner' = banner
      \/ type = "started" /\ banner' = banner \cup {p} /\ boxes' = boxes
      \/ type = "stopped" /\ banner' = banner \ {p} /\ boxes' = boxes
  BY <1>3 DEF HandleSignal
<1>5. ServerTypeOK' /\ ThreadsTypeOK'
  BY <1>1 DEF ServerTypeOK, ThreadsTypeOK, config, server
<1>6. GuiTypeOK'
  <2>1. boxes' = boxes \/ boxes' = Append(boxes, p)
    BY <1>4
  <2>2. boxes \in Seq(Viewers) /\ Append(boxes, p) \in Seq(Viewers)
    BY DEF GuiTypeOK
  <2>3. boxes' \in Seq(Viewers)
    BY <2>1, <2>2
  <2>. QED  BY <1>1, <1>2, <1>4, <2>3 DEF GuiTypeOK
<1>7. ASSUME NEW q \in Viewers PROVE Session(q)'
  <2>1. type \in {"started", "stopped"} => (p = q <=> Head(signals) = [type |-> type, of |-> q])
    BY <1>3
  <2>2. type # "started" => Head(signals) # [type |-> "started", of |-> q]
    BY <1>3
  <2>3. Pending("stopped", q)' => conn[q] = "closed"
    BY <1>2 DEF Session
  <2>4. at[q]["host"] \in Announced /\ conn[q] = "open" => q \in banner' \/ Pending("started", q)'
    BY <1>2, <1>4, <2>1, <2>2 DEF Session
  <2>. QED  BY <1>1, <2>3, <2>4 DEF Session
<1>. QED  BY <1>5, <1>6, <1>7

\* Answers, and the GUI thread starting to stop some sessions.
LEMMA UserStep ==
  ASSUME ScreenInv, User
  PROVE  ScreenInv'
<1>. USE DEF ScreenInv
<1>1. UNCHANGED <<listening, viewer, conn, live, sessions, banner, signals>>
  BY DEF User, Answer, PressStop, SaveSettings, config, server, gui
<1>2. ServerTypeOK'
  <2>1. CASE UNCHANGED <<config, server>>
    BY <2>1 DEF ServerTypeOK, config, server
  <2>2. ASSUME NEW e \in BOOLEAN, NEW u \in BOOLEAN, SaveSettings(e, u) PROVE ServerTypeOK'
    <3>1. /\ saves < MaxSaves /\ saves' = saves + 1 /\ enabled' = e /\ unattended' = u
          /\ binding' = binding \/ binding' = binding + 1
          /\ on' = on \/ on' = TRUE \/ on' = FALSE
      BY <2>2 DEF SaveSettings
    <3>2. binding' \in 0..(saves' + 1) /\ saves' \in 0..MaxSaves
      BY <3>1, RemoteAssumption DEF ServerTypeOK
    <3>3. enabled' \in BOOLEAN /\ unattended' \in BOOLEAN /\ listening' \in BOOLEAN
      BY <1>1, <3>1 DEF ServerTypeOK
    <3>4. on' \in BOOLEAN
      BY <3>1, Zenon DEF ServerTypeOK
    <3>. QED  BY <3>2, <3>3, <3>4, Zenon DEF ServerTypeOK
  <2>. QED  BY <2>1, <2>2 DEF User, Answer, PressStop
<1>3. GuiTypeOK'
  <2>1. CASE UNCHANGED <<answer, boxes>>
    BY <1>1, <2>1 DEF GuiTypeOK
  <2>2. ASSUME NEW a \in {"yes", "no"}, Answer(a) PROVE GuiTypeOK'
    <3>1. /\ boxes # <<>> /\ answer' = [answer EXCEPT ![boxes[Len(boxes)]] = a]
          /\ boxes' = SubSeq(boxes, 1, Len(boxes) - 1)
      BY <2>2 DEF Answer
    <3>2. answer' \in [Viewers -> {"none", "yes", "no"}]
      BY <3>1 DEF GuiTypeOK
    <3>3. boxes' \in Seq(Viewers)
      BY <3>1 DEF GuiTypeOK
    <3>. QED  BY <1>1, <3>2, <3>3 DEF GuiTypeOK
  <2>. QED  BY <2>1, <2>2 DEF User, PressStop, SaveSettings, gui
<1>4. at' = at \/ \E vs \in SUBSET sessions : StopThem(vs)
  BY DEF User, Answer, PressStop, SaveSettings
<1>5. \A type \in {"started", "stopped"} : \A q \in Viewers : Pending(type, q)' <=> Pending(type, q)
  BY <1>1 DEF Pending
<1>6. CASE at' = at
  BY <1>1, <1>2, <1>3, <1>6, <1>5 DEF ThreadsTypeOK, Session
<1>7. ASSUME NEW vs \in SUBSET sessions, StopThem(vs)
      PROVE  ThreadsTypeOK' /\ \A q \in Viewers : Session(q)'
  <2>1. "stop" \in Places /\ "stop" \in PC["gui"] /\ "gui" \in Threads
    BY DEF Places, PC, Threads, Stopping
  <2>2. /\ at' \in [Viewers -> [Threads -> Places]]
        /\ \A q \in Viewers : q \notin vs => at'[q] = at[q]
        /\ \A q \in vs : /\ at'[q]["gui"] = "stop"
                         /\ \A th \in Threads : th # "gui" => at'[q][th] = at[q][th]
    BY <1>7, <2>1 DEF StopThem, ThreadsTypeOK, GuiTypeOK
  <2>3. \A q \in Viewers : \A th \in Threads : at'[q][th] \in PC[th]
    BY <2>1, <2>2 DEF ThreadsTypeOK
  <2>4. ThreadsTypeOK'
    BY <1>1, <2>2, <2>3 DEF ThreadsTypeOK
  <2>5. ASSUME NEW q \in Viewers PROVE Session(q)'
    <3>1. CASE q \notin vs
      BY <1>1, <1>5, <2>2, <3>1, Untouched
    <3>2. CASE q \in vs
      BY <1>1, <1>5, <2>2, <3>2 DEF Session, Threads
    <3>. QED  BY <3>1, <3>2
  <2>. QED  BY <2>4, <2>5
<1>. QED  BY <1>2, <1>3, <1>4, <1>6, <1>7

-----------------------------------------------------------------------------
(* The theorems.                                                           *)

LEMMA ScreenInvInit == SInit => ScreenInv
<1>. SUFFICES ASSUME SInit PROVE ScreenInv
  OBVIOUS
<1>. USE RemoteAssumption DEF SInit
<1>1. binding \in 0..(saves + 1) /\ saves \in 0..MaxSaves
  OBVIOUS
<1>2. ServerTypeOK
  BY <1>1, Zenon DEF ServerTypeOK
<1>3. GuiTypeOK
  BY DEF GuiTypeOK
<1>4. ThreadsTypeOK
  BY DEF ThreadsTypeOK, Places, PC, Threads
<1>5. \A v \in Viewers : Session(v)
  BY DEF Session, Pending, Threads, Announced
<1>. QED  BY <1>2, <1>3, <1>4, <1>5 DEF ScreenInv

LEMMA ScreenInvStep == ScreenInv /\ [SNext]_svars => ScreenInv'
<1>. SUFFICES ASSUME ScreenInv, [SNext]_svars PROVE ScreenInv'
  OBVIOUS
<1>1. CASE Listener \/ UNCHANGED svars
  BY <1>1, ListenerStep
<1>2. CASE HandleSignal
  BY <1>2, HandleSignalStep
<1>3. CASE User
  BY <1>3, UserStep
<1>4. ASSUME NEW v \in Viewers, Connect(v) \/ Leave(v) \/ Stall(v) \/ Recover(v) PROVE ScreenInv'
  BY <1>4, PeerStep
<1>5. ASSUME NEW v \in Viewers, Handler(v) \/ InputEnds(v) PROVE ScreenInv'
  BY <1>5, LoopStep, AnnounceStep, SendAcceptStep DEF Handler, Threads
<1>6. ASSUME NEW v \in Viewers, NEW th \in Threads, Stop(v, th) PROVE ScreenInv'
  BY <1>6, LoopStep, AnnounceStep DEF Stop
<1>. QED  BY <1>1, <1>2, <1>3, <1>4, <1>5, <1>6 DEF SNext

LEMMA ScreenInvHolds == SSpec => []ScreenInv
BY ScreenInvInit, ScreenInvStep, PTL DEF SSpec

\* Every variable keeps its type: no thread of a session is ever in a place of
\* another's, and no more server threads start than the switch was moved.
THEOREM RemoteTypeCorrect == SSpec => []RemoteTypeOK
BY ScreenInvHolds, ScreenInvImplies, PTL

\* A session never runs silently (README, "Remote Screen"), and stop() in the GUI
\* thread returns with the socket closed, in whatever order its handler, its
\* input loop and the GUI thread begin and end it (HostSession.stop).
THEOREM SessionsAreSeen == SSpec => []NeverSilent
BY ScreenInvHolds, ScreenInvImplies, PTL
=============================================================================
