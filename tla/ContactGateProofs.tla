-------------------------- MODULE ContactGateProofs --------------------------
(* Theorems about ContactGate: for any peers and messages, any rate limit and *)
(* any number of restarts.                                                    *)
EXTENDS ContactGate, SequenceTheorems, TLAPS

-----------------------------------------------------------------------------
(* The queue of signals, as the set of what waits in it.                   *)

Waiting == {events[i] : i \in DOMAIN events}

\* A signal that is emitted waits behind the others.
LEMMA EmitWaits ==
  ASSUME events \in Seq(Event), NEW e \in Event, events' = Append(events, e)
  PROVE  Waiting' = Waiting \cup {e} /\ events' \in Seq(Event)
<1>1. events' \in Seq(Event)
  BY AppendProperties
<1>2. /\ \A i \in DOMAIN events : i \in DOMAIN events' /\ events'[i] = events[i]
      /\ Len(events) + 1 \in DOMAIN events' /\ events'[Len(events) + 1] = e
      /\ \A i \in DOMAIN events' : i \in DOMAIN events \/ i = Len(events) + 1
  BY AppendProperties
<1>3. Waiting \cup {e} \subseteq Waiting'
  BY <1>2 DEF Waiting
<1>4. Waiting' \subseteq Waiting \cup {e}
  BY <1>2 DEF Waiting
<1>. QED  BY <1>1, <1>3, <1>4

\* A signal that is handled was one of those that waited; the others still do.
LEMMA HandledWaited ==
  ASSUME events \in Seq(Event), events # <<>>, events' = Tail(events)
  PROVE  /\ Head(events) \in Waiting /\ Head(events) \in Event
         /\ Waiting' \subseteq Waiting /\ Waiting \subseteq Waiting' \cup {Head(events)}
         /\ events' \in Seq(Event)
<1>1. /\ events' \in Seq(Event) /\ Len(events') = Len(events) - 1 /\ Len(events) \in Nat \ {0}
      /\ \A i \in 1..Len(events') : events'[i] = events[i + 1]
      /\ Head(events) = events[1]
  BY HeadTailProperties
<1>2. /\ 1 \in DOMAIN events /\ DOMAIN events = 1..Len(events) /\ DOMAIN events' = 1..Len(events')
  BY <1>1
<1>3. Head(events) \in Waiting /\ Head(events) \in Event
  BY <1>1, <1>2 DEF Waiting
<1>4. ASSUME NEW i \in DOMAIN events' PROVE i + 1 \in DOMAIN events /\ events'[i] = events[i + 1]
  BY <1>1, <1>2
<1>5. ASSUME NEW i \in DOMAIN events, i # 1
      PROVE  i - 1 \in DOMAIN events' /\ events'[i - 1] = events[i]
  BY <1>1, <1>2, <1>5
<1>6. Waiting' \subseteq Waiting
  BY <1>4 DEF Waiting
<1>7. Waiting \subseteq Waiting' \cup {Head(events)}
  <2>. SUFFICES ASSUME NEW i \in DOMAIN events
                PROVE  events[i] \in Waiting' \cup {Head(events)}
    BY DEF Waiting
  <2>1. CASE i = 1
    BY <1>1, <2>1
  <2>2. CASE i # 1
    BY <1>5, <2>2 DEF Waiting
  <2>. QED  BY <2>1, <2>2
<1>. QED  BY <1>1, <1>3, <1>6, <1>7

LEMMA WaitingFacts ==
  /\ UNCHANGED events => Waiting' = Waiting
  /\ events = <<>> => Waiting = {}
  /\ events \in Seq(Event) => Waiting \subseteq Event
  /\ \A p : AskingFor(p) <=> \/ \E c \in conns : c.pc = "ask" /\ From[c.msg] = p
                             \/ \E e \in Waiting : e.type = "request" /\ From[e.msg] = p
<1>1. UNCHANGED events => Waiting' = Waiting
  BY DEF Waiting
<1>2. events = <<>> => Waiting = {}
  BY DEF Waiting
<1>3. events \in Seq(Event) => Waiting \subseteq Event
  BY DEF Waiting
<1>4. ASSUME NEW p
      PROVE  (\E i \in DOMAIN events : events[i].type = "request" /\ From[events[i].msg] = p)
               <=> \E e \in Waiting : e.type = "request" /\ From[e.msg] = p
  BY DEF Waiting
<1>. QED  BY <1>1, <1>2, <1>3, <1>4 DEF AskingFor

-----------------------------------------------------------------------------
(* Types.                                                                  *)

\* GateTypeOK without the history variable, which Remember sets.
ProgramTypeOK ==
  /\ sent \subseteq Msgs /\ shown \subseteq Msgs
  /\ conns \subseteq Conn
  /\ approved \subseteq Peers /\ blocked \subseteq Peers /\ manual \subseteq Peers
  /\ pending \in [Peers -> SUBSET Msgs]
  /\ recent \in [Peers -> 0..RateLimit]
  /\ ipChat \in BOOLEAN /\ near \subseteq Peers
  /\ events \in Seq(Event)
  /\ answer \in [Peers -> {"none", "pending", "accepted", "blocked"}]
  /\ card \subseteq Peers /\ listed \subseteq Peers
  /\ unsaved \in [Peers -> {{}} \cup {{f} : f \in Snapshot}]
  /\ file \in [Peers -> Snapshot]
  /\ starts \in 0..MaxStarts

\* A snapshot says of its peer what the service's sets say.
LEMMA SaveAllType ==
  ASSUME unsaved \in [Peers -> {{}} \cup {{f} : f \in Snapshot}], NEW ps, SaveAll(ps)
  PROVE  unsaved' \in [Peers -> {{}} \cup {{f} : f \in Snapshot}]
<1>. DEFINE flags(p) == {flag \in {"approved", "blocked", "manual"} :
                        p \in CASE flag = "approved" -> approved' [] flag = "blocked" -> blocked'
                                [] flag = "manual" -> manual'}
<1>1. \A p \in Peers : flags(p) \subseteq {"approved", "blocked", "manual"}
  OBVIOUS
<1>2. unsaved' = [p \in Peers |-> IF p \notin ps THEN unsaved[p] ELSE {{"peer"} \cup flags(p)}]
  BY DEF SaveAll
<1>. HIDE DEF flags
<1>3. \A p \in Peers : {"peer"} \cup flags(p) \in Snapshot
  BY <1>1 DEF Snapshot
<1>. QED  BY <1>2, <1>3

LEMMA SaveType ==
  ASSUME unsaved \in [Peers -> {{}} \cup {{f} : f \in Snapshot}], NEW p \in Peers, Save(p)
  PROVE  unsaved' \in [Peers -> {{}} \cup {{f} : f \in Snapshot}]
BY SaveAllType DEF Save

LEMMA HandlerType ==
  ASSUME ProgramTypeOK, NEW c \in conns, HandlerStep(c)
  PROVE  ProgramTypeOK'
<1>. USE GateAssumption DEF ProgramTypeOK
<1>0. c \in Conn /\ c.msg \in Msgs /\ From[c.msg] \in Peers
  BY DEF Conn
<1>1. \A pc \in {"blocked?", "approved?", "buffer", "ask", "rate", "dispatch"} :
        [c EXCEPT !.pc = pc] \in Conn
  BY <1>0 DEF Conn
<1>2. CASE CheckBlocked(c)
  BY <1>1, <1>2 DEF CheckBlocked, Goto, Drop, service, window, disk, setting
<1>3. CASE CheckApproved(c)
  BY <1>1, <1>3 DEF CheckApproved, Goto, Drop, service, window, disk, setting
<1>4. CASE Buffer(c)
  BY <1>0, <1>1, <1>4 DEF Buffer, Goto, Drop, service, window, disk, setting
<1>5. ASSUME NEW pc, NEW type \in {"message", "request"}, Post(c, pc, type) PROVE ProgramTypeOK'
  <2>1. [type |-> type, msg |-> c.msg] \in Event
    BY <1>0 DEF Event
  <2>2. events' \in Seq(Event)
    BY <1>5, <2>1, EmitWaits DEF Post
  <2>. QED  BY <1>5, <2>2 DEF Post, Drop, service, window, disk, setting
<1>6. CASE CountRate(c)
  <2>1. recent' \in [Peers -> 0..RateLimit]
    BY <1>0, <1>6 DEF CountRate
  <2>2. conns' \subseteq Conn
    BY <1>1, <1>6 DEF CountRate, Goto, Drop
  <2>. QED  BY <1>6, <2>1, <2>2 DEF CountRate, service, window, disk, setting
<1>. QED  BY <1>2, <1>3, <1>4, <1>5, <1>6 DEF HandlerStep, Ask, Dispatch

LEMMA ApproveType ==
  ASSUME ProgramTypeOK, NEW p \in Peers, Approve(p)
  PROVE  /\ approved' \subseteq Peers /\ blocked' \subseteq Peers /\ manual' \subseteq Peers
         /\ pending' \in [Peers -> SUBSET Msgs] /\ shown' \subseteq Msgs
BY DEF Approve, ProgramTypeOK

LEMMA SignalType ==
  ASSUME ProgramTypeOK, HandleSignal
  PROVE  ProgramTypeOK'
<1>. USE GateAssumption DEF ProgramTypeOK
<1>. DEFINE e == Head(events)
            p == From[e.msg]
<1>1. e \in Event /\ e.msg \in Msgs /\ p \in Peers /\ events' \in Seq(Event)
  BY HandledWaited DEF HandleSignal, Event
<1>2. UNCHANGED <<sent, conns, recent, file, listed, setting, starts>>
  BY DEF HandleSignal
<1>. HIDE DEF e, p
<1>3. CASE ReceiveMessage(e)
  <2>1. unsaved' \in [Peers -> {{}} \cup {{f} : f \in Snapshot}]
    BY <1>1, <1>3, SaveType DEF ReceiveMessage, p
  <2>. QED  BY <1>1, <1>2, <1>3, <2>1 DEF ReceiveMessage, service, setting
<1>4. CASE OnChatRequest(e)
  <2>1. CASE /\ answer' = [answer EXCEPT ![p] = "pending"] /\ card' = card \cup {p}
             /\ UNCHANGED <<service, shown, unsaved>>
    BY <1>1, <1>2, <2>1 DEF service, setting
  <2>2. CASE /\ Approve(p) /\ IF pending[p] = {} THEN UNCHANGED unsaved ELSE Save(p)
             /\ UNCHANGED <<answer, card>>
    <3>1. unsaved' \in [Peers -> {{}} \cup {{f} : f \in Snapshot}]
      BY <1>1, <2>2, SaveType
    <3>. QED  BY <1>1, <1>2, <2>2, <3>1, ApproveType DEF setting
  <2>3. CASE UNCHANGED <<service, window, unsaved>>
    BY <1>1, <1>2, <2>3 DEF service, window, setting
  <2>. QED  BY <1>4, <2>1, <2>2, <2>3 DEF OnChatRequest, p
<1>. QED  BY <1>3, <1>4 DEF HandleSignal, e

LEMMA UserType ==
  ASSUME ProgramTypeOK, User
  PROVE  ProgramTypeOK'
<1>. USE DEF ProgramTypeOK, service, inbound, window, disk, setting
<1>1. ASSUME NEW p \in Peers, Accept(p) PROVE ProgramTypeOK'
  <2>1. unsaved' \in [Peers -> {{}} \cup {{f} : f \in Snapshot}]
    BY <1>1, SaveType DEF Accept
  <2>. QED  BY <1>1, <2>1, ApproveType DEF Accept
<1>2. ASSUME NEW p \in Peers, BlockCard(p) PROVE ProgramTypeOK'
  <2>1. unsaved' \in [Peers -> {{}} \cup {{f} : f \in Snapshot}]
    BY <1>2, SaveType DEF BlockCard
  <2>. QED  BY <1>2, <2>1 DEF BlockCard, Block
<1>3. ASSUME NEW p \in Peers, BlockUser(p) PROVE ProgramTypeOK'
  BY <1>3 DEF BlockUser, Block
<1>4. ASSUME NEW p \in Peers, Unblock(p) PROVE ProgramTypeOK'
  BY <1>4 DEF Unblock
<1>5. ASSUME NEW p \in Peers, DeletePeer(p) PROVE ProgramTypeOK'
  <2>1. unsaved' \in [Peers -> {{}} \cup {{f} : f \in Snapshot}]
    BY <1>5 DEF DeletePeer, NoFile, Snapshot
  <2>. QED  BY <1>5, <2>1 DEF DeletePeer
<1>6. ASSUME NEW p \in Peers, ConnectManual(p) PROVE ProgramTypeOK'
  <2>1. unsaved' \in [Peers -> {{}} \cup {{f} : f \in Snapshot}]
    BY <1>6, SaveType DEF ConnectManual
  <2>. QED  BY <1>6, <2>1 DEF ConnectManual
<1>7. ASSUME NEW p \in Peers, SavePeer(p) PROVE ProgramTypeOK'
  <2>1. unsaved' \in [Peers -> {{}} \cup {{f} : f \in Snapshot}]
    BY <1>7, SaveType DEF SavePeer
  <2>. QED  BY <1>7, <2>1 DEF SavePeer
<1>8. CASE ToggleIpChat
  BY <1>8 DEF ToggleIpChat
<1>9. ASSUME NEW ps \in SUBSET Peers, ClearHistory(ps) PROVE ProgramTypeOK'
  <2>1. unsaved' \in [Peers -> {{}} \cup {{f} : f \in Snapshot}]
    BY <1>9, SaveAllType DEF ClearHistory
  <2>. QED  BY <1>9, <2>1 DEF ClearHistory
<1>. QED  BY <1>1, <1>2, <1>3, <1>4, <1>5, <1>6, <1>7, <1>8, <1>9 DEF User

LEMMA RestartType ==
  ASSUME ProgramTypeOK, Restart
  PROVE  ProgramTypeOK'
<1>. USE GateAssumption DEF ProgramTypeOK, setting
<1>1. /\ approved' \subseteq Peers /\ blocked' \subseteq Peers /\ manual' \subseteq Peers
  BY DEF Restart, Load
<1>2. answer' \in [Peers -> {"none", "pending", "accepted", "blocked"}]
  BY DEF Restart, Load
<1>3. events' \in Seq(Event) /\ recent' \in [Peers -> 0..RateLimit] /\ starts' \in 0..MaxStarts
  BY DEF Restart
<1>. QED  BY <1>1, <1>2, <1>3 DEF Restart

LEMMA ProgramType ==
  ASSUME ProgramTypeOK, GStep
  PROVE  ProgramTypeOK'
<1>. USE GateAssumption DEF ProgramTypeOK, service, window, inbound, disk, setting
<1>1. ASSUME NEW m \in Msgs, Connect(m) PROVE ProgramTypeOK'
  <2>1. [msg |-> m, pc |-> "blocked?"] \in Conn
    BY DEF Conn
  <2>. QED  BY <1>1, <2>1 DEF Connect
<1>2. ASSUME NEW p \in Peers, WindowPasses(p) PROVE ProgramTypeOK'
  BY <1>2 DEF WindowPasses
<1>3. ASSUME NEW p \in Peers, Roam(p) PROVE ProgramTypeOK'
  BY <1>3 DEF Roam
<1>4. ASSUME NEW p \in Peers, Flush(p) PROVE ProgramTypeOK'
  <2>1. unsaved[p] \subseteq Snapshot
    <3>1. unsaved[p] \in {{}} \cup {{f} : f \in Snapshot}
      OBVIOUS
    <3>. QED  BY <3>1
  <2>2. file' \in [Peers -> Snapshot]
    BY <1>4, <2>1 DEF Flush
  <2>. QED  BY <1>4, <2>2 DEF Flush
<1>. QED  BY <1>1, <1>2, <1>3, <1>4, HandlerType, SignalType, UserType, RestartType DEF GStep

\* The service's sets, the queue of signals, the window's answers and the files
\* keep their types; _rate_ok never counts more than CHAT_RATE_LIMIT messages of
\* a peer per window, however many handlers ask at once.
THEOREM GateTypeCorrect == GSpec => []GateTypeOK
<1>1. GInit => GateTypeOK
  BY GateAssumption DEF GInit, GateTypeOK, NoFile, Snapshot
<1>2. GateTypeOK /\ [GNext]_gvars => GateTypeOK'
  <2>1. GateTypeOK <=> ProgramTypeOK /\ shut \subseteq sent
    BY Zenon DEF GateTypeOK, ProgramTypeOK
  <2>2. GateTypeOK' <=> ProgramTypeOK' /\ shut' \subseteq sent'
    BY Zenon DEF GateTypeOK, ProgramTypeOK
  <2>3. Remember => shut' \subseteq sent'
    BY DEF Remember
  <2>4. UNCHANGED gvars /\ GateTypeOK => GateTypeOK'
    BY DEF gvars, service, inbound, window, disk, setting, GateTypeOK
  <2>. QED  BY <2>1, <2>2, <2>3, <2>4, ProgramType DEF GNext
<1>. QED  BY <1>1, <1>2, PTL DEF GSpec

-----------------------------------------------------------------------------
(* Who is kept out, and what the window says of it.                        *)

\* Whatever the program has in hand was sent by the peer it is filed under.
InHandWasSent ==
  /\ shown \subseteq sent
  /\ \A c \in conns : c.msg \in sent
  /\ \A e \in Waiting : e.msg \in sent
  /\ \A p \in Peers : \A m \in pending[p] : m \in sent /\ From[m] = p

\* What came while its sender was blocked, and still is, got nowhere: its
\* handler, if it still runs, has not yet read the block list.
ShutIsNowhere ==
  \A m \in shut :
    /\ From[m] \in blocked
    /\ m \notin shown
    /\ m \notin pending[From[m]]
    /\ \A c \in conns : c.msg = m => c.pc = "blocked?"
    /\ \A e \in Waiting : e.msg # m

GateInv ==
  /\ GateTypeOK
  /\ InHandWasSent
  /\ ShutIsNowhere
  /\ CardTellsTheTruth

LEMMA ShutFacts ==
  ASSUME GateInv, Remember
  PROVE  /\ \A m \in shut' : From[m] \in blocked /\ From[m] \in blocked'
         /\ \A m \in shut' : m \in shut \/ (m \notin sent /\ m \in sent')
BY DEF Remember

\* The parts of the invariant speak of these variables only; an approval more
\* takes nothing from them.
LEMMA Untouched ==
  ASSUME GateInv, GateTypeOK', Remember,
         approved \subseteq approved',
         UNCHANGED <<sent, conns, events, shown, pending, blocked, answer>>
  PROVE  GateInv'
<1>1. Waiting' = Waiting /\ \A p : AskingFor(p)' = AskingFor(p)
  BY WaitingFacts DEF AskingFor
<1>2. ShutIsNowhere'
  BY <1>1, ShutFacts DEF GateInv, ShutIsNowhere
<1>3. CardTellsTheTruth'
  BY <1>1 DEF GateInv, CardTellsTheTruth
<1>. QED  BY <1>1, <1>2, <1>3 DEF GateInv, InHandWasSent

LEMMA ConnectInv ==
  ASSUME GateInv, GateTypeOK', Remember, NEW m \in Msgs, Connect(m)
  PROVE  GateInv'
<1>. USE DEF GateInv
<1>0. /\ m \notin sent /\ sent' = sent \cup {m}
      /\ conns' = conns \cup {[msg |-> m, pc |-> "blocked?"]}
      /\ UNCHANGED <<events, shown, pending, approved, blocked, answer, card>>
  BY DEF Connect, service, window
<1>1. Waiting' = Waiting
  BY <1>0, WaitingFacts
<1>2. InHandWasSent'
  BY <1>0, <1>1 DEF InHandWasSent
<1>3. ShutIsNowhere'
  <2>. SUFFICES ASSUME NEW n \in shut'
                PROVE  /\ n \notin shown /\ n \notin pending[From[n]]
                       /\ \A c \in conns' : c.msg = n => c.pc = "blocked?"
                       /\ \A e \in Waiting : e.msg # n
    BY <1>0, <1>1, ShutFacts DEF ShutIsNowhere
  <2>1. CASE n \in shut
    BY <1>0, <2>1 DEF ShutIsNowhere
  <2>2. CASE n \notin sent /\ n = m
    <3>1. From[m] \in Peers
      BY GateAssumption
    <3>. QED  BY <1>0, <2>2, <3>1 DEF InHandWasSent
  <2>. QED  BY <1>0, <2>1, <2>2, ShutFacts
<1>4. CardTellsTheTruth'
  <2>1. \A p : AskingFor(p) => AskingFor(p)'
    BY <1>0 DEF AskingFor
  <2>. QED  BY <1>0, <2>1 DEF CardTellsTheTruth
<1>. QED  BY <1>2, <1>3, <1>4

\* A handler that goes on: if it has read the block list its message is not
\* shut out, and if it was to ask, its signal waits.
LEMMA HandlerMoves ==
  ASSUME GateInv, GateTypeOK', Remember, NEW c \in conns,
         UNCHANGED <<sent, shown, approved, blocked, answer, card>>,
         \A d \in conns' : d \in conns \/ d.msg = c.msg,
         \A d \in conns : d \in conns' \/ d = c,
         c.pc = "blocked?" /\ From[c.msg] \in blocked => conns' \subseteq conns,
         Waiting \subseteq Waiting',
         \A e \in Waiting' : e \in Waiting \/ (e.msg = c.msg /\ c.pc # "blocked?"),
         \A p \in Peers : \A m \in pending'[p] :
            m \in pending[p] \/ (/\ m = c.msg /\ p = From[m] /\ c.pc # "blocked?"
                                /\ AskingFor(p)'),
         c.pc = "ask" => AskingFor(From[c.msg])'
  PROVE  GateInv'
<1>. USE DEF GateInv
<1>1. InHandWasSent'
  <2>1. c.msg \in sent
    BY DEF InHandWasSent
  <2>2. \A p \in Peers : \A m \in pending'[p] : m \in sent /\ From[m] = p
    BY <2>1 DEF InHandWasSent
  <2>. QED  BY <2>1, <2>2 DEF InHandWasSent
<1>2. ShutIsNowhere'
  <2>. SUFFICES ASSUME NEW n \in shut'
                PROVE  /\ n \notin pending'[From[n]]
                       /\ \A d \in conns' : d.msg = n => d.pc = "blocked?"
                       /\ \A e \in Waiting' : e.msg # n
    BY ShutFacts DEF ShutIsNowhere
  <2>1. n \in shut /\ From[n] \in blocked /\ From[n] \in Peers
    BY ShutFacts, GateAssumption DEF GateTypeOK
  <2>2. n = c.msg => c.pc = "blocked?" /\ conns' \subseteq conns
    BY <2>1 DEF ShutIsNowhere
  <2>. QED  BY <2>1, <2>2 DEF ShutIsNowhere
<1>3. CardTellsTheTruth'
  <2>1. ASSUME NEW p \in Peers, AskingFor(p) PROVE AskingFor(p)'
    <3>1. CASE \E d \in conns : d.pc = "ask" /\ From[d.msg] = p
      BY <3>1, WaitingFacts DEF AskingFor
    <3>2. CASE \E e \in Waiting : e.type = "request" /\ From[e.msg] = p
      <4>1. \E e \in Waiting' : e.type = "request" /\ From[e.msg] = p
        BY <3>2
      <4>. QED  BY <4>1 DEF AskingFor, Waiting
    <3>. QED  BY <2>1, <3>1, <3>2, WaitingFacts
  <2>2. ASSUME NEW p \in Peers, pending'[p] # {}
        PROVE  AskingFor(p)' \/ answer[p] = "pending" \/ p \in blocked
    <3>1. CASE pending[p] # {}
      BY <2>1, <3>1 DEF CardTellsTheTruth
    <3>2. CASE pending[p] = {}
      BY <2>2, <3>2
    <3>. QED  BY <3>1, <3>2
  <2>. QED  BY <2>2 DEF CardTellsTheTruth
<1>. QED  BY <1>1, <1>2, <1>3

LEMMA HandlerInv ==
  ASSUME GateInv, GateTypeOK', Remember, NEW c \in conns, HandlerStep(c)
  PROVE  GateInv'
<1>. USE DEF service, window
<1>0. /\ c \in Conn /\ c.msg \in Msgs /\ From[c.msg] \in Peers
      /\ pending \in [Peers -> SUBSET Msgs] /\ events \in Seq(Event)
  BY GateAssumption DEF GateInv, GateTypeOK, Conn
<1>1. UNCHANGED <<sent, shown, approved, blocked, answer, card>>
  BY DEF HandlerStep, CheckBlocked, CheckApproved, Buffer, Ask, CountRate, Dispatch, Post
<1>2. \A pc : Goto(c, pc) => /\ \A d \in conns' : d \in conns \/ d.msg = c.msg
                             /\ \A d \in conns : d \in conns' \/ d = c
                             /\ [c EXCEPT !.pc = pc] \in conns'
                             /\ [c EXCEPT !.pc = pc].msg = c.msg
                             /\ [c EXCEPT !.pc = pc].pc = pc
  BY <1>0 DEF Goto, Conn
<1>3. Drop(c) => conns' \subseteq conns /\ \A d \in conns : d \in conns' \/ d = c
  BY DEF Drop
<1>4. CASE CheckBlocked(c) \/ CheckApproved(c) \/ CountRate(c)
  <2>1. UNCHANGED <<pending, events>> /\ c.pc # "ask"
    BY <1>4 DEF CheckBlocked, CheckApproved, CountRate
  <2>2. \/ \E pc : Goto(c, pc)
        \/ Drop(c)
    BY <1>4 DEF CheckBlocked, CheckApproved, CountRate
  <2>3. c.pc = "blocked?" /\ From[c.msg] \in blocked => conns' \subseteq conns
    BY <1>3, <1>4 DEF CheckBlocked, CheckApproved, CountRate
  <2>4. Waiting' = Waiting
    BY <2>1, WaitingFacts
  <2>5. /\ \A d \in conns' : d \in conns \/ d.msg = c.msg
        /\ \A d \in conns : d \in conns' \/ d = c
    BY <1>2, <1>3, <2>2
  <2>. QED  BY <1>1, <2>1, <2>3, <2>4, <2>5, HandlerMoves
<1>5. CASE Buffer(c)
  <2>1. /\ c.pc = "buffer" /\ UNCHANGED events /\ Goto(c, "ask")
        /\ pending' = [pending EXCEPT ![From[c.msg]] = @ \cup {c.msg}]
    BY <1>5 DEF Buffer
  <2>2. Waiting' = Waiting
    BY <2>1, WaitingFacts
  <2>3. AskingFor(From[c.msg])'
    <3>. DEFINE d == [c EXCEPT !.pc = "ask"]
    <3>1. d \in conns' /\ d.pc = "ask" /\ d.msg = c.msg
      BY <1>2, <2>1
    <3>. HIDE DEF d
    <3>. QED  BY <3>1 DEF AskingFor
  <2>4. \A p \in Peers : \A m \in pending'[p] :
            m \in pending[p] \/ (m = c.msg /\ p = From[m])
    BY <1>0, <2>1
  <2>5. \A p \in Peers : \A m \in pending'[p] :
            m \in pending[p] \/ (/\ m = c.msg /\ p = From[m] /\ c.pc # "blocked?"
                                /\ AskingFor(p)')
    BY <2>1, <2>3, <2>4
  <2>6. /\ \A d \in conns' : d \in conns \/ d.msg = c.msg
        /\ \A d \in conns : d \in conns' \/ d = c
    BY <1>2, <2>1
  <2>. QED  BY <1>1, <2>1, <2>2, <2>5, <2>6, HandlerMoves
<1>6. ASSUME NEW pc \in {"ask", "dispatch"}, NEW type \in {"request", "message"}, Post(c, pc, type),
             pc = "ask" => type = "request"
      PROVE  GateInv'
  <2>. DEFINE e == [type |-> type, msg |-> c.msg]
  <2>1. c.pc = pc /\ Drop(c) /\ UNCHANGED pending /\ events' = Append(events, e) /\ e \in Event
    BY <1>0, <1>6 DEF Post, Event
  <2>2. Waiting' = Waiting \cup {e}
    BY <1>0, <2>1, EmitWaits
  <2>3. ASSUME c.pc = "ask" PROVE AskingFor(From[c.msg])'
    <3>1. e \in Waiting' /\ e.type = "request" /\ e.msg = c.msg
      BY <1>6, <2>1, <2>2, <2>3
    <3>. QED  BY <3>1 DEF AskingFor, Waiting
  <2>4. Waiting \subseteq Waiting' /\ \A f \in Waiting' : f \in Waiting \/ f.msg = c.msg
    BY <2>2
  <2>. QED  BY <1>1, <1>3, <2>1, <2>3, <2>4, HandlerMoves
<1>. QED  BY <1>4, <1>5, <1>6 DEF HandlerStep, Ask, Dispatch

\* The user answers for p, or p is forgotten: its buffered messages are shown or
\* thrown away.
LEMMA AnswerInv ==
  ASSUME GateInv, GateTypeOK', Remember, NEW p \in Peers,
         UNCHANGED <<sent, conns>>,
         Waiting' \subseteq Waiting,
         \A e \in Waiting : e \in Waiting' \/ From[e.msg] = p,
         pending' = [pending EXCEPT ![p] = {}],
         shown' \subseteq shown \cup pending[p],
         \A q \in Peers : q # p => /\ q \in blocked' <=> q \in blocked
                                   /\ q \in approved' <=> q \in approved
                                   /\ answer'[q] = answer[q],
         answer'[p] \in {"none", "accepted", "blocked"},
         answer'[p] = "accepted" => p \in approved' /\ p \notin blocked',
         answer'[p] = "blocked" => p \in blocked'
  PROVE  GateInv'
<1>. USE DEF GateInv
<1>0. /\ pending'[p] = {}
      /\ \A q \in Peers : q # p => pending'[q] = pending[q]
  BY DEF GateTypeOK
<1>1. InHandWasSent'
  BY <1>0 DEF InHandWasSent
<1>2. ShutIsNowhere'
  <2>. SUFFICES ASSUME NEW n \in shut'
                PROVE  /\ n \notin shown' /\ n \notin pending'[From[n]]
                       /\ \A d \in conns : d.msg = n => d.pc = "blocked?"
                       /\ \A e \in Waiting' : e.msg # n
    BY ShutFacts DEF ShutIsNowhere
  <2>1. n \in shut /\ From[n] \in Peers
    BY ShutFacts, GateAssumption DEF GateTypeOK
  <2>2. n \notin pending[p]
    BY <2>1 DEF ShutIsNowhere, InHandWasSent
  <2>. QED  BY <1>0, <2>1, <2>2 DEF ShutIsNowhere
<1>3. CardTellsTheTruth'
  <2>1. ASSUME NEW q \in Peers, q # p, AskingFor(q) PROVE AskingFor(q)'
    <3>1. CASE \E d \in conns : d.pc = "ask" /\ From[d.msg] = q
      BY <3>1 DEF AskingFor
    <3>2. CASE \E e \in Waiting : e.type = "request" /\ From[e.msg] = q
      <4>1. \E e \in Waiting' : e.type = "request" /\ From[e.msg] = q
        BY <2>1, <3>2
      <4>. QED  BY <4>1 DEF AskingFor, Waiting
    <3>. QED  BY <2>1, <3>1, <3>2, WaitingFacts
  <2>2. ASSUME NEW q \in Peers
        PROVE  /\ answer'[q] = "accepted" => q \in approved' \ blocked'
               /\ answer'[q] = "blocked" => q \in blocked'
               /\ pending'[q] # {} => AskingFor(q)' \/ answer'[q] = "pending" \/ q \in blocked'
    <3>1. CASE q = p
      BY <1>0, <3>1
    <3>2. CASE q # p
      BY <1>0, <2>1, <3>2 DEF CardTellsTheTruth
    <3>. QED  BY <3>1, <3>2
  <2>. QED  BY <2>2 DEF CardTellsTheTruth
<1>. QED  BY <1>1, <1>2, <1>3

\* approve_ip together with the window's record of the answer.
LEMMA ApproveInv ==
  ASSUME GateInv, GateTypeOK', Remember, NEW p \in Peers, Approve(p),
         UNCHANGED <<sent, conns, card>>,
         Waiting' \subseteq Waiting,
         \A e \in Waiting : e \in Waiting' \/ From[e.msg] = p,
         answer' = [answer EXCEPT ![p] = "accepted"]
  PROVE  GateInv'
<1>1. /\ pending' = [pending EXCEPT ![p] = {}] /\ shown' = shown \cup pending[p]
      /\ p \in approved' /\ p \notin blocked'
      /\ \A q \in Peers : q # p => /\ q \in blocked' <=> q \in blocked
                                   /\ q \in approved' <=> q \in approved
  BY DEF Approve
<1>2. answer'[p] = "accepted" /\ \A q \in Peers : q # p => answer'[q] = answer[q]
  BY DEF GateInv, GateTypeOK
<1>. QED  BY <1>1, <1>2, AnswerInv

LEMMA SignalInv ==
  ASSUME GateInv, GateTypeOK', Remember, HandleSignal
  PROVE  GateInv'
<1>. USE DEF GateInv, service, window
<1>. DEFINE e == Head(events)
            p == From[e.msg]
<1>1. /\ e \in Event /\ e \in Waiting /\ e.msg \in Msgs /\ p \in Peers
      /\ Waiting' \subseteq Waiting /\ Waiting \subseteq Waiting' \cup {e}
  BY HandledWaited, GateAssumption DEF HandleSignal, Event, GateTypeOK
<1>2. UNCHANGED <<sent, conns>>
  BY DEF HandleSignal
<1>3. ReceiveMessage(e) \/ OnChatRequest(e)
  BY DEF HandleSignal
<1>a. \A f \in Waiting : f \in Waiting' \/ From[f.msg] = p
  BY <1>1
<1>. HIDE DEF e
<1>4. ASSUME NEW q \in Peers, AskingFor(q), e.type = "request" => q # p PROVE AskingFor(q)'
  <2>1. CASE \E d \in conns : d.pc = "ask" /\ From[d.msg] = q
    BY <1>2, <2>1 DEF AskingFor
  <2>2. CASE \E f \in Waiting : f.type = "request" /\ From[f.msg] = q
    <3>1. \E f \in Waiting' : f.type = "request" /\ From[f.msg] = q
      BY <1>1, <1>4, <2>2
    <3>. QED  BY <3>1 DEF AskingFor, Waiting
  <2>. QED  BY <1>4, <2>1, <2>2, WaitingFacts
<1>5. CASE ReceiveMessage(e)
  <2>1. /\ e.type = "message" /\ shown' = shown \cup {e.msg}
        /\ UNCHANGED <<pending, approved, blocked, answer, card>>
    BY <1>5 DEF ReceiveMessage
  <2>2. InHandWasSent'
    BY <1>1, <1>2, <2>1 DEF InHandWasSent
  <2>3. ShutIsNowhere'
    <3>1. \A n \in shut' : n \in shut /\ From[n] \in blocked
      BY <1>2, ShutFacts
    <3>. QED  BY <1>1, <1>2, <2>1, <3>1 DEF ShutIsNowhere
  <2>4. CardTellsTheTruth'
    <3>1. \A q \in Peers : AskingFor(q) => AskingFor(q)'
      BY <1>4, <2>1
    <3>. QED  BY <2>1, <3>1 DEF CardTellsTheTruth
  <2>. QED  BY <2>2, <2>3, <2>4
<1>6. CASE OnChatRequest(e)
  <2>1. CASE /\ answer[p] \in {"none", "pending", "blocked"}
             /\ answer[p] = "none" => /\ answer' = [answer EXCEPT ![p] = "pending"]
                                      /\ card' = card \cup {p}
             /\ answer[p] # "none" => UNCHANGED <<answer, card>>
             /\ UNCHANGED <<approved, blocked, pending, shown>>
    <3>1. InHandWasSent'
      BY <1>1, <1>2, <2>1 DEF InHandWasSent
    <3>2. ShutIsNowhere'
      <4>1. \A n \in shut' : n \in shut /\ From[n] \in blocked
        BY <1>2, ShutFacts
      <4>. QED  BY <1>1, <1>2, <2>1, <4>1 DEF ShutIsNowhere
    <3>3. /\ \A q \in Peers : q # p => answer'[q] = answer[q]
          /\ answer'[p] = IF answer[p] = "none" THEN "pending" ELSE answer[p]
          /\ card \subseteq card'
      BY <1>1, <2>1 DEF GateTypeOK
    <3>5. CardTellsTheTruth'
      <4>. SUFFICES ASSUME NEW q \in Peers
                    PROVE  /\ answer'[q] = "accepted" => q \in approved \ blocked
                           /\ answer'[q] = "blocked" => q \in blocked
                           /\ pending[q] # {} => AskingFor(q)' \/ answer'[q] = "pending" \/ q \in blocked
        BY <2>1 DEF CardTellsTheTruth
      <4>1. CASE q = p
        <5>1. answer'[p] \in {"pending", "blocked"}
          BY <2>1, <3>3
        <5>2. answer'[p] = "blocked" => answer[p] = "blocked"
          BY <3>3
        <5>. QED  BY <1>1, <4>1, <5>1, <5>2 DEF CardTellsTheTruth
      <4>2. CASE q # p
        BY <1>4, <3>3, <4>2 DEF CardTellsTheTruth
      <4>. QED  BY <4>1, <4>2
    <3>. QED  BY <3>1, <3>2, <3>5
  <2>2. CASE answer[p] = "accepted" /\ Approve(p) /\ UNCHANGED <<answer, card>>
    <3>1. answer' = [answer EXCEPT ![p] = "accepted"]
      BY <2>2 DEF GateTypeOK
    <3>. QED  BY <1>1, <1>2, <1>a, <2>2, <3>1, ApproveInv
  <2>. QED  BY <1>6, <2>1, <2>2 DEF OnChatRequest
<1>. QED  BY <1>3, <1>5, <1>6

LEMMA UserInv ==
  ASSUME GateInv, GateTypeOK', Remember, User
  PROVE  GateInv'
<1>. USE DEF service, inbound, window, disk, setting
<1>0. UNCHANGED <<sent, conns, events>>
  BY DEF User, Accept, BlockCard, BlockUser, Unblock, DeletePeer, ConnectManual, SavePeer,
         ClearHistory, ToggleIpChat
<1>1. Waiting' = Waiting
  BY <1>0, WaitingFacts
<1>t. answer \in [Peers -> {"none", "pending", "accepted", "blocked"}]
  BY DEF GateInv, GateTypeOK
<1>2. ASSUME NEW p \in Peers, Accept(p) PROVE GateInv'
  BY <1>0, <1>1, <1>2, ApproveInv DEF Accept
<1>3. ASSUME NEW p \in Peers, BlockCard(p) \/ BlockUser(p) PROVE GateInv'
  <2>1. /\ pending' = [pending EXCEPT ![p] = {}] /\ UNCHANGED <<shown, card>>
        /\ p \in blocked' /\ answer' = [answer EXCEPT ![p] = "blocked"]
        /\ blocked' = blocked \cup {p} /\ approved' = approved \ {p}
    BY <1>3 DEF BlockCard, BlockUser, Block
  <2>2. answer'[p] = "blocked" /\ \A q \in Peers : q # p => answer'[q] = answer[q]
    BY <1>t, <2>1
  <2>3. \A q \in Peers : q # p => /\ q \in blocked' <=> q \in blocked
                                  /\ q \in approved' <=> q \in approved
    BY <2>1
  <2>. QED  BY <1>0, <1>1, <2>1, <2>2, <2>3, AnswerInv
<1>4. ASSUME NEW p \in Peers, Unblock(p) \/ DeletePeer(p) PROVE GateInv'
  <2>1. /\ pending' = [pending EXCEPT ![p] = {}] /\ UNCHANGED shown
        /\ answer' = [answer EXCEPT ![p] = "none"]
    BY <1>4 DEF Unblock, DeletePeer
  <2>2. answer'[p] = "none" /\ \A q \in Peers : q # p => answer'[q] = answer[q]
    BY <1>t, <2>1
  <2>3. \A q \in Peers : q # p => /\ q \in blocked' <=> q \in blocked
                                  /\ q \in approved' <=> q \in approved
    BY <1>4 DEF Unblock, DeletePeer
  <2>. QED  BY <1>0, <1>1, <2>1, <2>2, <2>3, AnswerInv
<1>5. ASSUME NEW p \in Peers, ConnectManual(p) PROVE GateInv'
  BY <1>0, <1>5, Untouched DEF ConnectManual
<1>6. ASSUME NEW p \in Peers, SavePeer(p) PROVE GateInv'
  BY <1>0, <1>6, Untouched DEF SavePeer
<1>7. CASE ToggleIpChat
  BY <1>0, <1>7, Untouched DEF ToggleIpChat
<1>8. ASSUME NEW ps \in SUBSET Peers, ClearHistory(ps) PROVE GateInv'
  BY <1>0, <1>8, Untouched DEF ClearHistory
<1>. QED  BY <1>2, <1>3, <1>4, <1>5, <1>6, <1>7, <1>8 DEF User

\* A restart empties what was in hand, and takes the answers from the files.
LEMMA RestartInv ==
  ASSUME GateInv, GateTypeOK', Remember, Restart
  PROVE  GateInv'
<1>. USE DEF GateInv
<1>0. /\ conns' = {} /\ events' = <<>> /\ UNCHANGED <<sent, shown>>
      /\ pending' = [p \in Peers |-> {}]
  BY DEF Restart
<1>1. Waiting' = {}
  BY <1>0 DEF Waiting
<1>2. InHandWasSent'
  BY <1>0, <1>1 DEF InHandWasSent
<1>3. ShutIsNowhere'
  <2>1. \A n \in shut' : n \in shut /\ From[n] \in Peers /\ From[n] \in blocked'
    BY <1>0, ShutFacts, GateAssumption DEF GateTypeOK
  <2>. QED  BY <1>0, <1>1, <2>1 DEF ShutIsNowhere
<1>4. ASSUME NEW p \in Peers
      PROVE  /\ answer'[p] = "accepted" => p \in approved' \ blocked'
             /\ answer'[p] = "blocked" => p \in blocked'
             /\ pending'[p] = {}
  BY <1>0 DEF Restart, Load
<1>5. CardTellsTheTruth'
  BY <1>4 DEF CardTellsTheTruth
<1>. QED  BY <1>2, <1>3, <1>5

LEMMA GateInvStep ==
  ASSUME GateInv, GateTypeOK', [GNext]_gvars
  PROVE  GateInv'
<1>. USE DEF service, inbound, window, disk, setting
<1>1. ASSUME NEW p \in Peers, WindowPasses(p) \/ Roam(p) \/ Flush(p), Remember PROVE GateInv'
  <2>1. UNCHANGED <<sent, conns, events, shown, pending, approved, blocked, answer, card>>
    BY <1>1 DEF WindowPasses, Roam, Flush
  <2>. QED  BY <1>1, <2>1, Untouched
<1>2. CASE UNCHANGED gvars
  <2>1. UNCHANGED <<sent, conns, events, shown, pending, approved, blocked, answer, card, shut>>
    BY <1>2 DEF gvars
  <2>2. Waiting' = Waiting /\ \A p : AskingFor(p)' = AskingFor(p)
    BY <2>1, WaitingFacts DEF AskingFor
  <2>. QED  BY <2>1, <2>2 DEF GateInv, InHandWasSent, ShutIsNowhere,
                              CardTellsTheTruth
<1>. QED  BY <1>1, <1>2, ConnectInv, HandlerInv, SignalInv, UserInv, RestartInv DEF GNext, GStep

LEMMA GateInvHolds == GSpec => []GateInv
<1>1. GInit => GateInv
  <2>. SUFFICES ASSUME GInit PROVE GateInv
    OBVIOUS
  <2>1. GateTypeOK
    BY GateAssumption DEF GInit, GateTypeOK, NoFile, Snapshot
  <2>2. Waiting = {}
    BY WaitingFacts DEF GInit
  <2>. QED  BY <2>1, <2>2 DEF GInit, GateInv, InHandWasSent, ShutIsNowhere,
                              CardTellsTheTruth
<1>2. GateInv /\ GateTypeOK' /\ [GNext]_gvars => GateInv'
  BY GateInvStep
<1>. QED  BY <1>1, <1>2, GateTypeCorrect, PTL DEF GSpec

\* README, "Blocking": whatever came while its sender was blocked is not shown
\* and not buffered to be shown, though each handler reads the block list before
\* and apart from everything else it does.
THEOREM BlockedIsKeptOut == GSpec => []BlockedStaysOut
<1>1. GateInv => BlockedStaysOut
  BY DEF GateInv, ShutIsNowhere, BlockedStaysOut
<1>. QED  BY <1>1, GateInvHolds, PTL

\* The window's answers and the service's sets agree after any interleaving of
\* handlers, signals, the user's choices and restarts, and nothing is buffered
\* behind a question that was not put to the user or is not on its way there.
THEOREM CardIsTrue == GSpec => []CardTellsTheTruth
<1>1. GateInv => CardTellsTheTruth
  BY DEF GateInv
<1>. QED  BY <1>1, GateInvHolds, PTL
=============================================================================
