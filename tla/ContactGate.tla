---------------------------- MODULE ContactGate ----------------------------
(***************************************************************************)
(* Who may reach the user: the first-contact gate and the block list.      *)
(*                                                                         *)
(* ChatService (nst/chat.py) handles each connection in a thread of its    *)
(* own, which reads the blocked and the approved addresses without the     *)
(* lock, and later appends to the pending requests under it.  ChatWindow   *)
(* (nst/qt/chat_window.py) keeps its own record of the user's answers, in  *)
(* the GUI thread, and writes both to a history file per peer through a    *)
(* writer thread; blocked users are also listed in the registry.           *)
(*                                                                         *)
(* Messages are chat, group and channel messages.  The trusted control     *)
(* types do not pass this gate, and file offers, which do, are exempt from *)
(* the rate limit.                                                         *)
(***************************************************************************)
EXTENDS Naturals, Sequences, FiniteSets

CONSTANTS
  Peers,      \* addresses
  Msgs,       \* messages, each sent once
  From,       \* From[m]: its sender
  RateLimit,  \* CHAT_RATE_LIMIT: messages of one peer per window
  MaxStarts   \* bound: restarts of the program

ASSUME GateAssumption ==
  /\ From \in [Msgs -> Peers]
  /\ RateLimit \in Nat /\ MaxStarts \in Nat

VARIABLES
  sent,       \* messages whose connection we have accepted
  conns,      \* the handler threads
  approved,   \* _approved_ips
  blocked,    \* _blocked_ips
  manual,     \* _manual
  pending,    \* _pending_requests
  recent,     \* recent[p]: messages counted in p's current window
  ipChat,     \* ip_chat_enabled
  near,       \* the peers on a subnet of ours just now (_is_same_subnet)
  events,     \* signals queued for the GUI thread
  answer,     \* _chat_req_states
  card,       \* peers whose conversation holds a request card
  shown,      \* messages the user has been shown
  unsaved,    \* unsaved[p]: the snapshot, if any, the writer has still to write
  file,       \* file[p]: p's history file
  listed,     \* the registry's BlockedUsers
  starts,     \* restarts so far
  shut        \* history: messages that came while their sender was blocked,
              \* from senders blocked ever since

service == <<approved, blocked, manual, pending>>
inbound == <<sent, conns, recent, events>>
window  == <<answer, card, shown>>
disk    == <<unsaved, file, listed>>
setting == <<ipChat, near>>
gvars   == <<service, inbound, window, disk, setting, starts, shut>>

Conn == [msg : Msgs, pc : {"blocked?", "approved?", "buffer", "ask", "rate", "dispatch"}]

Event == [type : {"message", "request"}, msg : Msgs]

\* What a history file says of its peer; no file says nothing at all.
Snapshot == SUBSET {"peer", "approved", "blocked", "manual"}
NoFile   == {}

GateTypeOK ==
  /\ sent \subseteq Msgs /\ shown \subseteq Msgs
  /\ conns \subseteq Conn
  /\ approved \subseteq Peers /\ blocked \subseteq Peers /\ manual \subseteq Peers
  /\ pending \in [Peers -> SUBSET Msgs]
  /\ recent \in [Peers -> 0..RateLimit]
  /\ ipChat \in BOOLEAN /\ near \subseteq Peers
  /\ events \in Seq(Event)
  /\ answer \in [Peers -> {"none", "pending", "accepted", "blocked"}]
  /\ card \subseteq Peers /\ listed \subseteq Peers
  /\ unsaved \in [Peers -> {{}} \cup {{f} : f \in Snapshot}]
  /\ file \in [Peers -> Snapshot]
  /\ starts \in 0..MaxStarts /\ shut \subseteq sent

GInit ==
  /\ sent = {} /\ conns = {} /\ events = <<>> /\ shown = {}
  /\ approved = {} /\ blocked = {} /\ manual = {}
  /\ pending = [p \in Peers |-> {}]
  /\ recent = [p \in Peers |-> 0]
  /\ ipChat \in BOOLEAN /\ near \in SUBSET Peers
  /\ answer = [p \in Peers |-> "none"]
  /\ card = {} /\ listed = {}
  /\ unsaved = [p \in Peers |-> {}] /\ file = [p \in Peers |-> NoFile]
  /\ starts = 0 /\ shut = {}

-----------------------------------------------------------------------------
(* A handler thread (_handle_conn), one read or one lock section at a time. *)

Connect(m) ==
  /\ m \notin sent
  /\ sent' = sent \cup {m}
  /\ conns' = conns \cup {[msg |-> m, pc |-> "blocked?"]}
  /\ UNCHANGED <<service, recent, events, window, disk, setting, starts>>

Goto(c, pc) == conns' = (conns \ {c}) \cup {[c EXCEPT !.pc = pc]}
Drop(c)     == conns' = conns \ {c}

\* Mutant: an approved peer is let in before the block list is read.
CheckApprovedFirst(c) ==
  /\ c.pc = "blocked?"
  /\ \/ From[c.msg] \in blocked \ approved /\ Drop(c)
     \/ From[c.msg] \in near \cup approved /\ Goto(c, "rate")
     \/ From[c.msg] \notin near \cup blocked \cup approved /\ Goto(c, "approved?")
  /\ UNCHANGED <<service, sent, recent, events, window, disk, setting, starts>>

CheckBlocked(c) ==
  /\ c.pc = "blocked?"
  /\ \/ From[c.msg] \in blocked /\ Drop(c)
     \/ From[c.msg] \in near \ blocked /\ Goto(c, "rate")
     \/ From[c.msg] \notin near \cup blocked /\ Goto(c, "approved?")
  /\ UNCHANGED <<service, sent, recent, events, window, disk, setting, starts>>

CheckApproved(c) ==
  /\ c.pc = "approved?"
  /\ \/ From[c.msg] \in approved /\ Goto(c, "rate")
     \/ From[c.msg] \notin approved /\ ipChat /\ Goto(c, "buffer")
     \/ From[c.msg] \notin approved /\ ~ipChat /\ Drop(c)
  /\ UNCHANGED <<service, sent, recent, events, window, disk, setting, starts>>

Buffer(c) ==
  /\ c.pc = "buffer"
  /\ pending' = [pending EXCEPT ![From[c.msg]] = @ \cup {c.msg}]
  /\ Goto(c, "ask")
  /\ UNCHANGED <<approved, blocked, manual, sent, recent, events, window, disk, setting, starts>>

Post(c, pc, type) ==
  /\ c.pc = pc
  /\ events' = Append(events, [type |-> type, msg |-> c.msg])
  /\ Drop(c)
  /\ UNCHANGED <<service, sent, recent, window, disk, setting, starts>>

Ask(c) == Post(c, "ask", "request")

\* Mutant: the limit is off by one.
CountRateLate(c) ==
  /\ c.pc = "rate"
  /\ \/ /\ recent[From[c.msg]] <= RateLimit
        /\ recent' = [recent EXCEPT ![From[c.msg]] = @ + 1]
        /\ Goto(c, "dispatch")
     \/ /\ recent[From[c.msg]] > RateLimit
        /\ Drop(c)
        /\ UNCHANGED recent
  /\ UNCHANGED <<service, sent, events, window, disk, setting, starts>>

\* _rate_ok, under the lock.
CountRate(c) ==
  /\ c.pc = "rate"
  /\ \/ /\ recent[From[c.msg]] < RateLimit
        /\ recent' = [recent EXCEPT ![From[c.msg]] = @ + 1]
        /\ Goto(c, "dispatch")
     \/ /\ recent[From[c.msg]] >= RateLimit
        /\ Drop(c)
        /\ UNCHANGED recent
  /\ UNCHANGED <<service, sent, events, window, disk, setting, starts>>

Dispatch(c) == Post(c, "dispatch", "message")

\* The window of CHAT_RATE_WINDOW seconds has moved past p's messages.
WindowPasses(p) ==
  /\ recent[p] > 0
  /\ recent' = [recent EXCEPT ![p] = 0]
  /\ UNCHANGED <<service, sent, conns, events, window, disk, setting, starts>>

-----------------------------------------------------------------------------
(* The service calls the window makes, each one lock section.              *)

\* approve_ip; what it dispatches reaches the window at once, in its thread.
Approve(p) ==
  /\ approved' = approved \cup {p}
  /\ blocked' = blocked \ {p}
  /\ manual' = manual \cup {p}
  /\ pending' = [pending EXCEPT ![p] = {}]
  /\ shown' = shown \cup pending[p]

Block(p) ==
  /\ blocked' = blocked \cup {p}
  /\ approved' = approved \ {p}
  /\ pending' = [pending EXCEPT ![p] = {}]
  /\ UNCHANGED manual

\* _save_peer: a snapshot for the writer, replacing one it has not taken yet.
SaveAll(ps) ==
  unsaved' = [p \in Peers |-> IF p \notin ps THEN unsaved[p] ELSE
    {{"peer"} \cup {flag \in {"approved", "blocked", "manual"} :
        p \in CASE flag = "approved" -> approved' [] flag = "blocked" -> blocked'
                [] flag = "manual" -> manual'}}]

Save(p) == SaveAll({p})

-----------------------------------------------------------------------------
(* The GUI thread: signals.                                                *)

\* receive_message
ReceiveMessage(e) ==
  /\ e.type = "message"
  /\ shown' = shown \cup {e.msg}
  /\ UNCHANGED <<service, answer, card>>
  /\ Save(From[e.msg])

\* Mutant: an answered request is not looked at again.
OnChatRequestOnce(e) ==
  /\ e.type = "request"
  /\ LET p == From[e.msg] IN
     \/ /\ answer[p] = "none"
        /\ answer' = [answer EXCEPT ![p] = "pending"]
        /\ card' = card \cup {p}
        /\ UNCHANGED <<service, shown, unsaved>>
     \/ /\ answer[p] # "none"
        /\ UNCHANGED <<service, window, unsaved>>

\* on_chat_request_received: ask, or approve again whoever was accepted.
OnChatRequest(e) ==
  /\ e.type = "request"
  /\ LET p == From[e.msg] IN
     \/ /\ answer[p] = "none"
        /\ answer' = [answer EXCEPT ![p] = "pending"]
        /\ card' = card \cup {p}
        /\ UNCHANGED <<service, shown, unsaved>>
     \/ /\ answer[p] = "accepted"
        /\ Approve(p)
        /\ IF pending[p] = {} THEN UNCHANGED unsaved ELSE Save(p)
        /\ UNCHANGED <<answer, card>>
     \/ /\ answer[p] \in {"pending", "blocked"}
        /\ UNCHANGED <<service, window, unsaved>>

HandleSignal ==
  /\ events # <<>>
  /\ ReceiveMessage(Head(events)) \/ OnChatRequest(Head(events))
  /\ events' = Tail(events)
  /\ UNCHANGED <<sent, conns, recent, file, listed, setting, starts>>

-----------------------------------------------------------------------------
(* The GUI thread: the user.                                               *)

\* In the roster: nearby, in the history, or with something in its conversation.
Known(p) ==
  \/ p \in near \cup card \cup manual
  \/ file[p] # NoFile \/ \E f \in unsaved[p] : f # NoFile

\* The card offers its buttons while the peer's state is "pending", the default.
CardOpen(p) == p \in card /\ answer[p] \in {"none", "pending"}

\* _accept_chat
Accept(p) ==
  /\ CardOpen(p)
  /\ answer' = [answer EXCEPT ![p] = "accepted"]
  /\ Approve(p)
  /\ Save(p)
  /\ UNCHANGED <<inbound, card, file, listed, setting, starts>>

\* _block_chat
BlockCard(p) ==
  /\ CardOpen(p)
  /\ answer' = [answer EXCEPT ![p] = "blocked"]
  /\ Block(p)
  /\ Save(p)
  /\ UNCHANGED <<inbound, card, shown, file, listed, setting, starts>>

\* block_user
BlockUser(p) ==
  /\ Known(p) /\ p \notin blocked
  /\ Block(p)
  /\ listed' = listed \cup {p}
  /\ answer' = [answer EXCEPT ![p] = "blocked"]
  /\ UNCHANGED <<inbound, card, shown, unsaved, file, setting, starts>>

\* unblock_user, from the roster or from the settings' list.
Unblock(p) ==
  /\ p \in blocked \cup listed
  /\ blocked' = blocked \ {p}
  /\ pending' = [pending EXCEPT ![p] = {}]
  /\ listed' = listed \ {p}
  /\ answer' = [answer EXCEPT ![p] = "none"]
  /\ UNCHANGED <<approved, manual, inbound, card, shown, unsaved, file, setting, starts>>

\* Mutant: deleting forgets to empty the buffered requests.
DeletePeerKeepsPending(p) ==
  /\ Known(p)
  /\ approved' = approved \ {p} /\ blocked' = blocked \ {p} /\ manual' = manual \ {p}
  /\ answer' = [answer EXCEPT ![p] = "none"]
  /\ card' = card \ {p}
  /\ unsaved' = [unsaved EXCEPT ![p] = {NoFile}]
  /\ UNCHANGED <<pending, inbound, shown, file, listed, setting, starts>>

\* _delete_peer, with remove_peer: the registry's list stays.
DeletePeer(p) ==
  /\ Known(p)
  /\ approved' = approved \ {p} /\ blocked' = blocked \ {p} /\ manual' = manual \ {p}
  /\ pending' = [pending EXCEPT ![p] = {}]
  /\ answer' = [answer EXCEPT ![p] = "none"]
  /\ card' = card \ {p}
  /\ unsaved' = [unsaved EXCEPT ![p] = {NoFile}]
  /\ UNCHANGED <<inbound, shown, file, listed, setting, starts>>

\* _connect_manual_ip, with add_manual_peer.
ConnectManual(p) ==
  /\ manual' = manual \cup {p}
  /\ approved' = approved \cup {p}
  /\ UNCHANGED <<blocked, pending>>
  /\ Save(p)
  /\ UNCHANGED <<inbound, window, file, listed, setting, starts>>

\* Any other save of p's history: a receipt, a reaction, a sent message.
SavePeer(p) ==
  /\ Known(p)
  /\ UNCHANGED service
  /\ Save(p)
  /\ UNCHANGED <<inbound, window, file, listed, setting, starts>>

\* _clear_chat, for the conversation that is open, and clear_all_history, for
\* every one there is: the messages go, a request's card with them.  What was
\* asked stays asked (_chat_req_states), and what is buffered stays buffered.
ClearHistory(ps) ==
  /\ \A p \in ps : Known(p)
  /\ card \subseteq ps \/ Cardinality(ps) = 1
  /\ card' = card \ ps
  /\ UNCHANGED service
  /\ SaveAll(ps)
  /\ UNCHANGED <<inbound, answer, shown, file, listed, setting, starts>>

ToggleIpChat ==
  /\ ipChat' = ~ipChat
  /\ UNCHANGED <<near, service, inbound, window, disk, starts>>

\* An address of ours appears or goes: p is on a subnet of ours, or is no more.
Roam(p) ==
  /\ near' = (near \ {p}) \cup ({p} \ near)
  /\ UNCHANGED <<ipChat, service, inbound, window, disk, starts>>

-----------------------------------------------------------------------------
(* The writer thread, and the program's end and next start.                *)

Flush(p) ==
  /\ \E f \in unsaved[p] : file' = [file EXCEPT ![p] = f]
  /\ unsaved' = [unsaved EXCEPT ![p] = {}]
  /\ UNCHANGED <<service, inbound, window, listed, setting, starts>>

\* _ingest_history: approved before blocked, a manual peer is approved again.
Load ==
  LET Says(flag) == {p \in Peers : flag \in file[p]} IN
  /\ approved' = Says("approved") \cup (Says("manual") \ Says("blocked"))
  /\ blocked' = Says("blocked") \ Says("approved")
  /\ manual' = Says("manual") \cup Says("approved")
  /\ answer' = [p \in Peers |-> CASE p \in Says("approved") -> "accepted"
                               [] p \in blocked' -> "blocked"
                               [] OTHER -> "none"]

\* The program ends, with snapshots unsaved if it crashes, and starts again.
Restart ==
  /\ starts < MaxStarts /\ starts' = starts + 1
  /\ Load
  /\ pending' = [p \in Peers |-> {}] /\ recent' = [p \in Peers |-> 0]
  /\ conns' = {} /\ events' = <<>> /\ card' = {}
  /\ unsaved' = [p \in Peers |-> {}]
  /\ UNCHANGED <<sent, shown, file, listed, setting>>

-----------------------------------------------------------------------------
HandlerStep(c) ==
  \/ CheckBlocked(c) \/ CheckApproved(c) \/ Buffer(c) \/ Ask(c)
  \/ CountRate(c) \/ Dispatch(c)

User ==
  \/ \E p \in Peers : Accept(p) \/ BlockCard(p) \/ BlockUser(p) \/ Unblock(p)
                      \/ DeletePeer(p) \/ ConnectManual(p) \/ SavePeer(p)
  \/ \E ps \in SUBSET Peers : ClearHistory(ps)
  \/ ToggleIpChat

GStep ==
  \/ \E m \in Msgs : Connect(m)
  \/ \E c \in conns : HandlerStep(c)
  \/ \E p \in Peers : WindowPasses(p) \/ Roam(p) \/ Flush(p)
  \/ HandleSignal
  \/ User
  \/ Restart

Remember ==
  shut' = {m \in sent' : From[m] \in blocked \cap blocked' /\ (m \in shut \/ m \notin sent)}

GNext == GStep /\ Remember

GSpec == GInit /\ [][GNext]_gvars

\* Handler threads and the GUI's event loop run; nobody has to answer.
FairGSpec ==
  /\ GSpec
  /\ WF_gvars((\E c \in conns : HandlerStep(c)) /\ Remember)
  /\ WF_gvars(HandleSignal /\ Remember)

-----------------------------------------------------------------------------
AskingFor(p) ==
  \/ \E c \in conns : c.pc = "ask" /\ From[c.msg] = p
  \/ \E i \in DOMAIN events : events[i].type = "request" /\ From[events[i].msg] = p

\* README, "Blocking": "Blocked peers cannot send you messages ..., on LAN and
\* cross-subnet alike": what came from a blocked peer is not shown, and does not
\* wait to be shown, however handlers and blocking interleave.
BlockedStaysOut ==
  \A m \in shut : m \notin shown /\ m \notin pending[From[m]]

\* _make_req_bubble: the card says "Accepted -- messages will now appear
\* normally" or "Blocked -- messages from this IP are discarded"; the window's
\* record and the service's sets, kept by different threads' code, agree, and no
\* message is buffered behind a question that nobody asked the user.  That the
\* question can still be answered is not claimed: a chat cleared with the
\* question open takes the card, and the peer is not asked about again.
CardTellsTheTruth ==
  \A p \in Peers :
    /\ answer[p] = "accepted" => p \in approved \ blocked
    /\ answer[p] = "blocked" => p \in blocked
    /\ pending[p] # {} => AskingFor(p) \/ answer[p] = "pending" \/ p \in blocked

\* approve_ip, "deliver any buffered messages": a message buffered just after
\* the user accepted its sender is shown all the same.
AcceptedGetsThrough ==
  \A p \in Peers : (answer[p] = "accepted" /\ pending[p] # {}) ~> pending[p] = {}
=============================================================================
