---------------------------- MODULE Conversation ----------------------------
(***************************************************************************)
(* A conversation seen from both ends: the sender's bubbles and their      *)
(* ticks (nst/qt/chat_window.py), the service threads of Outbox beneath    *)
(* them, and what the recipients' windows show.                            *)
(*                                                                         *)
(* The window runs in the GUI thread.  Whatever a service thread has to    *)
(* say to it is a queued Qt signal: events is that queue, in the order the *)
(* threads posted.  A recipient handles every connection in a thread of    *)
(* its own, so what its TCP stack took can reach its window in any order.  *)
(***************************************************************************)
EXTENDS Outbox

CONSTANT Private      \* the texts of 1:1 chats; the others are group posts

ASSUME ConversationAssumption == Private \subseteq Texts

VARIABLES
  status,    \* status[t]: the tick of our bubble
  events,    \* signals posted to our GUI thread
  failed,    \* texts with a failed turn whose worker has not reported yet
  done,      \* texts the loop delivered in the queue it is working on
  tomb,      \* tomb[t]: we deleted t for everyone
  editing,   \* the text loaded into the composer for editing, if any
  deletes,   \* delete requests: a worker still has it, or the peer took it
  receipts,  \* receipts the recipients' threads still have to send
  readSent,  \* readSent[p]: texts p has sent a read receipt for (_read_sent)
  handled,   \* handled[p]: indices of arrived[p] that a handler thread dispatched
  toShow,    \* toShow[p]: texts acknowledged whose signal p's window has not handled
  lost,      \* lost[p]: indices of arrived[p] that died with p's process
  shown      \* shown[p][t]: the version p's window shows

sender == <<status, events, failed, done, tomb, editing>>
peers  == <<deletes, receipts, readSent, handled, toShow, lost, shown>>
cvars == <<sender, peers>>
allvars == <<vars, cvars>>

Ticks == {"none", "sent", "queued", "delivered", "read"}
Order == [s \in Ticks |-> CASE s = "delivered" -> 1 [] s = "read" -> 2 [] OTHER -> 0]

Event == [type : {"queued"}, text : Texts]
           \cup [type : {"flush"}, texts : SUBSET Texts]
           \cup [type : {"receipt"}, text : Texts, state : {"delivered", "read"}]

\* A view is the version shown, or one of two more values.
Absent  == MaxEdits + 1
Deleted == MaxEdits + 2
Views   == 0..(MaxEdits + 2)

ConversationTypeOK ==
  /\ TypeOK
  /\ status \in [Texts -> Ticks]
  /\ events \in Seq(Event)
  /\ failed \subseteq Texts /\ done \subseteq Texts
  /\ tomb \in [Texts -> BOOLEAN]
  /\ editing \in {{}} \cup {{t} : t \in Texts}
  /\ deletes \subseteq [to : Peers, text : Texts, at : {"worker", "peer"}]
  /\ receipts \subseteq [by : Peers, text : Texts, state : {"delivered", "read"}]
  /\ readSent \in [Peers -> SUBSET Texts] /\ toShow \in [Peers -> SUBSET Texts]
  /\ \A p \in Peers : handled[p] \cup lost[p] \subseteq DOMAIN arrived[p]
  /\ shown \in [Peers -> [Texts -> Views]]

CInit ==
  /\ Init
  /\ status = [t \in Texts |-> "none"]
  /\ events = <<>>
  /\ failed = {} /\ done = {}
  /\ tomb = [t \in Texts |-> FALSE]
  /\ editing = {}
  /\ deletes = {} /\ receipts = {}
  /\ readSent = [p \in Peers |-> {}] /\ toShow = [p \in Peers |-> {}]
  /\ handled = [p \in Peers |-> {}] /\ lost = [p \in Peers |-> {}]
  /\ shown = [p \in Peers |-> [t \in Texts |-> Absent]]

-----------------------------------------------------------------------------
(* The sender's user.                                                      *)

\* _send: the bubble is stored as "sent" before the worker starts.
Post(t) ==
  /\ editing = {}
  /\ SendText(t)
  /\ status' = [status EXCEPT ![t] = "sent"]
  /\ UNCHANGED <<events, failed, done, tomb, editing, peers>>

\* _begin_edit: a tombstone has no text to edit.  (Bound: an edit is left.)
BeginEdit(t) ==
  /\ status[t] # "none" /\ ~tomb[t]
  /\ \E v \in 1..MaxEdits : \A p \in To[t] : EditMsg(t, v) \notin issued[p]
  /\ editing' = {t}
  /\ UNCHANGED <<vars, status, events, failed, done, tomb, peers>>

CancelEdit ==
  /\ editing' = {}
  /\ UNCHANGED <<vars, status, events, failed, done, tomb, peers>>

\* _send while editing, _apply_edit: the message may have been deleted since.
Edit(t, v) ==
  /\ editing = {t}
  /\ SendEdit(t, v)
  /\ editing' = {}
  /\ UNCHANGED <<status, events, failed, done, tomb, peers>>

\* Mutant: deleting stores the tombstone as the tick.
DeleteAsStatus(t) ==
  /\ status[t] # "none" /\ ~tomb[t]
  /\ tomb' = [tomb EXCEPT ![t] = TRUE]
  /\ status' = [status EXCEPT ![t] = "deleted"]
  /\ deletes' = deletes \cup [to : To[t], text : {t}, at : {"worker"}]
  /\ UNCHANGED <<vars, events, failed, done, editing, receipts, readSent, handled, toShow, lost, shown>>

\* _delete_everyone: a tombstone here, one attempt per recipient there.
DeleteEveryone(t) ==
  /\ status[t] # "none" /\ ~tomb[t]
  /\ tomb' = [tomb EXCEPT ![t] = TRUE]
  /\ deletes' = deletes \cup [to : To[t], text : {t}, at : {"worker"}]
  /\ UNCHANGED <<vars, status, events, failed, done, editing, receipts, readSent, handled, toShow, lost, shown>>

-----------------------------------------------------------------------------
(* The sender's threads.                                                   *)

Deliver(w) == WorkerDeliver(w) /\ UNCHANGED cvars
Purge(w)   == WorkerPurge(w) /\ UNCHANGED cvars

\* Mutant: a failed send is not reported (as _forward does for its copies).
EnqueueQuietly(w) == WorkerEnqueue(w) /\ UNCHANGED cvars

Enqueue(w) ==
  /\ WorkerEnqueue(w)
  /\ failed' = IF w.msg.kind = "text" THEN failed \cup {w.msg.id} ELSE failed
  /\ UNCHANGED <<status, events, done, tomb, editing, peers>>

\* _send_worker / _send_group_worker: after the last recipient was tried, one
\* signal if any of them failed.
Report(t) ==
  /\ t \in failed
  /\ \A w \in work : w.msg # TextMsg(t)
  /\ failed' = failed \ {t}
  /\ events' = Append(events, [type |-> "queued", text |-> t])
  /\ UNCHANGED <<vars, status, done, tomb, editing, peers>>

\* send_delete: tried once; if the peer is away the request is lost.
TryDelete(d) ==
  /\ d.at = "worker"
  /\ deletes' = (deletes \ {d}) \cup (IF up[d.to] THEN {[d EXCEPT !.at = "peer"]} ELSE {})
  /\ UNCHANGED <<vars, sender, receipts, readSent, handled, toShow, lost, shown>>

LoopTries ==
  /\ LoopTry
  /\ done' = IF loop'.pc = "remove" /\ loop'.now.msg.kind = "text"
             THEN done \cup {loop'.now.msg.id} ELSE done
  /\ UNCHANGED <<status, events, failed, tomb, editing, peers>>

LoopFlushes ==
  /\ LoopFlush
  /\ events' = IF done = {} THEN events
               ELSE Append(events, [type |-> "flush", texts |-> done])
  /\ done' = {}
  /\ UNCHANGED <<status, failed, tomb, editing, peers>>

OtherLoopStep ==
  /\ \/ LoopWake \/ LoopRemove \/ LoopRest
     \/ \E p \in Peers : LoopSkip(p) \/ LoopTake(p)
  /\ UNCHANGED cvars

-----------------------------------------------------------------------------
(* The sender's GUI thread takes the next signal.                          *)

\* Mutant: a flushed message is taken for a delivered one.
OnQueueFlushDelivered(e) ==
  /\ e.type = "flush"
  /\ status' = [t \in Texts |-> IF t \in e.texts /\ status[t] = "queued"
                                THEN "delivered" ELSE status[t]]

\* _on_queued
OnQueued(e) ==
  /\ e.type = "queued"
  /\ status' = IF status[e.text] \in {"delivered", "read"} THEN status
               ELSE [status EXCEPT ![e.text] = "queued"]

\* on_queue_flush
OnQueueFlush(e) ==
  /\ e.type = "flush"
  /\ status' = [t \in Texts |-> IF t \in e.texts /\ status[t] = "queued"
                                THEN "sent" ELSE status[t]]

\* on_receipt: a group's read receipts only count who has seen the post.
OnReceipt(e) ==
  /\ e.type = "receipt"
  /\ status' = IF e.text \in Private /\ Order[e.state] > Order[status[e.text]]
               THEN [status EXCEPT ![e.text] = e.state] ELSE status

HandleSignal ==
  /\ events # <<>>
  /\ events' = Tail(events)
  /\ LET e == Head(events) IN OnQueued(e) \/ OnQueueFlush(e) \/ OnReceipt(e)
  /\ UNCHANGED <<vars, failed, done, tomb, editing, peers>>

-----------------------------------------------------------------------------
(* The recipient.                                                          *)

\* A handler thread starts the receipt of a 1:1 text before it signals the
\* text to its window.
HandleText(p, i, t) ==
  /\ arrived[p][i] = TextMsg(t)
  /\ toShow' = [toShow EXCEPT ![p] = @ \cup {t}]
  /\ receipts' = IF t \in Private
                 THEN receipts \cup {[by |-> p, text |-> t, state |-> "delivered"]}
                 ELSE receipts
  /\ UNCHANGED shown

\* Mutant: on_remote_edit does not look at the tombstone.
HandleEditAnyway(p, i, t) ==
  /\ arrived[p][i].kind = "edit" /\ arrived[p][i].id = t
  /\ shown' = IF shown[p][t] = Absent THEN shown
              ELSE [shown EXCEPT ![p][t] = arrived[p][i].ver]
  /\ UNCHANGED <<receipts, toShow>>

\* on_remote_edit: unknown ids and tombstones are left alone.
HandleEdit(p, i, t) ==
  /\ arrived[p][i].kind = "edit" /\ arrived[p][i].id = t
  /\ shown' = IF shown[p][t] \in {Absent, Deleted} THEN shown
              ELSE [shown EXCEPT ![p][t] = arrived[p][i].ver]
  /\ UNCHANGED <<receipts, toShow>>

Handle(p, i) ==
  /\ i \in DOMAIN arrived[p] \ (handled[p] \cup lost[p])
  /\ handled' = [handled EXCEPT ![p] = @ \cup {i}]
  /\ \E t \in Texts : HandleText(p, i, t) \/ HandleEdit(p, i, t)
  /\ UNCHANGED <<vars, sender, deletes, readSent, lost>>

\* The thread signals and the window handles it: receive_message, on_group_message.
Show(p, t) ==
  /\ t \in toShow[p]
  /\ toShow' = [toShow EXCEPT ![p] = @ \ {t}]
  /\ shown' = [shown EXCEPT ![p][t] = 0]
  /\ UNCHANGED <<vars, sender, deletes, receipts, readSent, handled, lost>>

\* on_remote_delete: no entry, nothing to delete.
HandleDelete(d) ==
  /\ d.at = "peer"
  /\ deletes' = deletes \ {d}
  /\ shown' = IF shown[d.to][d.text] = Absent THEN shown
              ELSE [shown EXCEPT ![d.to][d.text] = Deleted]
  /\ UNCHANGED <<vars, sender, receipts, readSent, handled, toShow, lost>>

\* _mark_read, when the user looks at the conversation.
MarkRead(p, t) ==
  /\ shown[p][t] \notin {Absent, Deleted}
  /\ t \notin readSent[p]
  /\ readSent' = [readSent EXCEPT ![p] = @ \cup {t}]
  /\ receipts' = receipts \cup {[by |-> p, text |-> t, state |-> "read"]}
  /\ UNCHANGED <<vars, sender, deletes, handled, toShow, lost, shown>>

\* send_receipt: one attempt, which may fail.
SendReceipt(r) ==
  /\ receipts' = receipts \ {r}
  /\ events' = Append(events, [type |-> "receipt", text |-> r.text, state |-> r.state])
  /\ UNCHANGED <<vars, status, failed, done, tomb, editing, deletes, readSent, handled, toShow, lost, shown>>

LoseReceipt(r) ==
  /\ receipts' = receipts \ {r}
  /\ UNCHANGED <<vars, sender, deletes, readSent, handled, toShow, lost, shown>>

PeerReturns(p) == PeerUp(p) /\ UNCHANGED cvars

\* The network goes away, or the peer quits: what its handlers and its window
\* had not come to is lost.
PeerLeaves(p) ==
  /\ PeerDown(p)
  /\ \/ UNCHANGED <<lost, deletes, toShow>>
     \/ /\ lost' = [lost EXCEPT ![p] = DOMAIN arrived[p] \ handled[p]]
        /\ deletes' = {d \in deletes : ~(d.to = p /\ d.at = "peer")}
        /\ toShow' = [toShow EXCEPT ![p] = {}]
  /\ UNCHANGED <<sender, receipts, readSent, handled, shown>>

-----------------------------------------------------------------------------
SenderThreads ==
  \/ \E w \in work : Deliver(w) \/ Purge(w) \/ Enqueue(w)
  \/ \E t \in Texts : Report(t)
  \/ \E d \in deletes : TryDelete(d)

ServiceLoop == LoopTries \/ LoopFlushes \/ OtherLoopStep

Recipients ==
  \/ \E p \in Peers : \E i \in DOMAIN arrived[p] : Handle(p, i)
  \/ \E p \in Peers, t \in Texts : Show(p, t)
  \/ \E d \in deletes : HandleDelete(d)

CNext ==
  \/ \E t \in Texts : Post(t) \/ DeleteEveryone(t) \/ BeginEdit(t)
                       \/ \E v \in 1..MaxEdits : Edit(t, v)
  \/ CancelEdit
  \/ SenderThreads
  \/ ServiceLoop
  \/ HandleSignal
  \/ Recipients
  \/ \E p \in Peers, t \in Texts : MarkRead(p, t)
  \/ \E r \in receipts : SendReceipt(r) \/ LoseReceipt(r)
  \/ \E p \in Peers : PeerReturns(p) \/ PeerLeaves(p)

CSpec == CInit /\ [][CNext]_allvars

\* Threads that can run do run, the GUI drains its signals; users, networks and
\* receipts owe nothing.
FairCSpec ==
  /\ CSpec
  /\ WF_allvars(SenderThreads)
  /\ WF_allvars(ServiceLoop)
  /\ WF_allvars(HandleSignal)
  /\ WF_allvars(Recipients)

-----------------------------------------------------------------------------
Waiting(p, t) == \E e \in outbox[p] : e.msg = TextMsg(t)

\* A recipient's service has passed the text on.
Dispatched(p, t) == \E i \in handled[p] : arrived[p][i] = TextMsg(t)

\* Ticks are true: delivered means that the service of one the text is
\* addressed to has passed it on to its window, which need not have shown it
\* yet; read means that a window has shown it.
DeliveredTickIsTrue ==
  \A t \in Texts :
    /\ status[t] \in {"delivered", "read"} => \E p \in To[t] : Dispatched(p, t)
    /\ status[t] = "read" => \E p \in To[t] : shown[p][t] # Absent

\* "never regress", and a tombstone is final: whatever order signals, receipts,
\* edits and late texts are handled in, a bubble that was delivered never looks
\* sent or queued again, a read one stays read, and nothing revives a message
\* that the recipient has seen deleted.
NothingComesBack ==
  [][/\ \A t \in Texts : Order[status'[t]] >= Order[status[t]]
     /\ \A p \in Peers, t \in Texts : shown[p][t] = Deleted => shown'[p][t] = Deleted]_<<status, shown>>

\* README, "Offline Delivery": queued messages show the clock: a text that
\* keeps waiting for a peer shows it from some time on.
QueuedTickWhileWaiting ==
  \A t \in Texts : \A p \in To[t] :
    <>[]Waiting(p, t) => <>[](status[t] = "queued")
=============================================================================
