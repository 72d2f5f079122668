------------------------------- MODULE Outbox -------------------------------
(***************************************************************************)
(* The outgoing half of ChatService (nst/chat.py): every send call runs in *)
(* a worker thread that tries the peer once and, when the peer cannot be   *)
(* reached, leaves the payload in the in-memory outbox of that peer; one   *)
(* outbox thread wakes up every three seconds, copies the queue of each    *)
(* reachable peer and delivers the copy item by item, outside the lock.    *)
(*                                                                         *)
(* Payloads are abstracted to a kind, the message or group they are about  *)
(* and a version: the number of the edit, or of the kick, they carry.  A   *)
(* kick's versions are the same bytes; the number only tells two calls     *)
(* apart.  A worker serves the members of a group one after the other; its *)
(* turns touch different queues, so the model lets them overlap.           *)
(***************************************************************************)
EXTENDS Naturals, Sequences, Functions

CONSTANTS
  Peers,      \* the peers' addresses
  Texts,      \* ids (mid) of the messages our user writes
  Groups,     \* groups somebody can be removed from
  To,         \* To[t]: the peers text t is addressed to (one, or a group)
  MaxEdits,   \* bound: edits of one text
  MaxKicks    \* bound: kicks of one peer from one group

ASSUME OutboxAssumption ==
  /\ To \in [Texts -> SUBSET Peers]
  /\ MaxEdits \in Nat
  /\ MaxKicks \in Nat

TextMsg(t)    == [kind |-> "text", id |-> t, ver |-> 0]
EditMsg(t, v) == [kind |-> "edit", id |-> t, ver |-> v]
KickMsg(g, v) == [kind |-> "kick", id |-> g, ver |-> v]

Msgs == {TextMsg(t) : t \in Texts}
          \cup {EditMsg(t, v) : t \in Texts, v \in 1..MaxEdits}
          \cup {KickMsg(g, v) : g \in Groups, v \in 1..MaxKicks}

\* What the queue is deduplicated by: the mid, "edit:<mid>" or "kick:<gid>".
Key(m) == <<m.kind, m.id>>

Entry  == [msg : Msgs, at : Nat]          \* a queued item and its arrival
Worker == [to : Peers, msg : Msgs, pc : {"deliver", "purge", "enqueue"}]

VARIABLES
  up,        \* up[p]: p's chat service answers on its TCP port
  issued,    \* issued[p]: what send calls were made for p
  work,      \* the worker threads' unfinished turns
  outbox,    \* outbox[p]: the set of entries queued for p, ordered by .at
  ticket,    \* the arrival number of the next entry
  loop,      \* the outbox thread: where it is and what it has in hand
  arrived,   \* arrived[p]: payloads p's TCP stack took, in that order
  recalled   \* recalled[p]: what was in p's queue when p was forgotten

vars == <<up, issued, work, outbox, ticket, loop, arrived, recalled>>

\* A snapshot is walked in queue order.
Oldest(S) == {e \in S : \A f \in S : e.at <= f.at}

Without(q, k) == {e \in q : Key(e.msg) # k}

Idle == [pc |-> "sleep", todo |-> {}]

Picking(ps) == [pc |-> "pick", todo |-> ps]     \* ps: the peers left to look at

LoopState ==
  [pc : {"sleep", "pick", "flush"}, todo : SUBSET Peers]
    \cup [pc : {"deliver"}, todo : SUBSET Peers, peer : Peers, items : SUBSET Entry]
    \cup [pc : {"remove"}, todo : SUBSET Peers, peer : Peers, items : SUBSET Entry,
          now : Entry]

TypeOK ==
  /\ up \in [Peers -> BOOLEAN]
  /\ issued \in [Peers -> SUBSET Msgs]
  /\ work \subseteq Worker
  /\ outbox \in [Peers -> SUBSET Entry]
  /\ ticket \in Nat
  /\ loop \in LoopState
  /\ arrived \in [Peers -> Seq(Msgs)]
  /\ recalled \in [Peers -> SUBSET Msgs]

Init ==
  /\ up \in [Peers -> BOOLEAN]
  /\ issued = [p \in Peers |-> {}]
  /\ work = {}
  /\ outbox = [p \in Peers |-> {}]
  /\ ticket = 0
  /\ loop = Idle
  /\ arrived = [p \in Peers |-> <<>>]
  /\ recalled = [p \in Peers |-> {}]

-----------------------------------------------------------------------------
(* The user: each call starts a worker for every recipient.                *)

Start(ps, m) ==
  /\ \A p \in ps : m \notin issued[p]
  /\ issued' = [p \in Peers |-> IF p \in ps THEN issued[p] \cup {m} ELSE issued[p]]
  /\ work' = work \cup {[to |-> p, msg |-> m, pc |-> "deliver"] : p \in ps}
  /\ UNCHANGED <<up, outbox, ticket, loop, arrived, recalled>>

SendText(t) == Start(To[t], TextMsg(t))

SendEdit(t, v) ==
  /\ \A p \in To[t] : /\ TextMsg(t) \in issued[p]
                      /\ \A u \in 1..(v - 1) : EditMsg(t, u) \in issued[p]
  /\ Start(To[t], EditMsg(t, v))

SendKick(p, g, v) ==
  /\ \A u \in 1..(v - 1) : KickMsg(g, u) \in issued[p]
  /\ Start({p}, KickMsg(g, v))

-----------------------------------------------------------------------------
(* The worker threads.                                                     *)

\* _deliver: one connection attempt, no queueing.
WorkerDeliver(w) ==
  /\ w.pc = "deliver"
  /\ \/ /\ up[w.to]
        /\ arrived' = [arrived EXCEPT ![w.to] = Append(@, w.msg)]
        /\ work' = work \ {w}
     \/ /\ ~up[w.to]
        /\ work' = (work \ {w}) \cup
             {[w EXCEPT !.pc = IF w.msg.kind = "edit" THEN "purge" ELSE "enqueue"]}
        /\ UNCHANGED arrived
  /\ UNCHANGED <<up, issued, outbox, ticket, loop, recalled>>

\* send_edit throws away a queued edit of the same message ...
WorkerPurge(w) ==
  /\ w.pc = "purge"
  /\ outbox' = [outbox EXCEPT ![w.to] = Without(@, Key(w.msg))]
  /\ work' = (work \ {w}) \cup {[w EXCEPT !.pc = "enqueue"]}
  /\ UNCHANGED <<up, issued, ticket, loop, arrived, recalled>>

\* Mutant: _enqueue appends without looking for the key.
WorkerEnqueueAnyway(w) ==
  /\ w.pc = "enqueue"
  /\ outbox' = [outbox EXCEPT ![w.to] = @ \cup {[msg |-> w.msg, at |-> ticket]}]
  /\ ticket' = ticket + 1
  /\ work' = work \ {w}
  /\ UNCHANGED <<up, issued, loop, arrived, recalled>>

\* Mutant: _enqueue appends the payload where the queue holds entries.
WorkerEnqueueBare(w) ==
  /\ w.pc = "enqueue"
  /\ outbox' = [outbox EXCEPT ![w.to] = @ \cup {w.msg}]
  /\ ticket' = ticket + 1
  /\ work' = work \ {w}
  /\ UNCHANGED <<up, issued, loop, arrived, recalled>>

\* ... and _enqueue takes the lock again; an entry with this key wins.
WorkerEnqueue(w) ==
  /\ w.pc = "enqueue"
  /\ \/ /\ \E e \in outbox[w.to] : Key(e.msg) = Key(w.msg)
        /\ UNCHANGED <<outbox, ticket>>
     \/ /\ \A e \in outbox[w.to] : Key(e.msg) # Key(w.msg)
        /\ outbox' = [outbox EXCEPT ![w.to] = @ \cup {[msg |-> w.msg, at |-> ticket]}]
        /\ ticket' = ticket + 1
  /\ work' = work \ {w}
  /\ UNCHANGED <<up, issued, loop, arrived, recalled>>

-----------------------------------------------------------------------------
(* The outbox thread (_outbox_loop).                                       *)

LoopWake ==
  /\ loop.pc = "sleep"
  /\ loop' = Picking({p \in Peers : outbox[p] # {}})
  /\ UNCHANGED <<up, issued, work, outbox, ticket, arrived, recalled>>

\* Neither seen lately nor reachable: try again in the next sweep.
LoopSkip(p) ==
  /\ loop.pc = "pick" /\ p \in loop.todo
  /\ ~up[p]
  /\ loop' = Picking(loop.todo \ {p})
  /\ UNCHANGED <<up, issued, work, outbox, ticket, arrived, recalled>>

\* Presence may be up to CHAT_PEER_TIMEOUT old, so a peer that is gone can
\* still be taken; its queue is copied under the lock.
LoopTake(p) ==
  /\ loop.pc = "pick" /\ p \in loop.todo
  /\ loop' = [pc |-> "deliver", todo |-> loop.todo \ {p}, peer |-> p, items |-> outbox[p]]
  /\ UNCHANGED <<up, issued, work, outbox, ticket, arrived, recalled>>

LoopDeliver(e) ==
  /\ up[loop.peer]
  /\ arrived' = [arrived EXCEPT ![loop.peer] = Append(@, e.msg)]
  /\ loop' = [pc |-> "remove", todo |-> loop.todo, peer |-> loop.peer,
              items |-> loop.items, now |-> e]

\* Mutant: an item that could not be delivered is removed all the same.
LoopBreakDiscards ==
  /\ ~up[loop.peer]
  /\ \E e \in Oldest(loop.items) :
       loop' = [pc |-> "remove", todo |-> loop.todo, peer |-> loop.peer,
                items |-> loop.items, now |-> e]
  /\ UNCHANGED arrived

\* Mutant: "continue" for "break": go on with the next item.
LoopBreakContinues ==
  /\ ~up[loop.peer]
  /\ loop' = [loop EXCEPT !.items = @ \ Oldest(@)]
  /\ UNCHANGED arrived

\* Flaky again: leave the rest queued.
LoopBreak ==
  /\ ~up[loop.peer]
  /\ loop' = [pc |-> "flush", todo |-> loop.todo]
  /\ UNCHANGED arrived

LoopTry ==
  /\ loop.pc = "deliver" /\ loop.items # {}
  /\ LoopBreak \/ \E e \in Oldest(loop.items) : LoopDeliver(e)
  /\ UNCHANGED <<up, issued, work, outbox, ticket, recalled>>

\* Mutant: the delivered item is left in the queue.
LoopRemoveNothing ==
  /\ loop.pc = "remove"
  /\ loop' = [pc |-> "deliver", todo |-> loop.todo, peer |-> loop.peer,
              items |-> loop.items \ {loop.now}]
  /\ UNCHANGED <<up, issued, work, outbox, ticket, arrived, recalled>>

\* Mutant: one delivery deletes the peer's whole queue.
LoopRemoveAll ==
  /\ loop.pc = "remove"
  /\ outbox' = [outbox EXCEPT ![loop.peer] = {}]
  /\ loop' = [pc |-> "deliver", todo |-> loop.todo, peer |-> loop.peer,
              items |-> loop.items \ {loop.now}]
  /\ UNCHANGED <<up, issued, work, ticket, arrived, recalled>>

\* Under the lock again: every entry with the delivered key goes.
LoopRemove ==
  /\ loop.pc = "remove"
  /\ outbox' = [outbox EXCEPT ![loop.peer] = Without(@, Key(loop.now.msg))]
  /\ loop' = [pc |-> "deliver", todo |-> loop.todo, peer |-> loop.peer,
              items |-> loop.items \ {loop.now}]
  /\ UNCHANGED <<up, issued, work, ticket, arrived, recalled>>

LoopFlush ==
  /\ \/ loop.pc = "flush"
     \/ loop.pc = "deliver" /\ loop.items = {}
  /\ loop' = Picking(loop.todo)
  /\ UNCHANGED <<up, issued, work, outbox, ticket, arrived, recalled>>

\* Mutant: the thread does not start another sweep.
LoopRestForGood ==
  /\ loop.pc = "pick" /\ loop.todo = {}
  /\ UNCHANGED vars

LoopRest ==
  /\ loop.pc = "pick" /\ loop.todo = {}
  /\ loop' = Idle
  /\ UNCHANGED <<up, issued, work, outbox, ticket, arrived, recalled>>

-----------------------------------------------------------------------------
(* Forgetting a peer, and the peers coming and going.                      *)

\* block_ip and remove_peer both empty the peer's queue under the lock.
DropQueue(p) ==
  /\ outbox[p] # {}
  /\ outbox' = [outbox EXCEPT ![p] = {}]
  /\ recalled' = [recalled EXCEPT ![p] = @ \cup {e.msg : e \in outbox[p]}]
  /\ UNCHANGED <<up, issued, work, ticket, loop, arrived>>

PeerUp(p) ==
  /\ ~up[p]
  /\ up' = [up EXCEPT ![p] = TRUE]
  /\ UNCHANGED <<issued, work, outbox, ticket, loop, arrived, recalled>>

PeerDown(p) ==
  /\ up[p]
  /\ up' = [up EXCEPT ![p] = FALSE]
  /\ UNCHANGED <<issued, work, outbox, ticket, loop, arrived, recalled>>

-----------------------------------------------------------------------------
User ==
  \/ \E t \in Texts : SendText(t)
  \/ \E t \in Texts, v \in 1..MaxEdits : SendEdit(t, v)
  \/ \E p \in Peers, g \in Groups, v \in 1..MaxKicks : SendKick(p, g, v)
  \/ \E p \in Peers : DropQueue(p)

WorkerStep == \E w \in work : WorkerDeliver(w) \/ WorkerPurge(w) \/ WorkerEnqueue(w)

LoopStep ==
  \/ LoopWake \/ LoopTry \/ LoopRemove \/ LoopFlush \/ LoopRest
  \/ \E p \in Peers : LoopSkip(p) \/ LoopTake(p)

Network == \E p \in Peers : PeerUp(p) \/ PeerDown(p)

Next == User \/ WorkerStep \/ LoopStep \/ Network

Spec == Init /\ [][Next]_vars

\* A thread that can run does run; nothing makes a user act or a peer return.
FairSpec ==
  /\ Spec
  /\ \A p \in Peers, m \in Msgs :
       /\ WF_vars(\E w \in work : w.to = p /\ w.msg = m
                    /\ (WorkerDeliver(w) \/ WorkerPurge(w) \/ WorkerEnqueue(w)))
  /\ WF_vars(LoopStep)

-----------------------------------------------------------------------------
(* What a send call promises.                                              *)

InHand(p) ==
  IF loop.pc \in {"deliver", "remove"} /\ loop.peer = p THEN loop.items ELSE {}

\* The payload has not left the service and has not been given up.
Held(p, m) ==
  \/ \E w \in work : w.to = p /\ w.msg = m
  \/ \E e \in outbox[p] : e.msg = m

Sole(p, m) == \A n \in issued[p] : Key(n) = Key(m) => n = m

\* A queue holds one entry per key (_enqueue): two edits of one message, or
\* two kicks from one group, never wait side by side.
OneEntryPerKey ==
  \A p \in Peers : \A e, f \in outbox[p] : Key(e.msg) = Key(f.msg) => e = f

\* Sender-retained queue (update.md, "Offline Messaging"): a payload that is
\* the only one of its key is kept until the peer has taken it, unless the user
\* blocked or removed the peer while it was waiting.
RetainedUntilTaken ==
  \A p \in Peers : \A m \in issued[p] :
    Sole(p, m) => Held(p, m) \/ m \in Range(arrived[p]) \/ m \in recalled[p]

\* Retrying never duplicates: a send call reaches the peer at most once, even
\* when the queue is edited or emptied while the loop works from its copy.
TakenAtMostOnce ==
  \A p \in Peers : \A i, j \in DOMAIN arrived[p] :
    arrived[p][i] = arrived[p][j] => i = j

\* The loop hands over a queue in order: it never delivers an item while an
\* older one of the same peer still waits.
OldestFirst ==
  [][loop.pc = "deliver" /\ loop'.pc = "remove"
       => \A e \in outbox[loop.peer] : loop'.now.at <= e.at]_vars

\* The only payload of its key that a worker, the queue or the loop's copy has.
Alone(p, m) ==
  /\ Held(p, m)
  /\ \A w \in work : w.to = p /\ Key(w.msg) = Key(m) => w.msg = m
  /\ \A e \in outbox[p] \cup InHand(p) : Key(e.msg) = Key(m) => e.msg = m

Outdone(p, m) == \E n \in issued[p] : Key(n) = Key(m) /\ n.ver > m.ver

\* README, "Offline Delivery": once the peer is back for good, what waits for
\* it alone, with nothing else of its key under way, is delivered, the newest
\* edit too, unless the user forgets the peer or sends a newer one.  It does not
\* speak of an edit made while an older one is under way: the code may lose that.
DeliveredOnReturn ==
  \A p \in Peers, m \in Msgs :
    <>[]up[p] => (Alone(p, m)
                    ~> (m \in Range(arrived[p]) \/ m \in recalled[p] \/ Outdone(p, m)))

-----------------------------------------------------------------------------
\* The threads implement the promise.  What is owed is what a worker, the queue
\* or the loop's copy still holds and the peer has not taken.
Owed(p) ==
  {m \in Msgs : /\ Held(p, m) \/ \E e \in InHand(p) : e.msg = m
               /\ m \notin Range(arrived[p])}

Contract == INSTANCE Retention WITH
  KeyOf <- [m \in Msgs |-> Key(m)],
  owed  <- [p \in Peers |-> Owed(p)],
  taken <- [p \in Peers |-> Range(arrived[p])]

\* Every step of the threads is a step of the promise or changes nothing in it.
KeepsContract == Contract!RSpec
-----------------------------------------------------------------------------
(* The inductive invariant behind the three invariants above.              *)

\* What the loop delivered and has not removed yet.
Delivered(p, e) == loop.pc = "remove" /\ loop.peer = p /\ e = loop.now

\* A worker's payload is in one place only: with that worker.
WorkersApart ==
  \A w \in work :
    /\ w.msg \in issued[w.to]
    /\ w.msg \notin Range(arrived[w.to])
    /\ \A e \in outbox[w.to] \cup InHand(w.to) : e.msg # w.msg
    /\ \A v \in work : v.to = w.to /\ v.msg = w.msg => v = w

\* Queue and copy agree: one entry per payload, taken only if just delivered.
QueueAndCopy ==
  \A p \in Peers : \A e \in outbox[p] \cup InHand(p) :
    /\ e.msg \in issued[p]
    /\ e.at < ticket
    /\ \A f \in outbox[p] \cup InHand(p) : f.msg = e.msg => f = e
    /\ e.msg \in Range(arrived[p]) => Delivered(p, e)

NowInHand ==
  loop.pc = "remove" => /\ loop.now \in loop.items
                        /\ loop.now.msg \in Range(arrived[loop.peer])

ArrivedWasIssued ==
  \A p \in Peers : Range(arrived[p]) \subseteq issued[p]

IInv ==
  /\ TypeOK
  /\ WorkersApart
  /\ QueueAndCopy
  /\ NowInHand
  /\ ArrivedWasIssued
  /\ OneEntryPerKey
  /\ TakenAtMostOnce
  /\ RetainedUntilTaken
=============================================================================
