---------------------------- MODULE OutboxProofs ----------------------------
(***************************************************************************)
(* Theorems about Outbox, for any peers, texts, groups and bounds: what it *)
(* keeps, that it implements Retention, and what the Conversation built on *)
(* it shows at its two ends.                                               *)
(***************************************************************************)
EXTENDS Conversation, SequenceTheorems, TLAPS

-----------------------------------------------------------------------------
(* What the payload constructors build.                                    *)

LEMMA MsgTypes ==
  /\ \A t \in Texts : TextMsg(t) \in Msgs
  /\ \A t \in Texts, v \in 1..MaxEdits : EditMsg(t, v) \in Msgs
  /\ \A g \in Groups, v \in 1..MaxKicks : KickMsg(g, v) \in Msgs
BY DEF Msgs

\* A send call only adds the new payload to the recipients' records and
\* workers that have still to deliver it.
LEMMA StartType ==
  ASSUME TypeOK, NEW ps \in SUBSET Peers, NEW m \in Msgs, Start(ps, m)
  PROVE  TypeOK'
<1>1. issued' \in [Peers -> SUBSET Msgs]
  BY DEF Start, TypeOK
<1>2. work' \subseteq Worker
  BY DEF Start, TypeOK, Worker
<1>. QED  BY <1>1, <1>2 DEF Start, TypeOK

\* Every variable keeps its type: in particular the loop's record has the
\* fields its program counter says, and queues hold entries only.
THEOREM TypeCorrect == Spec => []TypeOK
<1>1. Init => TypeOK
  BY DEF Init, TypeOK, LoopState, Idle
<1>2. TypeOK /\ [Next]_vars => TypeOK'
  <2> SUFFICES ASSUME TypeOK, [Next]_vars PROVE TypeOK'
    OBVIOUS
  <2>1. CASE User
    <3>1. ASSUME NEW t \in Texts, SendText(t) PROVE TypeOK'
      BY <3>1, StartType, MsgTypes, OutboxAssumption DEF SendText
    <3>2. ASSUME NEW t \in Texts, NEW v \in 1..MaxEdits, SendEdit(t, v) PROVE TypeOK'
      BY <3>2, StartType, MsgTypes, OutboxAssumption DEF SendEdit
    <3>3. ASSUME NEW p \in Peers, NEW g \in Groups, NEW v \in 1..MaxKicks, SendKick(p, g, v)
          PROVE  TypeOK'
      BY <3>3, StartType, MsgTypes DEF SendKick
    <3>4. ASSUME NEW p \in Peers, DropQueue(p) PROVE TypeOK'
      BY <3>4 DEF DropQueue, TypeOK, Entry
    <3>. QED  BY <2>1, <3>1, <3>2, <3>3, <3>4 DEF User
  <2>2. CASE WorkerStep
    <3>1. PICK w \in work : WorkerDeliver(w) \/ WorkerPurge(w) \/ WorkerEnqueue(w)
      BY <2>2 DEF WorkerStep
    <3>2. w \in Worker /\ w.to \in Peers /\ w.msg \in Msgs
      BY DEF TypeOK, Worker
    <3>3. \A c \in {"deliver", "purge", "enqueue"} : [w EXCEPT !.pc = c] \in Worker
      BY <3>2 DEF Worker
    <3>4. CASE WorkerDeliver(w)
      <4>1. [w EXCEPT !.pc = IF w.msg.kind = "edit" THEN "purge" ELSE "enqueue"] \in Worker
        BY <3>3
      <4>2. work' \subseteq Worker
        BY <4>1, <3>4 DEF WorkerDeliver, TypeOK
      <4>3. Append(arrived[w.to], w.msg) \in Seq(Msgs)
        BY <3>2, AppendProperties DEF TypeOK
      <4>4. arrived' \in [Peers -> Seq(Msgs)]
        BY <3>2, <3>4, <4>3, Zenon DEF WorkerDeliver, TypeOK
      <4>. QED  BY <3>4, <4>2, <4>4 DEF WorkerDeliver, TypeOK
    <3>5. CASE WorkerPurge(w)
      BY <3>2, <3>3, <3>5 DEF WorkerPurge, TypeOK, Without
    <3>6. CASE WorkerEnqueue(w)
      <4>1. [msg |-> w.msg, at |-> ticket] \in Entry
        BY <3>2 DEF TypeOK, Entry
      <4>2. outbox' \in [Peers -> SUBSET Entry] /\ ticket' \in Nat
        <5>1. CASE UNCHANGED <<outbox, ticket>>
          BY <5>1 DEF TypeOK
        <5>2. CASE /\ outbox' = [outbox EXCEPT ![w.to] = @ \cup {[msg |-> w.msg, at |-> ticket]}]
                   /\ ticket' = ticket + 1
          BY <3>2, <4>1, <5>2 DEF TypeOK
        <5>. QED  BY <3>6, <5>1, <5>2 DEF WorkerEnqueue
      <4>. QED  BY <3>6, <4>2 DEF WorkerEnqueue, TypeOK
    <3>. QED  BY <3>1, <3>4, <3>5, <3>6
  <2>3. CASE LoopStep
    <3>. USE DEF TypeOK, LoopState
    <3>1. CASE LoopWake
      BY <3>1 DEF LoopWake, Picking
    <3>2. CASE LoopTry
      <4>1. CASE LoopBreak
        BY <3>2, <4>1 DEF LoopTry, LoopBreak
      <4>2. ASSUME NEW e \in Oldest(loop.items), LoopDeliver(e) PROVE TypeOK'
        <5>1. loop.items \subseteq Entry /\ loop.peer \in Peers /\ loop.todo \subseteq Peers
          BY <3>2 DEF LoopTry
        <5>2. e \in Entry /\ e.msg \in Msgs
          BY <5>1, <4>2 DEF Oldest, Entry
        <5>. QED  BY <3>2, <4>2, <5>1, <5>2 DEF LoopTry, LoopDeliver
      <4>. QED  BY <3>2, <4>1, <4>2 DEF LoopTry
    <3>3. CASE LoopRemove
      BY <3>3 DEF LoopRemove, Without
    <3>4. CASE LoopFlush
      BY <3>4 DEF LoopFlush, Picking
    <3>5. CASE LoopRest
      BY <3>5 DEF LoopRest, Idle
    <3>6. ASSUME NEW p \in Peers, LoopSkip(p) PROVE TypeOK'
      BY <3>6 DEF LoopSkip, Picking
    <3>7. ASSUME NEW p \in Peers, LoopTake(p) PROVE TypeOK'
      BY <3>7 DEF LoopTake
    <3>. QED  BY <2>3, <3>1, <3>2, <3>3, <3>4, <3>5, <3>6, <3>7 DEF LoopStep
  <2>4. CASE Network
    BY <2>4 DEF Network, PeerUp, PeerDown, TypeOK
  <2>5. CASE UNCHANGED vars
    BY <2>5 DEF vars, TypeOK
  <2>. QED  BY <2>1, <2>2, <2>3, <2>4, <2>5 DEF Next
<1>. QED  BY <1>1, <1>2, PTL DEF Spec

-----------------------------------------------------------------------------
(* Sequences: what Append does to the range and to distinctness.           *)

LEMMA AppendRange ==
  ASSUME NEW S, NEW s \in Seq(S), NEW m \in S
  PROVE  Range(Append(s, m)) = Range(s) \cup {m}
<1>1. Range(Append(s, m)) \subseteq Range(s) \cup {m}
  BY DEF Range
<1>2. \A i \in DOMAIN s : i \in DOMAIN Append(s, m) /\ Append(s, m)[i] = s[i]
  OBVIOUS
<1>3. Len(s) + 1 \in DOMAIN Append(s, m) /\ Append(s, m)[Len(s) + 1] = m
  OBVIOUS
<1>. QED  BY <1>1, <1>2, <1>3 DEF Range

Distinct(s) == \A i, j \in DOMAIN s : s[i] = s[j] => i = j

LEMMA AppendDistinct ==
  ASSUME NEW S, NEW s \in Seq(S), NEW m \in S, Distinct(s), m \notin Range(s)
  PROVE  Distinct(Append(s, m))
BY DEF Distinct, Range

LEMMA TakenIsDistinct == TakenAtMostOnce <=> \A p \in Peers : Distinct(arrived[p])
BY DEF TakenAtMostOnce, Distinct

-----------------------------------------------------------------------------
(* IInv is inductive: one lemma per action.                                *)

\* A new payload is new everywhere: whatever was taken or queued was issued.
LEMMA StartInv ==
  ASSUME IInv, TypeOK', NEW ps \in SUBSET Peers, NEW m \in Msgs, Start(ps, m)
  PROVE  IInv'
<1>. USE DEF IInv, TypeOK, Start
<1>0. \A p \in Peers : InHand(p)' = InHand(p) /\ issued[p] \subseteq issued'[p]
  BY DEF InHand
<1>1. WorkersApart'
  <2>1. ASSUME NEW w \in work PROVE
          /\ w.msg \in issued'[w.to] /\ w.msg \notin Range(arrived'[w.to])
          /\ \A e \in outbox'[w.to] \cup InHand(w.to)' : e.msg # w.msg
          /\ ~(w.to \in ps /\ w.msg = m)
    BY <1>0 DEF WorkersApart, Worker
  <2>2. ASSUME NEW p \in ps PROVE
          /\ m \in issued'[p] /\ m \notin Range(arrived'[p])
          /\ \A e \in outbox'[p] \cup InHand(p)' : e.msg # m
    BY <1>0 DEF ArrivedWasIssued, QueueAndCopy
  <2>3. \A v, w \in work : v.to = w.to /\ v.msg = w.msg => v = w
    BY DEF WorkersApart
  <2>4. \A w \in work' : w \in work \/ (w.to \in ps /\ w.msg = m /\ w.pc = "deliver")
    OBVIOUS
  <2>5. \A v, w \in work' : v.to = w.to /\ v.msg = w.msg => v = w
    <3>. SUFFICES ASSUME NEW v \in work', NEW w \in work', v.to = w.to, v.msg = w.msg
                  PROVE  v = w
      OBVIOUS
    <3>1. CASE v \in work /\ w \in work
      BY <2>3, <3>1
    <3>2. CASE v \notin work /\ w \notin work
      BY <3>2
    <3>. QED  BY <2>1, <2>4, <3>1, <3>2
  <2>6. \A w \in work' :
          /\ w.msg \in issued'[w.to] /\ w.msg \notin Range(arrived'[w.to])
          /\ \A e \in outbox'[w.to] \cup InHand(w.to)' : e.msg # w.msg
    <3>. SUFFICES ASSUME NEW w \in work'
                  PROVE  /\ w.msg \in issued'[w.to] /\ w.msg \notin Range(arrived'[w.to])
                         /\ \A e \in outbox'[w.to] \cup InHand(w.to)' : e.msg # w.msg
      OBVIOUS
    <3>1. CASE w \in work
      BY <2>1, <3>1
    <3>2. CASE w.to \in ps /\ w.msg = m
      <4>1. /\ m \in issued'[w.to] /\ m \notin Range(arrived'[w.to])
            /\ \A e \in outbox'[w.to] \cup InHand(w.to)' : e.msg # m
        BY <2>2, <3>2
      <4>. QED  BY <3>2, <4>1
    <3>. QED  BY <2>4, <3>1, <3>2
  <2>. QED  BY <2>5, <2>6 DEF WorkersApart
<1>2. QueueAndCopy'
  BY <1>0 DEF QueueAndCopy, Delivered
<1>3. NowInHand' /\ OneEntryPerKey' /\ TakenAtMostOnce'
  BY DEF NowInHand, OneEntryPerKey, TakenAtMostOnce
<1>4. ArrivedWasIssued'
  BY <1>0 DEF ArrivedWasIssued
<1>5. RetainedUntilTaken'
  <2>. SUFFICES ASSUME NEW p \in Peers, NEW n \in issued'[p], Sole(p, n)'
                PROVE  Held(p, n)' \/ n \in Range(arrived[p]) \/ n \in recalled[p]
    BY DEF RetainedUntilTaken
  <2>1. CASE n \in issued[p]
    <3>1. Sole(p, n)
      BY <1>0 DEF Sole
    <3>. QED  BY <2>1, <3>1 DEF RetainedUntilTaken, Held
  <2>2. CASE n = m /\ p \in ps
    <3>1. [to |-> p, msg |-> m, pc |-> "deliver"] \in work'
      BY <2>2
    <3>. QED  BY <2>2, <3>1 DEF Held
  <2>. QED  BY <2>1, <2>2
<1>. QED  BY <1>1, <1>2, <1>3, <1>4, <1>5

LEMMA DropQueueInv ==
  ASSUME IInv, TypeOK', NEW q \in Peers, DropQueue(q)
  PROVE  IInv'
<1>. USE DEF IInv, TypeOK, DropQueue
<1>0. \A p \in Peers : InHand(p)' = InHand(p) /\ outbox'[p] \subseteq outbox[p]
  BY DEF InHand
<1>1. WorkersApart'
  BY <1>0 DEF WorkersApart, Worker
<1>2. QueueAndCopy'
  BY <1>0 DEF QueueAndCopy, Delivered
<1>3. NowInHand' /\ OneEntryPerKey' /\ TakenAtMostOnce' /\ ArrivedWasIssued'
  BY DEF NowInHand, OneEntryPerKey, TakenAtMostOnce, ArrivedWasIssued
<1>4. RetainedUntilTaken'
  <2>. SUFFICES ASSUME NEW p \in Peers, NEW n \in issued[p], Sole(p, n)'
                PROVE  Held(p, n)' \/ n \in Range(arrived[p]) \/ n \in recalled'[p]
    BY DEF RetainedUntilTaken
  <2>1. Held(p, n) \/ n \in Range(arrived[p]) \/ n \in recalled[p]
    BY DEF RetainedUntilTaken, Sole
  <2>2. ASSUME NEW e \in outbox[p], e.msg = n
        PROVE  e \in outbox'[p] \/ n \in recalled'[p]
    BY <2>2
  <2>. QED  BY <2>1, <2>2 DEF Held
<1>. QED  BY <1>1, <1>2, <1>3, <1>4

LEMMA NetworkInv ==
  ASSUME IInv, TypeOK', Network
  PROVE  IInv'
<1>1. UNCHANGED <<issued, work, outbox, ticket, loop, arrived, recalled>>
  BY DEF Network, PeerUp, PeerDown
<1>. QED
  BY <1>1 DEF IInv, WorkersApart, QueueAndCopy, NowInHand, ArrivedWasIssued, OneEntryPerKey,
              TakenAtMostOnce, RetainedUntilTaken, InHand, Delivered, Held, Sole

-----------------------------------------------------------------------------
(* The worker's turns.                                                     *)

\* What IInv says of a worker before its turn.
LEMMA WorkerFacts ==
  ASSUME IInv, NEW w \in work
  PROVE  /\ w.to \in Peers /\ w.msg \in Msgs
         /\ w.msg \in issued[w.to]
         /\ w.msg \notin Range(arrived[w.to])
         /\ \A e \in outbox[w.to] \cup InHand(w.to) : e.msg # w.msg
         /\ \A v \in work : v.to = w.to /\ v.msg = w.msg => v = w
BY DEF IInv, TypeOK, Worker, WorkersApart

\* A worker that goes on to its next line, and may purge entries of its key:
\* none of them is the only payload of that key, for the worker's own is not
\* queued.
LEMMA MoveInv ==
  ASSUME IInv, TypeOK', NEW w \in work, NEW c,
         work' = (work \ {w}) \cup {[w EXCEPT !.pc = c]},
         \A p \in Peers : outbox'[p] \subseteq outbox[p],
         \A p \in Peers : \A e \in outbox[p] \ outbox'[p] :
            p = w.to /\ Key(e.msg) = Key(w.msg),
         UNCHANGED <<issued, ticket, loop, arrived, recalled>>
  PROVE  IInv'
<1>. USE DEF IInv, TypeOK
<1>. DEFINE next == [w EXCEPT !.pc = c]
<1>0. \A p \in Peers : InHand(p)' = InHand(p)
  BY DEF InHand
<1>a. w \in Worker /\ next.to = w.to /\ next.msg = w.msg /\ next \in work'
  BY DEF Worker
<1>b. \A v \in work' : v = next \/ (v \in work /\ v # w)
  OBVIOUS
<1>1. WorkersApart'
  <2>1. \A v \in work' : \E u \in work : u.to = v.to /\ u.msg = v.msg
    BY <1>a, <1>b
  <2>2. \A v \in work' :
          /\ v.msg \in issued'[v.to] /\ v.msg \notin Range(arrived'[v.to])
          /\ \A e \in outbox'[v.to] \cup InHand(v.to)' : e.msg # v.msg
    <3>. SUFFICES ASSUME NEW v \in work'
                  PROVE  /\ v.msg \in issued'[v.to] /\ v.msg \notin Range(arrived'[v.to])
                         /\ \A e \in outbox'[v.to] \cup InHand(v.to)' : e.msg # v.msg
      OBVIOUS
    <3>1. PICK u \in work : u.to = v.to /\ u.msg = v.msg
      BY <2>1
    <3>. QED  BY <3>1, <1>0, WorkerFacts
  <2>3. ASSUME NEW u \in work', NEW v \in work', u.to = v.to, u.msg = v.msg
        PROVE  u = v
    <3>1. CASE u \in work /\ v \in work /\ u # w /\ v # w
      BY <2>3, <3>1, WorkerFacts
    <3>2. CASE u = next /\ v = next
      BY <3>2
    <3>3. CASE u = next /\ v \in work /\ v # w
      BY <2>3, <3>3, <1>a, WorkerFacts
    <3>4. CASE v = next /\ u \in work /\ u # w
      BY <2>3, <3>4, <1>a, WorkerFacts
    <3>. QED  BY <1>b, <3>1, <3>2, <3>3, <3>4
  <2>. QED  BY <2>2, <2>3 DEF WorkersApart
<1>2. QueueAndCopy'
  BY <1>0 DEF QueueAndCopy, Delivered
<1>3. NowInHand' /\ OneEntryPerKey' /\ TakenAtMostOnce' /\ ArrivedWasIssued'
  BY DEF NowInHand, OneEntryPerKey, TakenAtMostOnce, ArrivedWasIssued
<1>4. RetainedUntilTaken'
  <2>. SUFFICES ASSUME NEW p \in Peers, NEW n \in issued[p], Sole(p, n)'
                PROVE  Held(p, n)' \/ n \in Range(arrived[p]) \/ n \in recalled[p]
    BY DEF RetainedUntilTaken
  <2>0. Sole(p, n)
    BY DEF Sole
  <2>1. Held(p, n) \/ n \in Range(arrived[p]) \/ n \in recalled[p]
    BY <2>0 DEF RetainedUntilTaken
  <2>2. ASSUME NEW v \in work, v.to = p, v.msg = n PROVE Held(p, n)'
    <3>1. v = w \/ v \in work'
      OBVIOUS
    <3>. QED  BY <2>2, <3>1, <1>a DEF Held
  <2>3. ASSUME NEW e \in outbox[p], e.msg = n PROVE e \in outbox'[p]
    <3>1. SUFFICES ASSUME e \notin outbox'[p] PROVE FALSE
      OBVIOUS
    <3>2. p = w.to /\ Key(n) = Key(w.msg)
      BY <2>3, <3>1
    <3>3. w.msg = n
      BY <2>0, <3>2, WorkerFacts DEF Sole
    <3>. QED  BY <2>3, <3>2, <3>3, WorkerFacts
  <2>. QED  BY <2>1, <2>2, <2>3 DEF Held
<1>. QED  BY <1>1, <1>2, <1>3, <1>4

LEMMA WorkerPurgeInv ==
  ASSUME IInv, TypeOK', NEW w \in work, WorkerPurge(w)
  PROVE  IInv'
<1>1. w.to \in Peers /\ outbox \in [Peers -> SUBSET Entry]
  BY WorkerFacts DEF IInv, TypeOK
<1>2. \A p \in Peers : /\ outbox'[p] \subseteq outbox[p]
                       /\ \A e \in outbox[p] \ outbox'[p] :
                            p = w.to /\ Key(e.msg) = Key(w.msg)
  BY <1>1 DEF WorkerPurge, Without
<1>3. work' = (work \ {w}) \cup {[w EXCEPT !.pc = "enqueue"]}
  BY DEF WorkerPurge
<1>4. UNCHANGED <<issued, ticket, loop, arrived, recalled>>
  BY DEF WorkerPurge
<1>. QED  BY <1>2, <1>3, <1>4, MoveInv

\* Delivered at once: the payload was in no queue and in no copy.
LEMMA DeliveredNowInv ==
  ASSUME IInv, TypeOK', NEW w \in work, work' = work \ {w},
         arrived' = [arrived EXCEPT ![w.to] = Append(@, w.msg)],
         UNCHANGED <<issued, outbox, ticket, loop, recalled>>
  PROVE  IInv'
<1>. USE DEF IInv, TypeOK
<1>0. \A p \in Peers : InHand(p)' = InHand(p)
  BY DEF InHand
<1>a. w.to \in Peers /\ w.msg \in Msgs
  BY WorkerFacts
<1>b. \A p \in Peers : p # w.to => arrived'[p] = arrived[p]
  OBVIOUS
<1>c. arrived'[w.to] = Append(arrived[w.to], w.msg)
  BY <1>a
<1>d. Range(arrived'[w.to]) = Range(arrived[w.to]) \cup {w.msg}
  BY <1>a, <1>c, AppendRange
<1>e. \A p \in Peers, n \in Msgs :
         n \in Range(arrived'[p]) => n \in Range(arrived[p]) \/ (p = w.to /\ n = w.msg)
  BY <1>b, <1>d
<1>1. WorkersApart'
  <2>1. ASSUME NEW v \in work' PROVE v.msg \notin Range(arrived'[v.to])
    BY <1>e, WorkerFacts
  <2>. QED  BY <1>0, <2>1, WorkerFacts DEF WorkersApart
<1>2. QueueAndCopy'
  <2>1. ASSUME NEW p \in Peers, NEW e \in outbox[p] \cup InHand(p), e.msg \in Range(arrived'[p])
        PROVE  Delivered(p, e)'
    <3>1. e.msg \in issued[p] /\ e.msg \in Msgs
      BY DEF QueueAndCopy
    <3>2. ~(p = w.to /\ e.msg = w.msg)
      BY WorkerFacts
    <3>3. e.msg \in Range(arrived[p])
      BY <2>1, <3>1, <3>2, <1>e
    <3>. QED  BY <3>3 DEF QueueAndCopy, Delivered
  <2>. QED  BY <1>0, <2>1 DEF QueueAndCopy
<1>3. NowInHand'
  <2>1. \A p \in Peers : Range(arrived[p]) \subseteq Range(arrived'[p])
    BY <1>b, <1>d
  <2>2. loop.pc = "remove" => loop.peer \in Peers
    BY DEF LoopState
  <2>. QED  BY <2>1, <2>2 DEF NowInHand
<1>4. ArrivedWasIssued'
  <2>1. ASSUME NEW p \in Peers, NEW n \in Range(arrived'[p]) PROVE n \in issued[p]
    <3>1. CASE p = w.to
      BY <3>1, <1>d, WorkerFacts DEF ArrivedWasIssued
    <3>2. CASE p # w.to
      BY <3>2, <1>b DEF ArrivedWasIssued
    <3>. QED  BY <3>1, <3>2
  <2>. QED  BY <2>1 DEF ArrivedWasIssued
<1>5. TakenAtMostOnce'
  <2>1. ASSUME NEW p \in Peers PROVE Distinct(arrived'[p])
    <3>1. Distinct(arrived[p]) /\ arrived[p] \in Seq(Msgs)
      BY TakenIsDistinct
    <3>2. CASE p = w.to
      <4>1. w.msg \notin Range(arrived[p])
        BY <3>2, WorkerFacts
      <4>. QED  BY <3>1, <3>2, <4>1, <1>a, <1>c, AppendDistinct
    <3>. QED  BY <3>1, <3>2, <1>b
  <2>. QED  BY <2>1 DEF TakenAtMostOnce, Distinct
<1>6. OneEntryPerKey'
  BY DEF OneEntryPerKey
<1>7. RetainedUntilTaken'
  <2>. SUFFICES ASSUME NEW p \in Peers, NEW n \in issued[p], Sole(p, n)'
                PROVE  Held(p, n)' \/ n \in Range(arrived'[p]) \/ n \in recalled[p]
    BY DEF RetainedUntilTaken
  <2>1. Held(p, n) \/ n \in Range(arrived[p]) \/ n \in recalled[p]
    BY DEF RetainedUntilTaken, Sole
  <2>2. ASSUME NEW v \in work, v.to = p, v.msg = n
        PROVE  Held(p, n)' \/ n \in Range(arrived'[p])
    <3>1. CASE v = w
      BY <2>2, <3>1, <1>d
    <3>2. CASE v # w
      BY <2>2, <3>2 DEF Held
    <3>. QED  BY <3>1, <3>2
  <2>3. Range(arrived[p]) \subseteq Range(arrived'[p])
    BY <1>b, <1>d
  <2>. QED  BY <2>1, <2>2, <2>3 DEF Held
<1>. QED  BY <1>1, <1>2, <1>3, <1>4, <1>5, <1>6, <1>7

LEMMA WorkerDeliverInv ==
  ASSUME IInv, TypeOK', NEW w \in work, WorkerDeliver(w)
  PROVE  IInv'
<1>1. CASE work' = work \ {w} /\ arrived' = [arrived EXCEPT ![w.to] = Append(@, w.msg)]
  BY <1>1, DeliveredNowInv DEF WorkerDeliver
<1>2. CASE ~up[w.to]
  <2>1. UNCHANGED <<issued, outbox, ticket, loop, arrived, recalled>>
    BY <1>2 DEF WorkerDeliver
  <2>2. PICK c : work' = (work \ {w}) \cup {[w EXCEPT !.pc = c]}
    BY <1>2 DEF WorkerDeliver
  <2>. QED  BY <2>1, <2>2, MoveInv
<1>. QED  BY <1>1, <1>2 DEF WorkerDeliver

\* The last turn: the payload is queued, or an entry of its key won.
LEMMA WorkerEnqueueInv ==
  ASSUME IInv, TypeOK', NEW w \in work, WorkerEnqueue(w)
  PROVE  IInv'
<1>. USE DEF IInv, TypeOK
<1>. DEFINE new == [msg |-> w.msg, at |-> ticket]
<1>0. /\ work' = work \ {w}
      /\ UNCHANGED <<issued, loop, arrived, recalled>>
      /\ \A p \in Peers : InHand(p)' = InHand(p)
  BY DEF WorkerEnqueue, InHand
<1>a. /\ w.to \in Peers /\ w.msg \in Msgs /\ w.msg \in issued[w.to]
      /\ w.msg \notin Range(arrived[w.to])
      /\ \A e \in outbox[w.to] \cup InHand(w.to) : e.msg # w.msg
  BY WorkerFacts
<1>b. \A v \in work' : v \in work /\ ~(v.to = w.to /\ v.msg = w.msg)
  BY <1>0, WorkerFacts
<1>1. CASE \E e \in outbox[w.to] : Key(e.msg) = Key(w.msg) /\ UNCHANGED <<outbox, ticket>>
  <2>1. WorkersApart'
    <3>1. \A v \in work' :
            /\ v.msg \in issued[v.to] /\ v.msg \notin Range(arrived[v.to])
            /\ \A e \in outbox[v.to] \cup InHand(v.to) : e.msg # v.msg
      BY <1>b, WorkerFacts
    <3>2. \A v \in work' : v.to \in Peers /\ InHand(v.to)' = InHand(v.to)
      BY <1>0, <1>b, WorkerFacts
    <3>3. \A u, v \in work' : u.to = v.to /\ u.msg = v.msg => u = v
      BY <1>b, WorkerFacts
    <3>. QED  BY <1>0, <1>1, <3>1, <3>2, <3>3 DEF WorkersApart
  <2>2. QueueAndCopy'
    BY <1>0, <1>1 DEF QueueAndCopy, Delivered
  <2>3. NowInHand' /\ OneEntryPerKey' /\ TakenAtMostOnce' /\ ArrivedWasIssued'
    BY <1>0, <1>1 DEF NowInHand, OneEntryPerKey, TakenAtMostOnce, ArrivedWasIssued
  <2>4. RetainedUntilTaken'
    <3>. SUFFICES ASSUME NEW p \in Peers, NEW n \in issued[p], Sole(p, n)'
                  PROVE  Held(p, n)' \/ n \in Range(arrived[p]) \/ n \in recalled[p]
      BY <1>0 DEF RetainedUntilTaken
    <3>0. Sole(p, n)
      BY <1>0 DEF Sole
    <3>1. Held(p, n) \/ n \in Range(arrived[p]) \/ n \in recalled[p]
      BY <3>0 DEF RetainedUntilTaken
    <3>2. PICK e \in outbox[w.to] : Key(e.msg) = Key(w.msg)
      BY <1>1
    <3>3. e.msg \in issued[w.to] /\ e.msg # w.msg
      BY <1>a DEF QueueAndCopy
    <3>4. ~(p = w.to /\ n = w.msg)
      BY <3>0, <3>2, <3>3 DEF Sole
    <3>5. ASSUME NEW v \in work, v.to = p, v.msg = n PROVE v \in work'
      BY <1>0, <3>4, <3>5
    <3>. QED  BY <1>1, <3>1, <3>5 DEF Held
  <2>. QED  BY <2>1, <2>2, <2>3, <2>4
<1>2. CASE /\ \A e \in outbox[w.to] : Key(e.msg) # Key(w.msg)
           /\ outbox' = [outbox EXCEPT ![w.to] = @ \cup {new}]
           /\ ticket' = ticket + 1
  <2>0. /\ \A p \in Peers : p # w.to => outbox'[p] = outbox[p]
        /\ outbox'[w.to] = outbox[w.to] \cup {new}
        /\ new.msg = w.msg /\ new.at = ticket
    BY <1>2, <1>a
  <2>a. \A p \in Peers : \A e \in outbox'[p] : e \in outbox[p] \/ (p = w.to /\ e = new)
    BY <2>0
  <2>1. WorkersApart'
    <3>1. ASSUME NEW v \in work', NEW e \in outbox'[v.to] \cup InHand(v.to)
          PROVE  e.msg # v.msg
      <4>1. v.to \in Peers /\ (e \in outbox[v.to] \cup InHand(v.to) \/ (v.to = w.to /\ e = new))
        BY <2>a, <1>b, WorkerFacts
      <4>. QED  BY <4>1, <1>b, <2>0, WorkerFacts
    <3>. QED  BY <1>0, <1>b, <3>1, WorkerFacts DEF WorkersApart
  <2>2. QueueAndCopy'
    <3>1. \A p \in Peers : \A e \in outbox[p] \cup InHand(p) :
             /\ e.msg \in issued[p] /\ e.at < ticket' /\ e.at \in Nat
             /\ (p = w.to => e.msg # new.msg)
             /\ (e.msg \in Range(arrived[p]) => Delivered(p, e))
      <4>. SUFFICES ASSUME NEW p \in Peers, NEW e \in outbox[p] \cup InHand(p)
                    PROVE  /\ e.msg \in issued[p] /\ e.at < ticket' /\ e.at \in Nat
                           /\ (p = w.to => e.msg # new.msg)
                           /\ (e.msg \in Range(arrived[p]) => Delivered(p, e))
        OBVIOUS
      <4>1. e \in Entry
        BY DEF InHand, LoopState
      <4>2. e.at < ticket
        BY DEF QueueAndCopy
      <4>3. e.at < ticket' /\ e.at \in Nat
        BY <1>2, <4>1, <4>2 DEF Entry
      <4>. QED  BY <1>a, <2>0, <4>3 DEF QueueAndCopy
    <3>2. /\ new.msg \in issued[w.to] /\ new.at < ticket'
          /\ new.msg \notin Range(arrived[w.to])
      BY <1>2, <1>a, <2>0
    <3>3. ASSUME NEW p \in Peers, NEW e \in outbox'[p] \cup InHand(p),
                 NEW f \in outbox'[p] \cup InHand(p), f.msg = e.msg
          PROVE  f = e
      <4>1. CASE e \in outbox[p] \cup InHand(p) /\ f \in outbox[p] \cup InHand(p)
        BY <3>3, <4>1 DEF QueueAndCopy
      <4>2. CASE e \notin outbox[p] \cup InHand(p)
        BY <2>a, <3>1, <3>3, <4>2
      <4>3. CASE f \notin outbox[p] \cup InHand(p)
        BY <2>a, <3>1, <3>3, <4>3
      <4>. QED  BY <4>1, <4>2, <4>3
    <3>4. ASSUME NEW p \in Peers, NEW e \in outbox'[p] \cup InHand(p)
          PROVE  /\ e.msg \in issued[p] /\ e.at < ticket'
                 /\ (e.msg \in Range(arrived[p]) => Delivered(p, e)')
      <4>1. Delivered(p, e)' = Delivered(p, e)
        BY <1>0 DEF Delivered
      <4>2. CASE e \in outbox[p] \cup InHand(p)
        BY <3>1, <4>1, <4>2
      <4>3. CASE p = w.to /\ e = new
        BY <3>2, <4>3
      <4>. QED  BY <2>a, <4>2, <4>3
    <3>. QED  BY <1>0, <3>3, <3>4 DEF QueueAndCopy
  <2>3. OneEntryPerKey'
    <3>. SUFFICES ASSUME NEW p \in Peers, NEW e \in outbox'[p], NEW f \in outbox'[p],
                         Key(e.msg) = Key(f.msg)
                  PROVE  e = f
      BY DEF OneEntryPerKey
    <3>1. CASE e \in outbox[p] /\ f \in outbox[p]
      BY <3>1 DEF OneEntryPerKey
    <3>2. CASE e \notin outbox[p]
      BY <1>2, <2>0, <2>a, <3>2
    <3>3. CASE f \notin outbox[p]
      BY <1>2, <2>0, <2>a, <3>3
    <3>. QED  BY <3>1, <3>2, <3>3
  <2>4. NowInHand' /\ TakenAtMostOnce' /\ ArrivedWasIssued'
    BY <1>0 DEF NowInHand, TakenAtMostOnce, ArrivedWasIssued
  <2>5. RetainedUntilTaken'
    <3>. SUFFICES ASSUME NEW p \in Peers, NEW n \in issued[p], Sole(p, n)'
                  PROVE  Held(p, n)' \/ n \in Range(arrived[p]) \/ n \in recalled[p]
      BY <1>0 DEF RetainedUntilTaken
    <3>1. Held(p, n) \/ n \in Range(arrived[p]) \/ n \in recalled[p]
      BY <1>0 DEF RetainedUntilTaken, Sole
    <3>2. ASSUME NEW v \in work, v.to = p, v.msg = n PROVE Held(p, n)'
      <4>1. CASE v = w
        <5>1. new \in outbox'[p] /\ new.msg = n
          BY <2>0, <3>2, <4>1
        <5>. QED  BY <5>1 DEF Held
      <4>2. CASE v # w
        BY <1>0, <3>2, <4>2 DEF Held
      <4>. QED  BY <4>1, <4>2
    <3>3. ASSUME NEW e \in outbox[p], e.msg = n PROVE Held(p, n)'
      <4>1. e \in outbox'[p]
        BY <2>0
      <4>. QED  BY <3>3, <4>1 DEF Held
    <3>. QED  BY <3>1, <3>2, <3>3 DEF Held
  <2>. QED  BY <2>1, <2>2, <2>3, <2>4, <2>5
<1>. QED  BY <1>1, <1>2 DEF WorkerEnqueue

-----------------------------------------------------------------------------
(* The outbox thread's steps.                                              *)

\* Steps that only move the loop, to a place where it holds no entry that was
\* not queued and none it has delivered.
LEMMA MoveLoopInv ==
  ASSUME IInv, TypeOK',
         loop.pc # "remove", loop'.pc # "remove",
         \A p \in Peers : InHand(p)' \subseteq outbox[p] \cup InHand(p),
         UNCHANGED <<issued, work, outbox, ticket, arrived, recalled>>
  PROVE  IInv'
<1>. USE DEF IInv, TypeOK
<1>1. WorkersApart'
  BY DEF WorkersApart, Worker
<1>2. QueueAndCopy'
  <2>1. \A p \in Peers : outbox'[p] \cup InHand(p)' \subseteq outbox[p] \cup InHand(p)
    OBVIOUS
  <2>2. \A p \in Peers, e \in Entry : Delivered(p, e)' = Delivered(p, e)
    BY DEF Delivered
  <2>3. \A p \in Peers : outbox[p] \cup InHand(p) \subseteq Entry
    BY DEF InHand, LoopState
  <2>. QED  BY <2>1, <2>2, <2>3 DEF QueueAndCopy
<1>3. NowInHand' /\ OneEntryPerKey' /\ TakenAtMostOnce' /\ ArrivedWasIssued'
  BY DEF NowInHand, OneEntryPerKey, TakenAtMostOnce, ArrivedWasIssued
<1>4. RetainedUntilTaken'
  BY DEF RetainedUntilTaken, Sole, Held
<1>. QED  BY <1>1, <1>2, <1>3, <1>4

LEMMA LoopDeliverInv ==
  ASSUME IInv, TypeOK', loop.pc = "deliver", NEW e \in Oldest(loop.items), LoopDeliver(e),
         UNCHANGED <<up, issued, work, outbox, ticket, recalled>>
  PROVE  IInv'
<1>. USE DEF IInv, TypeOK
<1>. DEFINE q == loop.peer
<1>a. q \in Peers /\ e \in Entry /\ e.msg \in Msgs /\ e \in loop.items /\ e \in InHand(q)
  BY DEF LoopState, Oldest, InHand, Entry
<1>b. /\ loop'.pc = "remove" /\ loop'.peer = q /\ loop'.items = loop.items /\ loop'.now = e
      /\ arrived' = [arrived EXCEPT ![q] = Append(@, e.msg)]
  BY DEF LoopDeliver
<1>c. \A p \in Peers : InHand(p)' = InHand(p)
  BY <1>b DEF InHand
<1>d. Range(arrived'[q]) = Range(arrived[q]) \cup {e.msg}
  BY <1>a, <1>b, AppendRange
<1>e. \A p \in Peers : p # q => arrived'[p] = arrived[p]
  BY <1>b
<1>f. e.msg \notin Range(arrived[q]) /\ e.msg \in issued[q]
  BY <1>a DEF QueueAndCopy, Delivered
<1>1. WorkersApart'
  <2>1. ASSUME NEW v \in work PROVE v.msg \notin Range(arrived'[v.to])
    <3>1. CASE v.to = q
      BY <1>a, <1>d, <3>1, WorkerFacts
    <3>2. CASE v.to # q
      BY <1>e, <3>2, WorkerFacts
    <3>. QED  BY <3>1, <3>2
  <2>. QED  BY <1>c, <2>1, WorkerFacts DEF WorkersApart
<1>2. QueueAndCopy'
  <2>1. ASSUME NEW p \in Peers, NEW f \in outbox[p] \cup InHand(p), f.msg \in Range(arrived'[p])
        PROVE  Delivered(p, f)'
    <3>1. f.msg \notin Range(arrived[p])
      BY DEF QueueAndCopy, Delivered
    <3>2. p = q /\ f.msg = e.msg
      BY <1>d, <1>e, <2>1, <3>1
    <3>3. f = e
      BY <1>a, <3>2 DEF QueueAndCopy
    <3>. QED  BY <1>b, <3>2, <3>3 DEF Delivered
  <2>. QED  BY <1>c, <2>1 DEF QueueAndCopy
<1>3. NowInHand'
  BY <1>a, <1>b, <1>d DEF NowInHand
<1>4. ArrivedWasIssued'
  BY <1>d, <1>e, <1>f DEF ArrivedWasIssued
<1>5. TakenAtMostOnce'
  <2>1. ASSUME NEW p \in Peers PROVE Distinct(arrived'[p])
    <3>1. Distinct(arrived[p]) /\ arrived[p] \in Seq(Msgs)
      BY TakenIsDistinct
    <3>2. CASE p = q
      <4>1. arrived'[p] = Append(arrived[p], e.msg)
        BY <1>a, <1>b, <3>2
      <4>. QED  BY <1>a, <1>f, <3>1, <3>2, <4>1, AppendDistinct
    <3>. QED  BY <3>1, <3>2, <1>e
  <2>. QED  BY <2>1 DEF TakenAtMostOnce, Distinct
<1>6. OneEntryPerKey'
  BY DEF OneEntryPerKey
<1>7. RetainedUntilTaken'
  <2>1. \A p \in Peers : Range(arrived[p]) \subseteq Range(arrived'[p])
    BY <1>d, <1>e
  <2>. QED  BY <2>1 DEF RetainedUntilTaken, Sole, Held
<1>. QED  BY <1>1, <1>2, <1>3, <1>4, <1>5, <1>6, <1>7

\* Removing by key: whatever goes with the delivered entry shares its key, so
\* it is not the only payload of that key.
LEMMA LoopRemoveInv ==
  ASSUME IInv, TypeOK', LoopRemove
  PROVE  IInv'
<1>. USE DEF IInv, TypeOK
<1>q. PICK q \in Peers, d \in Entry : q = loop.peer /\ d = loop.now
  BY DEF LoopRemove, LoopState
<1>a. /\ loop.pc = "remove" /\ d \in InHand(q)
      /\ d.msg \in Range(arrived[q])
  BY <1>q DEF LoopRemove, NowInHand, InHand
<1>b. /\ UNCHANGED <<issued, work, ticket, arrived, recalled>>
      /\ loop'.pc = "deliver" /\ loop'.peer = q /\ loop'.items = loop.items \ {d}
      /\ outbox' = [outbox EXCEPT ![q] = Without(@, Key(d.msg))]
  BY <1>q DEF LoopRemove
<1>c. /\ \A p \in Peers : p # q => outbox'[p] = outbox[p] /\ InHand(p)' = InHand(p)
      /\ outbox'[q] = {e \in outbox[q] : Key(e.msg) # Key(d.msg)}
      /\ InHand(q)' = InHand(q) \ {d}
  BY <1>q, <1>a, <1>b DEF Without, InHand
<1>d. \A p \in Peers : /\ outbox'[p] \subseteq outbox[p]
                       /\ InHand(p)' \subseteq InHand(p)
  BY <1>c
<1>1. WorkersApart'
  BY <1>b, <1>d, WorkerFacts DEF WorkersApart
<1>2. QueueAndCopy'
  <2>1. ASSUME NEW p \in Peers, NEW e \in outbox'[p] \cup InHand(p)'
        PROVE  e.msg \notin Range(arrived[p])
    <3>1. SUFFICES ASSUME e.msg \in Range(arrived[p]) PROVE FALSE
      OBVIOUS
    <3>2. Delivered(p, e)
      BY <1>d, <3>1 DEF QueueAndCopy
    <3>3. p = q /\ e = d
      BY <1>q, <3>2 DEF Delivered
    <3>. QED  BY <1>c, <3>3
  <2>. QED  BY <1>b, <1>d, <2>1 DEF QueueAndCopy
<1>3. NowInHand' /\ OneEntryPerKey' /\ TakenAtMostOnce' /\ ArrivedWasIssued'
  BY <1>b, <1>d DEF NowInHand, OneEntryPerKey, TakenAtMostOnce, ArrivedWasIssued
<1>4. RetainedUntilTaken'
  <2>. SUFFICES ASSUME NEW p \in Peers, NEW n \in issued[p], Sole(p, n)'
                PROVE  Held(p, n)' \/ n \in Range(arrived[p]) \/ n \in recalled[p]
    BY <1>b DEF RetainedUntilTaken
  <2>0. Sole(p, n)
    BY <1>b DEF Sole
  <2>1. Held(p, n) \/ n \in Range(arrived[p]) \/ n \in recalled[p]
    BY <2>0 DEF RetainedUntilTaken
  <2>2. ASSUME NEW e \in outbox[p], e.msg = n, e \notin outbox'[p]
        PROVE  n \in Range(arrived[p])
    <3>1. p = q /\ Key(n) = Key(d.msg)
      BY <1>c, <2>2
    <3>2. d.msg \in issued[q]
      BY <1>a DEF ArrivedWasIssued
    <3>3. d.msg = n
      BY <2>0, <3>1, <3>2 DEF Sole
    <3>. QED  BY <1>a, <3>1, <3>3
  <2>. QED  BY <1>b, <2>1, <2>2 DEF Held
<1>. QED  BY <1>1, <1>2, <1>3, <1>4

LEMMA LoopStepInv ==
  ASSUME IInv, TypeOK', LoopStep
  PROVE  IInv'
<1>1. CASE LoopTry
  <2>1. CASE LoopBreak
    <3>1. \A p \in Peers : InHand(p)' = {}
      BY <2>1 DEF LoopBreak, InHand
    <3>. QED  BY <1>1, <2>1, <3>1, MoveLoopInv DEF LoopTry, LoopBreak
  <2>2. ASSUME NEW e \in Oldest(loop.items), LoopDeliver(e) PROVE IInv'
    BY <1>1, <2>2, LoopDeliverInv DEF LoopTry
  <2>. QED  BY <1>1, <2>1, <2>2 DEF LoopTry
<1>2. CASE LoopRemove
  BY <1>2, LoopRemoveInv
<1>3. CASE LoopWake \/ LoopFlush \/ LoopRest \/ \E p \in Peers : LoopSkip(p)
  <2>1. loop.pc # "remove" /\ loop'.pc \in {"pick", "sleep"}
    BY <1>3 DEF LoopWake, LoopFlush, LoopRest, LoopSkip, Picking, Idle
  <2>2. \A p \in Peers : InHand(p)' = {}
    BY <2>1 DEF InHand
  <2>3. UNCHANGED <<issued, work, outbox, ticket, arrived, recalled>>
    BY <1>3 DEF LoopWake, LoopFlush, LoopRest, LoopSkip
  <2>. QED  BY <2>1, <2>2, <2>3, MoveLoopInv
<1>4. ASSUME NEW q \in Peers, LoopTake(q) PROVE IInv'
  <2>1. \A p \in Peers : InHand(p)' \subseteq outbox[p]
    BY <1>4 DEF LoopTake, InHand
  <2>. QED  BY <1>4, <2>1, MoveLoopInv DEF LoopTake
<1>. QED  BY <1>1, <1>2, <1>3, <1>4 DEF LoopStep

LEMMA StepInv ==
  ASSUME IInv, TypeOK', [Next]_vars
  PROVE  IInv'
<1>1. CASE User
  <2>1. ASSUME NEW t \in Texts, SendText(t) PROVE IInv'
    BY <2>1, StartInv, MsgTypes, OutboxAssumption DEF SendText
  <2>2. ASSUME NEW t \in Texts, NEW v \in 1..MaxEdits, SendEdit(t, v) PROVE IInv'
    BY <2>2, StartInv, MsgTypes, OutboxAssumption DEF SendEdit
  <2>3. ASSUME NEW p \in Peers, NEW g \in Groups, NEW v \in 1..MaxKicks, SendKick(p, g, v)
        PROVE  IInv'
    BY <2>3, StartInv, MsgTypes DEF SendKick
  <2>. QED  BY <1>1, <2>1, <2>2, <2>3, DropQueueInv DEF User
<1>2. CASE WorkerStep
  BY <1>2, WorkerDeliverInv, WorkerPurgeInv, WorkerEnqueueInv DEF WorkerStep
<1>3. CASE LoopStep
  BY <1>3, LoopStepInv
<1>4. CASE Network
  BY <1>4, NetworkInv
<1>5. CASE UNCHANGED vars
  BY <1>5 DEF vars, IInv, WorkersApart, QueueAndCopy, NowInHand, ArrivedWasIssued,
              OneEntryPerKey, TakenAtMostOnce, RetainedUntilTaken, InHand, Delivered, Held, Sole
<1>. QED  BY <1>1, <1>2, <1>3, <1>4, <1>5 DEF Next

LEMMA InitInv == Init => IInv
<1>. SUFFICES ASSUME Init PROVE IInv
  OBVIOUS
<1>1. TypeOK
  BY DEF Init, TypeOK, LoopState, Idle
<1>0. DOMAIN <<>> = {} /\ Range(<<>>) = {}
  BY DEF Range
<1>2. \A p \in Peers : /\ issued[p] = {} /\ outbox[p] = {} /\ InHand(p) = {}
                       /\ arrived[p] = <<>> /\ Range(arrived[p]) = {}
  BY <1>0 DEF Init, InHand, Idle
<1>. QED
  BY <1>1, <1>2 DEF Init, Idle, IInv, WorkersApart, QueueAndCopy, NowInHand, ArrivedWasIssued,
              OneEntryPerKey, TakenAtMostOnce, RetainedUntilTaken

\* Places a payload can be in: a worker, the queue and the loop's copy agree
\* with each other and with what the peer has taken, at every step of the threads.
THEOREM Inductive == Spec => []IInv
<1>1. TypeOK' /\ IInv /\ [Next]_vars => IInv'
  BY StepInv
<1>. QED  BY <1>1, InitInv, TypeCorrect, PTL DEF Spec

\* _outbox_loop and _enqueue never lose the only payload of a key: until the
\* peer has taken it a worker or the queue holds it, or the user forgot the peer.
THEOREM NothingIsLost == Spec => []RetainedUntilTaken
<1>1. IInv => RetainedUntilTaken
  BY DEF IInv
<1>. QED  BY <1>1, Inductive, PTL

\* No send call reaches its peer twice, although the loop delivers outside the
\* lock from a copy of a queue that others change meanwhile.
THEOREM NothingIsTakenTwice == Spec => []TakenAtMostOnce
<1>1. IInv => TakenAtMostOnce
  BY DEF IInv
<1>. QED  BY <1>1, Inductive, PTL

\* _enqueue's deduplication holds although send_edit purges in a lock of its own.
THEOREM QueueIsDeduplicated == Spec => []OneEntryPerKey
<1>1. IInv => OneEntryPerKey
  BY DEF IInv
<1>. QED  BY <1>1, Inductive, PTL

-----------------------------------------------------------------------------
(* The order of delivery.                                                  *)

\* Whatever was queued after the copy was made is younger than all of it.
CopyIsOlder ==
  \A p \in Peers : \A e \in InHand(p), f \in outbox[p] :
    f \in InHand(p) \/ e.at < f.at

\* Queues lose entries or gain one with the next ticket; a copy is made of the
\* whole queue and only shrinks, after the same key left the queue.
LEMMA CopyIsOlderStep ==
  ASSUME IInv, CopyIsOlder, TypeOK', [Next]_vars
  PROVE  CopyIsOlder'
<1>. USE DEF IInv, TypeOK
<1>1. ASSUME \A p \in Peers : outbox'[p] \subseteq outbox[p], UNCHANGED loop
      PROVE  CopyIsOlder'
  <2>1. \A p \in Peers : InHand(p)' = InHand(p)
    BY <1>1 DEF InHand
  <2>. QED  BY <1>1, <2>1 DEF CopyIsOlder
<1>2. ASSUME UNCHANGED outbox, \A p \in Peers : InHand(p)' \in {{}, InHand(p), outbox[p]}
      PROVE  CopyIsOlder'
  <2>. SUFFICES ASSUME NEW p \in Peers, NEW e \in InHand(p)', NEW f \in outbox[p]
                PROVE  f \in InHand(p)' \/ e.at < f.at
    BY <1>2 DEF CopyIsOlder
  <2>. QED  BY <1>2 DEF CopyIsOlder
<1>3. CASE User
  <2>1. \A p \in Peers : outbox'[p] \subseteq outbox[p]
    BY <1>3 DEF User, SendText, SendEdit, SendKick, Start, DropQueue
  <2>2. UNCHANGED loop
    BY <1>3 DEF User, SendText, SendEdit, SendKick, Start, DropQueue
  <2>. QED  BY <1>1, <2>1, <2>2
<1>4. ASSUME NEW w \in work, WorkerDeliver(w) \/ WorkerPurge(w) PROVE CopyIsOlder'
  <2>1. \A p \in Peers : outbox'[p] \subseteq outbox[p]
    BY <1>4, WorkerFacts DEF WorkerDeliver, WorkerPurge, Without
  <2>2. UNCHANGED loop
    BY <1>4 DEF WorkerDeliver, WorkerPurge
  <2>. QED  BY <1>1, <2>1, <2>2
<1>5. ASSUME NEW w \in work, WorkerEnqueue(w) PROVE CopyIsOlder'
  <2>1. \A p \in Peers : InHand(p)' = InHand(p)
    BY <1>5 DEF WorkerEnqueue, InHand
  <2>2. \A p \in Peers : outbox'[p] \subseteq outbox[p] \cup {[msg |-> w.msg, at |-> ticket]}
    BY <1>5, WorkerFacts DEF WorkerEnqueue
  <2>3. \A p \in Peers : \A e \in InHand(p) : e.at < ticket
    BY DEF QueueAndCopy
  <2>. QED  BY <2>1, <2>2, <2>3 DEF CopyIsOlder
<1>6. CASE LoopStep
  <2>1. CASE LoopRemove
    <3>1. PICK q \in Peers, d \in Entry : q = loop.peer /\ d = loop.now
      BY <2>1 DEF LoopRemove, LoopState
    <3>2. /\ outbox' = [outbox EXCEPT ![q] = Without(@, Key(d.msg))]
          /\ loop.pc = "remove" /\ loop.items \subseteq Entry
          /\ loop'.pc = "deliver" /\ loop'.peer = q /\ loop'.items = loop.items \ {d}
      BY <2>1, <3>1 DEF LoopRemove, LoopState
    <3>3. /\ outbox'[q] = {e \in outbox[q] : Key(e.msg) # Key(d.msg)}
          /\ \A p \in Peers : p # q => outbox'[p] = outbox[p]
      BY <3>2 DEF Without
    <3>4. /\ InHand(q)' = InHand(q) \ {d}
          /\ \A p \in Peers : p # q => InHand(p)' = InHand(p)
      BY <3>1, <3>2 DEF InHand
    <3>5. d \notin outbox'[q]
      BY <3>3
    <3>6. ASSUME NEW p \in Peers, NEW e \in InHand(p)', NEW f \in outbox'[p]
          PROVE  f \in InHand(p)' \/ e.at < f.at
      <4>1. CASE p = q
        BY <3>3, <3>4, <3>5, <3>6, <4>1 DEF CopyIsOlder
      <4>2. CASE p # q
        BY <3>3, <3>4, <3>6, <4>2 DEF CopyIsOlder
      <4>. QED  BY <4>1, <4>2
    <3>. QED  BY <3>6 DEF CopyIsOlder
  <2>2. CASE LoopTry
    <3>1. \A p \in Peers : InHand(p)' \in {{}, InHand(p)}
      BY <2>2 DEF LoopTry, LoopBreak, LoopDeliver, InHand
    <3>. QED  BY <1>2, <2>2, <3>1 DEF LoopTry
  <2>3. CASE LoopWake \/ LoopFlush \/ LoopRest \/ \E p \in Peers : LoopSkip(p)
    <3>1. \A p \in Peers : InHand(p)' = {}
      BY <2>3 DEF LoopWake, LoopFlush, LoopRest, LoopSkip, Picking, Idle, InHand
    <3>2. UNCHANGED outbox
      BY <2>3 DEF LoopWake, LoopFlush, LoopRest, LoopSkip
    <3>. QED  BY <1>2, <3>1, <3>2
  <2>4. ASSUME NEW q \in Peers, LoopTake(q) PROVE CopyIsOlder'
    <3>1. \A p \in Peers : InHand(p)' \in {{}, outbox[p]}
      BY <2>4 DEF LoopTake, InHand
    <3>. QED  BY <1>2, <2>4, <3>1 DEF LoopTake
  <2>. QED  BY <1>6, <2>1, <2>2, <2>3, <2>4 DEF LoopStep
<1>7. CASE Network \/ UNCHANGED vars
  <2>1. UNCHANGED <<outbox, loop>>
    BY <1>7 DEF Network, PeerUp, PeerDown, vars
  <2>. QED  BY <1>1, <2>1
<1>. QED  BY <1>3, <1>4, <1>5, <1>6, <1>7 DEF Next, WorkerStep

\* _outbox_loop hands a queue over oldest first, although entries are queued,
\* purged and dropped while it works from its copy: no item is delivered while
\* an older one of the same peer waits.
THEOREM DeliveredInOrder == Spec => OldestFirst
<1>. DEFINE Ordered == loop.pc = "deliver" /\ loop'.pc = "remove"
                         => \A e \in outbox[loop.peer] : loop'.now.at <= e.at
<1>1. Init => CopyIsOlder
  BY DEF Init, CopyIsOlder
<1>2. IInv /\ TypeOK' /\ CopyIsOlder /\ [Next]_vars => CopyIsOlder'
  BY CopyIsOlderStep
<1>3. IInv /\ CopyIsOlder /\ [Next]_vars => [Ordered]_vars
  <2>. SUFFICES ASSUME IInv, CopyIsOlder, [Next]_vars,
                       loop.pc = "deliver", loop'.pc = "remove",
                       NEW f \in outbox[loop.peer]
                PROVE  loop'.now.at <= f.at
    OBVIOUS
  <2>1. LoopTry /\ ~LoopBreak
    BY DEF Next, User, SendText, SendEdit, SendKick, Start, DropQueue, WorkerStep, WorkerDeliver,
           WorkerPurge, WorkerEnqueue, LoopStep, LoopWake, LoopTry, LoopBreak, LoopRemove,
           LoopFlush, LoopRest, LoopSkip, LoopTake, Picking, Idle, Network, PeerUp, PeerDown, vars
  <2>2. PICK e \in Oldest(loop.items) : LoopDeliver(e)
    BY <2>1 DEF LoopTry
  <2>3. PICK q \in Peers : q = loop.peer
    BY DEF IInv, TypeOK, LoopState
  <2>4. loop'.now = e /\ e \in InHand(q) /\ InHand(q) = loop.items
    BY <2>2, <2>3 DEF LoopDeliver, Oldest, InHand
  <2>5. e.at \in Nat /\ f.at \in Nat
    BY <2>3, <2>4 DEF IInv, TypeOK, LoopState, Entry
  <2>6. f \in InHand(q) \/ e.at < f.at
    BY <2>3, <2>4 DEF CopyIsOlder
  <2>7. f \in loop.items => e.at <= f.at
    BY <2>2 DEF Oldest
  <2>. QED  BY <2>4, <2>5, <2>6, <2>7
<1>. QED  BY <1>1, <1>2, <1>3, Inductive, TypeCorrect, PTL DEF Spec, OldestFirst

-----------------------------------------------------------------------------
(* The threads implement Retention.                                        *)

\* What a payload has to do to be owed.
LEMMA InOwed ==
  ASSUME NEW p, NEW m
  PROVE  m \in Owed(p) <=> /\ m \in Msgs
                           /\ Held(p, m) \/ \E e \in InHand(p) : e.msg = m
                           /\ m \notin Range(arrived[p])
BY DEF Owed

\* A step after which one peer is owed less, and has taken no more, gives up
\* what is missing; RetainedUntilTaken says that it may.
LEMMA GivingUp ==
  ASSUME IInv, IInv', NEW p \in Peers,
         UNCHANGED <<issued, arrived, recalled>>,
         Owed(p)' \subseteq Owed(p),
         \A q \in Peers : q # p => Owed(q)' = Owed(q)
  PROVE  [Contract!RNext]_(Contract!rvars)
<1>. DEFINE S == Owed(p) \ Owed(p)'
<1>1. CASE S = {}
  <2>1. \A q \in Peers : Owed(q)' = Owed(q)
    BY <1>1
  <2>. QED  BY <2>1 DEF Contract!rvars
<1>2. CASE S # {}
  <2>1. \A m \in S : Contract!MayGiveUp(p, m, recalled[p])
    <3>. SUFFICES ASSUME NEW m \in S PROVE Contract!MayGiveUp(p, m, recalled[p])
      OBVIOUS
    <3>1. m \in Msgs /\ m \notin Range(arrived[p]) /\ ~Held(p, m)'
      BY InOwed DEF Owed
    <3>2. m \in issued[p]
      BY DEF Owed, Held, IInv, WorkersApart, QueueAndCopy
    <3>3. ~Sole(p, m)' \/ m \in recalled[p]
      BY <3>1, <3>2 DEF IInv, RetainedUntilTaken
    <3>4. CASE ~Sole(p, m)'
      <4>1. PICK n \in issued[p] : Key(n) = Key(m) /\ n # m
        BY <3>4 DEF Sole
      <4>2. n \in Msgs
        BY DEF IInv, TypeOK
      <4>. QED  BY <3>1, <4>1, <4>2 DEF Contract!MayGiveUp
    <3>. QED  BY <3>3, <3>4 DEF Contract!MayGiveUp
  <2>2. Contract!GiveUp(p, S)
    BY <1>2, <2>1 DEF Contract!GiveUp
  <2>. QED  BY <2>2 DEF Contract!RNext
<1>. QED  BY <1>1, <1>2

\* A payload its peer takes leaves what is owed, and nothing else does.
LEMMA Arriving ==
  ASSUME IInv, NEW p \in Peers, NEW m \in Owed(p),
         arrived' = [arrived EXCEPT ![p] = Append(@, m)],
         UNCHANGED <<issued, recalled>>,
         \A q \in Peers : InHand(q)' = InHand(q),
         \A q \in Peers, n \in Msgs : ~(q = p /\ n = m) => (Held(q, n)' <=> Held(q, n))
  PROVE  Contract!RNext
<1>. USE DEF IInv, TypeOK
<1>0. m \in Msgs
  BY DEF Owed
<1>1. /\ Range(arrived'[p]) = Range(arrived[p]) \cup {m}
      /\ \A q \in Peers : q # p => arrived'[q] = arrived[q]
  BY <1>0, AppendRange
<1>2. Owed(p)' = Owed(p) \ {m} /\ \A q \in Peers : q # p => Owed(q)' = Owed(q)
  BY <1>1 DEF Owed
<1>3. [q \in Peers |-> Owed(q)'] = [[q \in Peers |-> Owed(q)] EXCEPT ![p] = @ \ {m}]
  BY <1>2
<1>4. [q \in Peers |-> Range(arrived'[q])]
        = [[q \in Peers |-> Range(arrived[q])] EXCEPT ![p] = @ \cup {m}]
  BY <1>1
<1>5. Contract!Arrive(p, m)
  BY <1>3, <1>4 DEF Contract!Arrive
<1>. QED  BY <1>0, <1>5 DEF Contract!RNext

\* A send call is one promise to all its recipients.
LEMMA StartRefines ==
  ASSUME IInv, IInv', NEW ps \in SUBSET Peers, NEW m \in Msgs, Start(ps, m)
  PROVE  Contract!RNext
<1>. USE DEF IInv, TypeOK
<1>1. \A p \in Peers : InHand(p)' = InHand(p)
  BY DEF Start, InHand
<1>2. \A p \in Peers, n \in Msgs : Held(p, n)' <=> Held(p, n) \/ (p \in ps /\ n = m)
  <2>. SUFFICES ASSUME NEW p \in Peers, NEW n \in Msgs
                PROVE  Held(p, n)' <=> Held(p, n) \/ (p \in ps /\ n = m)
    OBVIOUS
  <2>a. work' = work \cup {[to |-> q, msg |-> m, pc |-> "deliver"] : q \in ps}
    BY DEF Start
  <2>b. p \in ps => [to |-> p, msg |-> m, pc |-> "deliver"] \in work'
    BY <2>a
  <2>c. \A w \in work' : w \in work \/ (w.to \in ps /\ w.msg = m)
    BY <2>a
  <2>1. (\E w \in work' : w.to = p /\ w.msg = n)
          <=> (\E w \in work : w.to = p /\ w.msg = n) \/ (p \in ps /\ n = m)
    BY <2>a, <2>b, <2>c
  <2>2. outbox' = outbox
    BY DEF Start
  <2>. QED  BY <2>1, <2>2 DEF Held
<1>3. \A p \in ps : m \notin Range(arrived[p])
  BY DEF Start, ArrivedWasIssued
<1>4. UNCHANGED <<arrived, recalled>>
  BY DEF Start
<1>5. \A p \in Peers : Owed(p)' = IF p \in ps THEN Owed(p) \cup {m} ELSE Owed(p)
  BY <1>1, <1>2, <1>3, <1>4 DEF Owed
<1>6. Contract!Promise(ps, m)
  BY <1>4, <1>5 DEF Contract!Promise, Start
<1>. QED  BY <1>6 DEF Contract!RNext

\* Blocking or removing a peer recalls its queue.  What the loop has in hand
\* stays owed: it may still arrive.
LEMMA DropQueueRefines ==
  ASSUME IInv, IInv', NEW p \in Peers, DropQueue(p)
  PROVE  Contract!RNext
<1>. USE DEF IInv, TypeOK
<1>. DEFINE R == {e.msg : e \in outbox[p]}
            S == Owed(p) \ Owed(p)'
<1>1. /\ UNCHANGED <<issued, work, loop, arrived>>
      /\ outbox' = [outbox EXCEPT ![p] = {}]
      /\ recalled' = [recalled EXCEPT ![p] = @ \cup R]
  BY DEF DropQueue
<1>2. \A q \in Peers : InHand(q)' = InHand(q)
  BY <1>1 DEF InHand
<1>3. \A q \in Peers : q # p => Owed(q)' = Owed(q)
  BY <1>1, <1>2 DEF Owed, Held
<1>4. Owed(p)' \subseteq Owed(p)
  BY <1>1, <1>2 DEF Owed, Held
<1>5. S \subseteq R
  BY <1>1, <1>2 DEF Owed, Held
<1>6. R \subseteq issued[p]
  BY DEF QueueAndCopy
<1>7. [q \in Peers |-> Owed(q)'] = [[q \in Peers |-> Owed(q)] EXCEPT ![p] = @ \ S]
  BY <1>3, <1>4
<1>8. S \subseteq Owed(p) \cap R
  BY <1>5
<1>9. Contract!Recall(p, R, S)
  BY <1>1, <1>6, <1>7, <1>8 DEF Contract!Recall
<1>. QED  BY <1>6, <1>8, <1>9 DEF Contract!RNext

LEMMA WorkerRefines ==
  ASSUME IInv, IInv', NEW w \in work, WorkerDeliver(w) \/ WorkerPurge(w) \/ WorkerEnqueue(w)
  PROVE  [Contract!RNext]_(Contract!rvars)
<1>. USE DEF IInv, TypeOK
<1>0. w.to \in Peers /\ w.msg \in Msgs
  BY WorkerFacts
<1>1. \A p \in Peers : InHand(p)' = InHand(p)
  BY DEF WorkerDeliver, WorkerPurge, WorkerEnqueue, InHand
<1>2. \A c : [w EXCEPT !.pc = c].to = w.to /\ [w EXCEPT !.pc = c].msg = w.msg
  BY DEF Worker
<1>3. ASSUME WorkerDeliver(w), up[w.to] PROVE Contract!RNext
  <2>1. /\ UNCHANGED <<issued, outbox, recalled>> /\ work' = work \ {w}
        /\ arrived' = [arrived EXCEPT ![w.to] = Append(@, w.msg)]
    BY <1>3 DEF WorkerDeliver
  <2>2. w.msg \in Owed(w.to)
    BY <1>0, WorkerFacts DEF Owed, Held
  <2>3. \A q \in Peers, n \in Msgs : ~(q = w.to /\ n = w.msg) => (Held(q, n)' <=> Held(q, n))
    BY <2>1 DEF Held
  <2>. QED  BY <1>0, <1>1, <2>1, <2>2, <2>3, Arriving
<1>4. ASSUME WorkerDeliver(w), ~up[w.to] PROVE UNCHANGED Contract!rvars
  <2>1. UNCHANGED <<issued, outbox, arrived, recalled>>
    BY <1>4 DEF WorkerDeliver
  <2>2. PICK c : work' = (work \ {w}) \cup {[w EXCEPT !.pc = c]}
    BY <1>4 DEF WorkerDeliver
  <2>3. \A q, n : Held(q, n)' = Held(q, n)
    BY <1>2, <2>1, <2>2 DEF Held
  <2>4. \A q \in Peers : Owed(q)' = Owed(q)
    BY <1>1, <2>1, <2>3 DEF Owed
  <2>. QED  BY <2>1, <2>4 DEF Contract!rvars
<1>5. CASE WorkerPurge(w)
  <2>1. /\ UNCHANGED <<issued, arrived, recalled>>
        /\ work' = (work \ {w}) \cup {[w EXCEPT !.pc = "enqueue"]}
    BY <1>5 DEF WorkerPurge
  <2>2. \A q \in Peers : /\ outbox'[q] \subseteq outbox[q]
                         /\ q # w.to => outbox'[q] = outbox[q]
    BY <1>0, <1>5 DEF WorkerPurge, Without
  <2>3. \A v \in work' : \E u \in work : u.to = v.to /\ u.msg = v.msg
    BY <1>2, <2>1
  <2>4. \A u \in work : \E v \in work' : u.to = v.to /\ u.msg = v.msg
    BY <1>2, <2>1
  <2>5. ASSUME NEW q \in Peers PROVE Owed(q)' \subseteq Owed(q)
    <3>. SUFFICES ASSUME NEW m \in Msgs, m \in Owed(q)' PROVE m \in Owed(q)
      BY DEF Owed
    <3>1. Held(q, m)' => Held(q, m)
      BY <2>2, <2>3 DEF Held
    <3>2. Held(q, m)' \/ \E e \in InHand(q) : e.msg = m
      BY <1>1 DEF Owed
    <3>3. m \notin Range(arrived[q])
      BY <2>1 DEF Owed
    <3>. QED  BY <3>1, <3>2, <3>3, InOwed
  <2>6. ASSUME NEW q \in Peers, q # w.to PROVE Owed(q)' = Owed(q)
    <3>. SUFFICES ASSUME NEW m \in Msgs, m \in Owed(q) PROVE m \in Owed(q)'
      BY <2>5 DEF Owed
    <3>1. Held(q, m) => Held(q, m)'
      BY <2>2, <2>4, <2>6 DEF Held
    <3>2. Held(q, m) \/ \E e \in InHand(q)' : e.msg = m
      BY <1>1, InOwed
    <3>3. m \notin Range(arrived'[q])
      BY <2>1, InOwed
    <3>. QED  BY <3>1, <3>2, <3>3 DEF Owed
  <2>. QED  BY <1>0, <2>1, <2>5, <2>6, GivingUp
<1>6. CASE WorkerEnqueue(w)
  <2>1. UNCHANGED <<issued, arrived, recalled>> /\ work' = work \ {w}
    BY <1>6 DEF WorkerEnqueue
  <2>2. \A q \in Peers : \A e \in outbox'[q] :
           e \in outbox[q] \/ (q = w.to /\ e.msg = w.msg)
    BY <1>0, <1>6 DEF WorkerEnqueue
  <2>3. \A q \in Peers : q # w.to => outbox'[q] = outbox[q]
    BY <1>0, <1>6 DEF WorkerEnqueue
  <2>4. Held(w.to, w.msg)
    BY DEF Held
  <2>5. Owed(w.to)' \subseteq Owed(w.to)
    BY <1>0, <1>1, <2>1, <2>2, <2>4 DEF Owed, Held
  <2>6. \A q \in Peers : q # w.to => Owed(q)' = Owed(q)
    BY <1>1, <2>1, <2>3 DEF Owed, Held
  <2>. QED  BY <1>0, <2>1, <2>5, <2>6, GivingUp
<1>. QED  BY <1>3, <1>4, <1>5, <1>6

LEMMA LoopRefines ==
  ASSUME IInv, IInv', LoopStep
  PROVE  [Contract!RNext]_(Contract!rvars)
<1>. USE DEF IInv, TypeOK
<1>1. ASSUME UNCHANGED <<issued, work, outbox, arrived, recalled>>,
             \A p \in Peers : InHand(p)' \subseteq outbox[p] /\ InHand(p) = {}
      PROVE  UNCHANGED Contract!rvars
  <2>1. \A p \in Peers : Owed(p)' = Owed(p)
    BY <1>1 DEF Owed, Held
  <2>. QED  BY <1>1, <2>1 DEF Contract!rvars
<1>2. CASE LoopWake \/ LoopFlush \/ LoopRest \/ \E p \in Peers : LoopSkip(p) \/ LoopTake(p)
  <2>1. UNCHANGED <<issued, work, outbox, arrived, recalled>>
    BY <1>2 DEF LoopWake, LoopFlush, LoopRest, LoopSkip, LoopTake
  <2>2. \A p \in Peers : InHand(p)' \subseteq outbox[p] /\ InHand(p) = {}
    BY <1>2 DEF LoopWake, LoopFlush, LoopRest, LoopSkip, LoopTake, Picking, Idle, InHand
  <2>. QED  BY <1>1, <2>1, <2>2
<1>3. ASSUME LoopTry, LoopBreak PROVE [Contract!RNext]_(Contract!rvars)
  <2>1. PICK q \in Peers : q = loop.peer
    BY <1>3 DEF LoopTry, LoopState
  <2>2. UNCHANGED <<issued, work, outbox, arrived, recalled>>
    BY <1>3 DEF LoopTry, LoopBreak
  <2>3. \A p \in Peers : InHand(p)' = {} /\ (p # q => InHand(p) = {})
    BY <1>3, <2>1 DEF LoopTry, LoopBreak, InHand
  <2>4. Owed(q)' \subseteq Owed(q) /\ \A p \in Peers : p # q => Owed(p)' = Owed(p)
    BY <2>2, <2>3 DEF Owed, Held
  <2>. QED  BY <2>2, <2>4, GivingUp
<1>4. ASSUME LoopTry, NEW e \in Oldest(loop.items), LoopDeliver(e) PROVE Contract!RNext
  <2>1. PICK q \in Peers : q = loop.peer
    BY <1>4 DEF LoopTry, LoopState
  <2>2. UNCHANGED <<issued, work, outbox, recalled>> /\ loop.pc = "deliver"
    BY <1>4 DEF LoopTry
  <2>3. /\ loop'.pc = "remove" /\ loop'.peer = q /\ loop'.items = loop.items
        /\ arrived' = [arrived EXCEPT ![q] = Append(@, e.msg)]
    BY <1>4, <2>1 DEF LoopDeliver
  <2>4. \A p \in Peers : InHand(p)' = InHand(p)
    BY <2>1, <2>2, <2>3 DEF InHand
  <2>5. e \in InHand(q) /\ e.msg \in Msgs
    BY <2>1, <2>2 DEF Oldest, InHand, LoopState, Entry
  <2>6. e.msg \notin Range(arrived[q])
    BY <2>2, <2>5 DEF QueueAndCopy, Delivered
  <2>7. e.msg \in Owed(q)
    BY <2>5, <2>6 DEF Owed
  <2>8. \A p \in Peers, n \in Msgs : Held(p, n)' <=> Held(p, n)
    BY <2>2 DEF Held
  <2>. QED  BY <2>2, <2>3, <2>4, <2>7, <2>8, Arriving
<1>5. CASE LoopRemove
  <2>1. PICK q \in Peers, d \in Entry : q = loop.peer /\ d = loop.now
    BY <1>5 DEF LoopRemove, LoopState
  <2>2. /\ UNCHANGED <<issued, work, arrived, recalled>>
        /\ loop.pc = "remove" /\ d \in loop.items /\ d.msg \in Range(arrived[q])
        /\ outbox' = [outbox EXCEPT ![q] = Without(@, Key(d.msg))]
        /\ loop'.pc = "deliver" /\ loop'.peer = q /\ loop'.items = loop.items \ {d}
    BY <1>5, <2>1 DEF LoopRemove, NowInHand
  <2>3. \A p \in Peers : /\ outbox'[p] \subseteq outbox[p]
                         /\ p # q => outbox'[p] = outbox[p]
    BY <2>2 DEF Without
  <2>4. \A p \in Peers : /\ InHand(p)' \subseteq InHand(p)
                         /\ p # q => InHand(p)' = InHand(p)
    BY <2>1, <2>2 DEF InHand
  <2>5. Owed(q)' \subseteq Owed(q) /\ \A p \in Peers : p # q => Owed(p)' = Owed(p)
    BY <2>2, <2>3, <2>4 DEF Owed, Held
  <2>. QED  BY <2>2, <2>5, GivingUp
<1>. QED  BY <1>2, <1>3, <1>4, <1>5 DEF LoopStep, LoopTry

\* Every step of the worker threads and of _outbox_loop is a step of Retention
\* or leaves it unchanged: what was handed to the service is owed until it
\* arrives, once, or until the user recalled it or replaced it.
THEOREM ThreadsKeepTheContract == Spec => KeepsContract
<1>1. Init => Contract!RInit
  <2>. SUFFICES ASSUME Init PROVE Contract!RInit
    OBVIOUS
  <2>1. \A p \in Peers : Owed(p) = {}
    BY DEF Init, Owed, Held, InHand, Idle
  <2>2. Range(<<>>) = {}
    BY DEF Range
  <2>3. \A p \in Peers : Range(arrived[p]) = {}
    BY <2>2 DEF Init
  <2>. QED  BY <2>1, <2>3 DEF Init, Contract!RInit
<1>2. IInv /\ IInv' /\ [Next]_vars => [Contract!RNext]_(Contract!rvars)
  <2>. SUFFICES ASSUME IInv, IInv', [Next]_vars PROVE [Contract!RNext]_(Contract!rvars)
    OBVIOUS
  <2>1. CASE User
    <3>1. ASSUME NEW t \in Texts, SendText(t) PROVE Contract!RNext
      BY <3>1, StartRefines, MsgTypes, OutboxAssumption DEF SendText
    <3>2. ASSUME NEW t \in Texts, NEW v \in 1..MaxEdits, SendEdit(t, v) PROVE Contract!RNext
      BY <3>2, StartRefines, MsgTypes, OutboxAssumption DEF SendEdit
    <3>3. ASSUME NEW p \in Peers, NEW g \in Groups, NEW v \in 1..MaxKicks, SendKick(p, g, v)
          PROVE  Contract!RNext
      BY <3>3, StartRefines, MsgTypes DEF SendKick
    <3>. QED  BY <2>1, <3>1, <3>2, <3>3, DropQueueRefines DEF User
  <2>2. CASE WorkerStep
    BY <2>2, WorkerRefines DEF WorkerStep
  <2>3. CASE LoopStep
    BY <2>3, LoopRefines
  <2>4. CASE Network \/ UNCHANGED vars
    <3>1. UNCHANGED <<issued, work, outbox, loop, arrived, recalled>>
      BY <2>4 DEF Network, PeerUp, PeerDown, vars
    <3>2. \A p \in Peers : Owed(p)' = Owed(p)
      BY <3>1 DEF Owed, Held, InHand
    <3>. QED  BY <3>1, <3>2 DEF Contract!rvars
  <2>. QED  BY <2>1, <2>2, <2>3, <2>4 DEF Next
<1>. QED  BY <1>1, <1>2, Inductive, PTL DEF Spec, KeepsContract, Contract!RSpec

-----------------------------------------------------------------------------
(* The conversation above the queue.                                       *)

LEMMA OrderFacts ==
  /\ Order \in [Ticks -> 0..2]
  /\ \A s \in Ticks : (Order[s] > 0) = (s \in {"delivered", "read"})
BY DEF Order, Ticks

LEMMA ViewFacts ==
  /\ Absent \in Views /\ Deleted \in Views /\ Absent # Deleted
  /\ \A v \in 0..MaxEdits : v \in Views /\ v # Absent /\ v # Deleted
BY OutboxAssumption DEF Absent, Deleted, Views

\* The window and its recipients leave the queue's steps as they are.
THEOREM QueueBeneath == CSpec => Spec
<1>1. CInit => Init
  BY DEF CInit
<1>2. [CNext]_allvars => [Next]_vars
  <2>. SUFFICES ASSUME [CNext]_allvars PROVE [Next]_vars
    OBVIOUS
  <2>1. CASE SenderThreads
    BY <2>1 DEF SenderThreads, Deliver, Purge, Enqueue, Report, TryDelete, Next, WorkerStep
  <2>2. CASE ServiceLoop
    BY <2>2 DEF ServiceLoop, LoopTries, LoopFlushes, OtherLoopStep, Next, LoopStep
  <2>3. CASE HandleSignal \/ CancelEdit
    BY <2>3 DEF HandleSignal, CancelEdit
  <2>4. CASE Recipients
    BY <2>4 DEF Recipients, Handle, Show, HandleDelete
  <2>5. CASE \E t \in Texts : Post(t) \/ DeleteEveryone(t) \/ BeginEdit(t)
                                \/ \E v \in 1..MaxEdits : Edit(t, v)
    BY <2>5 DEF Post, DeleteEveryone, BeginEdit, Edit, Next, User
  <2>6. CASE \E p \in Peers, t \in Texts : MarkRead(p, t)
    BY <2>6 DEF MarkRead
  <2>7. CASE \E r \in receipts : SendReceipt(r) \/ LoseReceipt(r)
    BY <2>7 DEF SendReceipt, LoseReceipt
  <2>8. CASE \E p \in Peers : PeerReturns(p) \/ PeerLeaves(p)
    BY <2>8 DEF PeerReturns, PeerLeaves, Next, Network
  <2>9. CASE UNCHANGED allvars
    BY <2>9 DEF allvars
  <2>. QED  BY <2>1, <2>2, <2>3, <2>4, <2>5, <2>6, <2>7, <2>8, <2>9 DEF CNext
<1>. QED  BY <1>1, <1>2, PTL DEF CSpec, Spec

\* What a peer's stack took stays where it is.
LEMMA ArrivedGrows ==
  ASSUME TypeOK, [Next]_vars, NEW p \in Peers
  PROVE  /\ DOMAIN arrived[p] \subseteq DOMAIN arrived'[p]
         /\ \A i \in DOMAIN arrived[p] : arrived'[p][i] = arrived[p][i]
<1>1. arrived'[p] = arrived[p] \/ \E m \in Msgs : arrived'[p] = Append(arrived[p], m)
  <2>1. CASE WorkerStep
    <3>1. PICK w \in work : WorkerDeliver(w) \/ WorkerPurge(w) \/ WorkerEnqueue(w)
      BY <2>1 DEF WorkerStep
    <3>2. w.to \in Peers /\ w.msg \in Msgs
      BY DEF TypeOK, Worker
    <3>3. \/ arrived' = arrived
          \/ arrived' = [arrived EXCEPT ![w.to] = Append(@, w.msg)]
      BY <3>1 DEF WorkerDeliver, WorkerPurge, WorkerEnqueue
    <3>. QED  BY <3>2, <3>3 DEF TypeOK
  <2>2. CASE LoopTry
    <3>1. CASE LoopBreak
      BY <3>1 DEF LoopBreak
    <3>2. ASSUME NEW e \in Oldest(loop.items), LoopDeliver(e)
          PROVE  arrived'[p] = arrived[p] \/ \E m \in Msgs : arrived'[p] = Append(arrived[p], m)
      <4>1. loop.items \subseteq Entry
        BY <2>2 DEF TypeOK, LoopState, LoopTry
      <4>2. e.msg \in Msgs
        BY <3>2, <4>1 DEF Oldest, Entry
      <4>. QED  BY <3>2, <4>2 DEF LoopDeliver, TypeOK
    <3>. QED  BY <2>2, <3>1, <3>2 DEF LoopTry
  <2>3. CASE User \/ Network
    BY <2>3 DEF User, Network, SendText, SendEdit, SendKick, Start, DropQueue, PeerUp, PeerDown
  <2>4. CASE LoopStep /\ ~LoopTry
    BY <2>4 DEF LoopStep, LoopWake, LoopRemove, LoopFlush, LoopRest, LoopSkip, LoopTake
  <2>5. CASE UNCHANGED vars
    BY <2>5 DEF vars
  <2>. QED  BY <2>1, <2>2, <2>3, <2>4, <2>5 DEF Next
<1>2. arrived[p] \in Seq(Msgs)
  BY DEF TypeOK
<1>. QED  BY <1>1, <1>2, AppendProperties

\* A text is sent to those it is addressed to.
Addressed == \A p \in Peers, t \in Texts : TextMsg(t) \in issued[p] => p \in To[t]

LEMMA AddressedStep ==
  ASSUME TypeOK, Addressed, [Next]_vars
  PROVE  Addressed'
<1>1. CASE issued' = issued
  BY <1>1 DEF Addressed
<1>2. ASSUME NEW ps, NEW m, Start(ps, m),
             \A t \in Texts : m = TextMsg(t) => ps = To[t]
      PROVE  Addressed'
  BY <1>2 DEF Addressed, Start, TypeOK
<1>3. \A t, u, v : TextMsg(t) # EditMsg(u, v) /\ TextMsg(t) # KickMsg(u, v)
                   /\ (TextMsg(t) = TextMsg(u) => t = u)
  BY DEF TextMsg, EditMsg, KickMsg
<1>4. ASSUME NEW t \in Texts, SendText(t) PROVE Addressed'
  BY <1>2, <1>3, <1>4 DEF SendText
<1>5. ASSUME NEW t \in Texts, NEW v \in 1..MaxEdits, SendEdit(t, v) PROVE Addressed'
  BY <1>2, <1>3, <1>5 DEF SendEdit
<1>6. ASSUME NEW p \in Peers, NEW g \in Groups, NEW v \in 1..MaxKicks, SendKick(p, g, v) PROVE Addressed'
  BY <1>2, <1>3, <1>6 DEF SendKick
<1>7. CASE UNCHANGED vars
  BY <1>1, <1>7 DEF vars
<1>8. CASE WorkerStep
  BY <1>1, <1>8 DEF WorkerStep, WorkerDeliver, WorkerPurge, WorkerEnqueue
<1>9. CASE LoopStep
  BY <1>1, <1>9 DEF LoopStep, LoopWake, LoopTry, LoopRemove, LoopFlush, LoopRest, LoopSkip, LoopTake
<1>10. CASE Network \/ \E p \in Peers : DropQueue(p)
  BY <1>1, <1>10 DEF Network, DropQueue, PeerUp, PeerDown
<1>. QED  BY <1>4, <1>5, <1>6, <1>7, <1>8, <1>9, <1>10 DEF Next, User

-----------------------------------------------------------------------------
(* What the two ends know of each other.                                   *)

\* A window shows, in whatever form, only texts whose handler has run, and so it
\* is with what waits for the window, which has none of it yet.
ShownWasHandled ==
  \A p \in Peers, t \in Texts :
    /\ shown[p][t] # Absent => Dispatched(p, t)
    /\ t \in toShow[p] => Dispatched(p, t) /\ shown[p][t] = Absent

\* Some recipient's handler has run.
Seen(t) == \E p \in To[t] : Dispatched(p, t)

\* A tick that says delivered, or more, has one of them behind it.
TicksWereDispatched == \A t \in Texts : status[t] \in {"delivered", "read"} => Seen(t)

\* Receipts, on their way and posted, speak of texts that were passed on.
ReceiptsAreTrue ==
  /\ \A r \in receipts : Seen(r.text)
  /\ \A i \in DOMAIN events : events[i].type = "receipt" => Seen(events[i].text)

\* ConversationTypeOK, with what handled and lost are.
ConvTypes ==
  /\ status \in [Texts -> Ticks]
  /\ events \in Seq(Event)
  /\ failed \subseteq Texts /\ done \subseteq Texts
  /\ tomb \in [Texts -> BOOLEAN]
  /\ editing \in {{}} \cup {{t} : t \in Texts}
  /\ deletes \subseteq [to : Peers, text : Texts, at : {"worker", "peer"}]
  /\ receipts \subseteq [by : Peers, text : Texts, state : {"delivered", "read"}]
  /\ readSent \in [Peers -> SUBSET Texts] /\ toShow \in [Peers -> SUBSET Texts]
  /\ handled \in [Peers -> SUBSET Nat] /\ lost \in [Peers -> SUBSET Nat]
  /\ \A p \in Peers : handled[p] \cup lost[p] \subseteq DOMAIN arrived[p]
  /\ shown \in [Peers -> [Texts -> Views]]

\* The inductive invariant, over the queue's own.
ConvInv ==
  /\ ConvTypes
  /\ Addressed
  /\ ShownWasHandled
  /\ ReceiptsAreTrue
  /\ TicksWereDispatched

LEMMA ConvStarts == CInit => ConvInv
<1>. SUFFICES ASSUME CInit PROVE ConvInv
  OBVIOUS
<1>. USE DEF CInit, Init
<1>1. ConvTypes
  <2>1. status \in [Texts -> Ticks] /\ tomb \in [Texts -> BOOLEAN]
    BY DEF Ticks
  <2>2. shown \in [Peers -> [Texts -> Views]]
    BY ViewFacts
  <2>. QED  BY <2>1, <2>2 DEF ConvTypes
<1>2. Addressed
  BY DEF Addressed
<1>3. ShownWasHandled
  BY DEF ShownWasHandled
<1>4. ReceiptsAreTrue
  BY DEF ReceiptsAreTrue
<1>5. TicksWereDispatched
  BY DEF TicksWereDispatched
<1>. QED  BY <1>1, <1>2, <1>3, <1>4, <1>5 DEF ConvInv

\* Only the recipients' handlers touch what their windows show; what waits for a
\* window may die with its process.
LEMMA WindowsStay ==
  ASSUME ConvTypes, CNext, ~Recipients
  PROVE  UNCHANGED <<shown, handled>> /\ \A p \in Peers : toShow'[p] \subseteq toShow[p]
<1>1. CASE SenderThreads
  BY <1>1 DEF SenderThreads, Deliver, Purge, Enqueue, Report, TryDelete, cvars, peers
<1>2. CASE ServiceLoop
  BY <1>2 DEF ServiceLoop, LoopTries, LoopFlushes, OtherLoopStep, cvars, peers
<1>3. CASE HandleSignal \/ CancelEdit
  BY <1>3 DEF HandleSignal, CancelEdit, peers
<1>4. CASE \E t \in Texts : Post(t) \/ DeleteEveryone(t) \/ BeginEdit(t)
                              \/ \E v \in 1..MaxEdits : Edit(t, v)
  BY <1>4 DEF Post, DeleteEveryone, BeginEdit, Edit, peers
<1>5. CASE \E p \in Peers, t \in Texts : MarkRead(p, t)
  BY <1>5 DEF MarkRead
<1>6. CASE \E r \in receipts : SendReceipt(r) \/ LoseReceipt(r)
  BY <1>6 DEF SendReceipt, LoseReceipt
<1>7. CASE \E p \in Peers : PeerReturns(p)
  BY <1>7 DEF PeerReturns, cvars, peers
<1>8. ASSUME NEW q \in Peers, PeerLeaves(q)
      PROVE  UNCHANGED <<shown, handled>> /\ \A p \in Peers : toShow'[p] \subseteq toShow[p]
  <2>1. toShow' = toShow \/ toShow' = [toShow EXCEPT ![q] = {}]
    BY <1>8 DEF PeerLeaves
  <2>. QED  BY <1>8, <2>1 DEF PeerLeaves, ConvTypes
<1>. QED  BY <1>1, <1>2, <1>3, <1>4, <1>5, <1>6, <1>7, <1>8 DEF CNext

\* What a handler passed on stays passed on.
LEMMA DispatchedStays ==
  ASSUME IInv, ConvTypes, CNext, [Next]_vars, NEW p \in Peers
  PROVE  /\ handled[p] \subseteq handled'[p]
         /\ \A t \in Texts : Dispatched(p, t) => Dispatched(p, t)'
<1>1. handled[p] \subseteq handled'[p]
  <2>1. CASE ~Recipients
    BY <2>1, WindowsStay
  <2>2. ASSUME NEW q \in Peers, NEW i \in DOMAIN arrived[q], Handle(q, i)
        PROVE  handled[p] \subseteq handled'[p]
    BY <2>2 DEF Handle, ConvTypes
  <2>3. CASE \/ \E q \in Peers, t \in Texts : Show(q, t)
             \/ \E d \in deletes : HandleDelete(d)
    BY <2>3 DEF Show, HandleDelete
  <2>. QED  BY <2>1, <2>2, <2>3 DEF Recipients
<1>2. ASSUME NEW t \in Texts, Dispatched(p, t) PROVE Dispatched(p, t)'
  <2>1. PICK i \in handled[p] : arrived[p][i] = TextMsg(t)
    BY <1>2 DEF Dispatched
  <2>2. i \in DOMAIN arrived[p]
    BY <2>1 DEF ConvTypes
  <2>3. arrived'[p][i] = arrived[p][i]
    BY <2>2, ArrivedGrows DEF IInv
  <2>. QED  BY <1>1, <2>1, <2>3 DEF Dispatched, TextMsg
<1>. QED  BY <1>1, <1>2

\* What a window shows of a text does not go away, a deleted one is not revived,
\* and what appears waited for the window, whose text a handler passed on once:
\* no payload arrives twice.
LEMMA HandleStep ==
  ASSUME IInv, ConvInv, NEW p \in Peers, NEW i \in DOMAIN arrived[p], Handle(p, i),
         NEW q \in Peers, NEW t \in Texts
  PROVE  /\ shown[q][t] # Absent => shown'[q][t] # Absent
         /\ shown[q][t] = Deleted => shown'[q][t] = Deleted
         /\ shown'[q][t] # Absent => shown[q][t] # Absent
         /\ t \in toShow'[q] => \/ t \in toShow[q]
                                \/ q = p /\ arrived[p][i] = TextMsg(t) /\ shown[q][t] = Absent
         /\ shown' \in [Peers -> [Texts -> Views]]
<1>. USE ViewFacts, OutboxAssumption DEF ConvInv, ConvTypes
<1>1. PICK u \in Texts : HandleText(p, i, u) \/ HandleEdit(p, i, u)
  BY DEF Handle
<1>2. shown[p] \in [Texts -> Views] /\ shown[p][u] \in Views
  OBVIOUS
<1>3. CASE HandleText(p, i, u)
  <2>1. shown' = shown /\ toShow' = [toShow EXCEPT ![p] = @ \cup {u}] /\ arrived[p][i] = TextMsg(u)
    BY <1>3 DEF HandleText
  <2>2. shown[p][u] = Absent
    <3>1. SUFFICES ASSUME shown[p][u] # Absent PROVE FALSE
      OBVIOUS
    <3>2. PICK j \in handled[p] : arrived[p][j] = TextMsg(u)
      BY <3>1 DEF ShownWasHandled, Dispatched
    <3>3. j \in DOMAIN arrived[p]
      BY <3>2
    <3>4. i = j
      BY <2>1, <3>2, <3>3 DEF IInv, TakenAtMostOnce
    <3>. QED  BY <3>2, <3>4 DEF Handle
  <2>3. t \in toShow'[q] => t \in toShow[q] \/ (q = p /\ t = u)
    BY <2>1
  <2>. QED  BY <2>1, <2>2, <2>3
<1>4. CASE HandleEdit(p, i, u)
  <2>1. arrived[p][i].kind = "edit"
    BY <1>4 DEF HandleEdit
  <2>2. arrived[p] \in Seq(Msgs)
    BY DEF IInv, TypeOK
  <2>3. arrived[p][i] \in Msgs
    BY <2>2
  <2>4. arrived[p][i].ver \in 0..MaxEdits
    BY <2>1, <2>3 DEF Msgs, TextMsg, EditMsg, KickMsg
  <2>. DEFINE v == arrived[p][i].ver
  <2>5. v \in Views /\ v # Absent /\ v # Deleted
    BY <2>4, ViewFacts
  <2>6. /\ shown' = IF shown[p][u] \in {Absent, Deleted} THEN shown ELSE [shown EXCEPT ![p][u] = v]
        /\ toShow' = toShow
    BY <1>4 DEF HandleEdit
  <2>. HIDE DEF v
  <2>7. shown' \in [Peers -> [Texts -> Views]]
    BY <2>5, <2>6
  <2>8. shown'[q][t] = IF q = p /\ t = u /\ shown[p][u] \notin {Absent, Deleted} THEN v ELSE shown[q][t]
    BY <2>6
  <2>. QED  BY <2>5, <2>6, <2>7, <2>8
<1>. QED  BY <1>1, <1>3, <1>4

LEMMA ShowStep ==
  ASSUME ConvInv, NEW p \in Peers, NEW u \in Texts, Show(p, u), NEW q \in Peers, NEW t \in Texts
  PROVE  /\ shown[q][t] # Absent => shown'[q][t] # Absent
         /\ shown[q][t] = Deleted => shown'[q][t] = Deleted
         /\ shown'[q][t] # Absent => shown[q][t] # Absent \/ t \in toShow[q]
         /\ t \in toShow'[q] => t \in toShow[q] /\ shown'[q][t] = shown[q][t]
         /\ shown' \in [Peers -> [Texts -> Views]]
<1>0. shown \in [Peers -> [Texts -> Views]] /\ toShow \in [Peers -> SUBSET Texts] /\ ShownWasHandled
  BY DEF ConvInv, ConvTypes
<1>1. /\ u \in toShow[p] /\ shown' = [shown EXCEPT ![p][u] = 0]
      /\ toShow' = [toShow EXCEPT ![p] = @ \ {u}]
  BY DEF Show
<1>2. shown[p][u] = Absent
  BY <1>0, <1>1 DEF ShownWasHandled
<1>3. 0 \in Views /\ 0 # Absent /\ 0 # Deleted
  <2>1. 0 \in 0..MaxEdits
    BY OutboxAssumption
  <2>. QED  BY <2>1, ViewFacts
<1>4. shown' \in [Peers -> [Texts -> Views]]
  BY <1>0, <1>1, <1>3
<1>5. shown'[q][t] = IF q = p /\ t = u THEN 0 ELSE shown[q][t]
  BY <1>0, <1>1
<1>6. t \in toShow'[q] => t \in toShow[q] /\ ~(q = p /\ t = u)
  BY <1>0, <1>1
<1>. QED  BY <1>1, <1>2, <1>3, <1>4, <1>5, <1>6, ViewFacts

LEMMA HandleDeleteStep ==
  ASSUME ConvInv, NEW d \in deletes, HandleDelete(d), NEW q \in Peers, NEW t \in Texts
  PROVE  /\ shown[q][t] # Absent => shown'[q][t] # Absent
         /\ shown[q][t] = Deleted => shown'[q][t] = Deleted
         /\ shown'[q][t] # Absent => shown[q][t] # Absent
         /\ shown' \in [Peers -> [Texts -> Views]]
<1>. USE DEF ConvInv, ConvTypes
<1>1. d.to \in Peers /\ d.text \in Texts
  OBVIOUS
<1>2. shown' = IF shown[d.to][d.text] = Absent THEN shown ELSE [shown EXCEPT ![d.to][d.text] = Deleted]
  BY DEF HandleDelete
<1>3. shown' \in [Peers -> [Texts -> Views]]
  BY <1>1, <1>2, ViewFacts
<1>4. shown'[q][t] = IF q = d.to /\ t = d.text /\ shown[q][t] # Absent THEN Deleted ELSE shown[q][t]
  BY <1>1, <1>2
<1>. QED  BY <1>3, <1>4, ViewFacts

LEMMA ShownStep ==
  ASSUME IInv, ConvInv, CNext, [Next]_vars
  PROVE  /\ \A p \in Peers, t \in Texts :
              /\ shown[p][t] # Absent => shown'[p][t] # Absent
              /\ shown[p][t] = Deleted => shown'[p][t] = Deleted
         /\ shown' \in [Peers -> [Texts -> Views]]
         /\ ShownWasHandled'
<1>. DEFINE Kept(p, t) ==
       /\ shown[p][t] # Absent => shown'[p][t] # Absent
       /\ shown[p][t] = Deleted => shown'[p][t] = Deleted
       /\ shown'[p][t] # Absent => shown[p][t] # Absent \/ t \in toShow[p]
       /\ t \in toShow'[p] => /\ t \in toShow[p] \/ Dispatched(p, t)'
                              /\ shown'[p][t] = Absent
     Typed == shown' \in [Peers -> [Texts -> Views]]
<1>0. /\ ConvTypes /\ ShownWasHandled /\ shown \in [Peers -> [Texts -> Views]]
      /\ handled \in [Peers -> SUBSET Nat]
  BY DEF ConvInv, ConvTypes
<1>1. ASSUME ~Recipients PROVE Typed
  <2>1. UNCHANGED shown
    BY <1>0, <1>1, WindowsStay
  <2>. QED  BY <1>0, <2>1
<1>2. ASSUME NEW q \in Peers, NEW i \in DOMAIN arrived[q], Handle(q, i), NEW p \in Peers, NEW t \in Texts
      PROVE  Kept(p, t) /\ Typed
  <2>1. arrived' = arrived /\ handled' = [handled EXCEPT ![q] = @ \cup {i}]
    BY <1>2 DEF Handle, vars
  <2>2. i \in handled'[q]
    BY <1>0, <2>1
  <2>3. q = p /\ arrived[q][i] = TextMsg(t) => Dispatched(p, t)'
    BY <2>1, <2>2 DEF Dispatched, TextMsg
  <2>4. t \in toShow[p] => shown[p][t] = Absent
    BY <1>0 DEF ShownWasHandled
  <2>. HIDE DEF ConvTypes
  <2>5. /\ shown[p][t] # Absent => shown'[p][t] # Absent
        /\ shown[p][t] = Deleted => shown'[p][t] = Deleted
        /\ shown'[p][t] # Absent => shown[p][t] # Absent
        /\ t \in toShow'[p] => \/ t \in toShow[p]
                               \/ p = q /\ arrived[q][i] = TextMsg(t) /\ shown[p][t] = Absent
        /\ shown' \in [Peers -> [Texts -> Views]]
    BY <1>2, HandleStep
  <2>. QED  BY <2>3, <2>4, <2>5
<1>3. ASSUME NEW q \in Peers, NEW u \in Texts, Show(q, u), NEW p \in Peers, NEW t \in Texts
      PROVE  Kept(p, t) /\ Typed
  <2>1. t \in toShow[p] => shown[p][t] = Absent
    BY <1>0 DEF ShownWasHandled
  <2>. QED  BY <1>3, <2>1, ShowStep
<1>4. ASSUME NEW d \in deletes, HandleDelete(d), NEW p \in Peers, NEW t \in Texts
      PROVE  Kept(p, t) /\ Typed
  <2>1. toShow' = toShow
    BY <1>4 DEF HandleDelete
  <2>2. t \in toShow[p] => shown[p][t] = Absent
    BY <1>0 DEF ShownWasHandled
  <2>. QED  BY <1>4, <2>1, <2>2, HandleDeleteStep
<1>5. Typed
  <2>1. CASE ~Recipients
    BY <1>1, <2>1
  <2>2. CASE Recipients /\ (Peers = {} \/ Texts = {})
    BY <1>0, <2>2 DEF Recipients, ConvTypes, Handle
  <2>3. CASE Recipients /\ Peers # {} /\ Texts # {}
    <3>1. PICK p \in Peers, t \in Texts : TRUE
      BY <2>3
    <3>. HIDE DEF Typed
    <3>. QED  BY <1>2, <1>3, <1>4, <2>3, <3>1 DEF Recipients
  <2>. QED  BY <2>1, <2>2, <2>3
<1>6. ASSUME NEW p \in Peers, NEW t \in Texts PROVE Kept(p, t)
  <2>1. CASE ~Recipients
    <3>1. UNCHANGED <<shown, handled>> /\ \A q \in Peers : toShow'[q] \subseteq toShow[q]
      BY <1>0, <2>1, WindowsStay
    <3>. QED  BY <1>0, <3>1 DEF ShownWasHandled
  <2>. HIDE DEF Kept
  <2>2. CASE Recipients
    BY <1>2, <1>3, <1>4, <2>2 DEF Recipients
  <2>. QED  BY <2>1, <2>2
<1>7. ASSUME NEW p \in Peers, NEW t \in Texts
      PROVE  /\ shown'[p][t] # Absent => Dispatched(p, t)'
             /\ t \in toShow'[p] => Dispatched(p, t)' /\ shown'[p][t] = Absent
  <2>1. shown[p][t] # Absent \/ t \in toShow[p] => Dispatched(p, t)
    BY <1>0 DEF ShownWasHandled
  <2>2. Dispatched(p, t) => Dispatched(p, t)'
    BY <1>0, DispatchedStays
  <2>. QED  BY <1>6, <2>1, <2>2
<1>8. ShownWasHandled'
  BY <1>7 DEF ShownWasHandled, Absent
<1>. QED  BY <1>5, <1>6, <1>8

\* What is posted is a signal behind the others; what is handled was posted.
LEMMA SignalPosted ==
  ASSUME events \in Seq(Event), NEW e \in Event, events' = Append(events, e)
  PROVE  /\ events' \in Seq(Event)
         /\ \A i \in DOMAIN events' : events'[i] = e \/ (i \in DOMAIN events /\ events'[i] = events[i])
<1>1. events' \in Seq(Event)
  BY AppendProperties
<1>. QED  BY <1>1, AppendProperties

LEMMA SignalHandled ==
  ASSUME events \in Seq(Event), events # <<>>, events' = Tail(events)
  PROVE  /\ events' \in Seq(Event) /\ Head(events) \in Event
         /\ 1 \in DOMAIN events /\ Head(events) = events[1]
         /\ \A i \in DOMAIN events' : i + 1 \in DOMAIN events /\ events'[i] = events[i + 1]
<1>1. /\ events' \in Seq(Event) /\ Len(events') = Len(events) - 1 /\ Len(events) \in Nat \ {0}
      /\ \A i \in 1..Len(events') : events'[i] = events[i + 1]
      /\ Head(events) = events[1]
  BY HeadTailProperties
<1>. QED  BY <1>1

\* Who has a text in hand is one of those it is addressed to.
LEMMA TextReached ==
  ASSUME IInv, Addressed, NEW p \in Peers, NEW t \in Texts, NEW i \in DOMAIN arrived[p],
         arrived[p][i] = TextMsg(t)
  PROVE  p \in To[t]
<1>1. TextMsg(t) \in Range(arrived[p])
  BY DEF Range
<1>. QED  BY <1>1 DEF IInv, ArrivedWasIssued, Addressed

\* Receipts are made of what a handler passed on, which is so for good.
LEMMA ReceiptsStep ==
  ASSUME IInv, ConvInv, CNext, [Next]_vars
  PROVE  ReceiptsAreTrue' /\ \A t \in Texts : Seen(t) => Seen(t)'
<1>0. /\ events \in Seq(Event) /\ done \subseteq Texts
      /\ receipts \subseteq [by : Peers, text : Texts, state : {"delivered", "read"}]
      /\ \A p \in Peers : handled[p] \subseteq DOMAIN arrived[p]
      /\ shown \in [Peers -> [Texts -> Views]]
      /\ Addressed /\ ShownWasHandled /\ ReceiptsAreTrue
  BY DEF ConvInv, ConvTypes
<1>1. \A t \in Texts : Seen(t) => Seen(t)'
  BY DispatchedStays, OutboxAssumption DEF Seen, ConvInv
<1>. SUFFICES ReceiptsAreTrue'
  BY <1>1
<1>2. \A r \in receipts : r.by \in Peers /\ r.text \in Texts
  BY <1>0
<1>3. \A i \in DOMAIN events : events[i] \in Event
  BY <1>0
<1>4. \A e \in Event : e.type = "receipt" => e.text \in Texts
  BY DEF Event
<1>5. ASSUME receipts' \subseteq receipts, events' = events
      PROVE  ReceiptsAreTrue'
  BY <1>0, <1>1, <1>2, <1>3, <1>4, <1>5 DEF ReceiptsAreTrue
<1>6. ASSUME NEW e \in Event, e.type # "receipt", events' = Append(events, e), receipts' = receipts
      PROVE  ReceiptsAreTrue'
  BY <1>0, <1>1, <1>2, <1>3, <1>4, <1>6, SignalPosted DEF ReceiptsAreTrue
<1>7. CASE SenderThreads
  <2>1. ASSUME NEW t \in Texts, Report(t) PROVE ReceiptsAreTrue'
    <3>1. [type |-> "queued", text |-> t] \in Event
      BY DEF Event
    <3>2. events' = Append(events, [type |-> "queued", text |-> t]) /\ receipts' = receipts
      BY <2>1 DEF Report, peers
    <3>. QED  BY <1>6, <3>1, <3>2
  <2>2. CASE \E w \in work : Deliver(w) \/ Purge(w) \/ Enqueue(w)
    <3>1. receipts' = receipts /\ events' = events
      BY <2>2 DEF Deliver, Purge, Enqueue, cvars, sender, peers
    <3>. QED  BY <1>5, <3>1
  <2>3. CASE \E d \in deletes : TryDelete(d)
    <3>1. receipts' = receipts /\ events' = events
      BY <2>3 DEF TryDelete, sender
    <3>. QED  BY <1>5, <3>1
  <2>. QED  BY <1>7, <2>1, <2>2, <2>3 DEF SenderThreads
<1>8. CASE ServiceLoop
  <2>1. CASE LoopFlushes
    <3>1. [type |-> "flush", texts |-> done] \in Event
      BY <1>0 DEF Event
    <3>2. (events' = events \/ events' = Append(events, [type |-> "flush", texts |-> done]))
          /\ receipts' = receipts
      BY <2>1 DEF LoopFlushes, peers
    <3>. QED  BY <1>5, <1>6, <3>1, <3>2
  <2>2. CASE LoopTries \/ OtherLoopStep
    <3>1. receipts' = receipts /\ events' = events
      BY <2>2 DEF LoopTries, OtherLoopStep, cvars, sender, peers
    <3>. QED  BY <1>5, <3>1
  <2>. QED  BY <1>8, <2>1, <2>2 DEF ServiceLoop
<1>9. CASE HandleSignal
  <2>1. events # <<>> /\ events' = Tail(events) /\ receipts' = receipts
    BY <1>9 DEF HandleSignal, peers
  <2>. QED  BY <1>0, <1>1, <1>2, <1>3, <1>4, <2>1, SignalHandled DEF ReceiptsAreTrue
<1>10. CASE CancelEdit \/ \E t \in Texts : Post(t) \/ DeleteEveryone(t) \/ BeginEdit(t)
                              \/ \E v \in 1..MaxEdits : Edit(t, v)
  <2>1. receipts' = receipts /\ events' = events
    BY <1>10 DEF CancelEdit, Post, DeleteEveryone, BeginEdit, Edit, peers
  <2>. QED  BY <1>5, <2>1
<1>11. ASSUME NEW p \in Peers, NEW t \in Texts, p \in To[t], Dispatched(p, t)',
              \A r \in receipts' : r \in receipts \/ r.text = t, events' = events
       PROVE  ReceiptsAreTrue'
  <2>1. Seen(t)'
    BY <1>11, OutboxAssumption DEF Seen
  <2>. QED  BY <1>0, <1>1, <1>2, <1>3, <1>4, <1>11, <2>1 DEF ReceiptsAreTrue
<1>12. CASE Recipients
  <2>1. ASSUME NEW p \in Peers, NEW i \in DOMAIN arrived[p], Handle(p, i) PROVE ReceiptsAreTrue'
    <3>1. events' = events
      BY <2>1 DEF Handle, sender
    <3>2. PICK t \in Texts : HandleText(p, i, t) \/ HandleEdit(p, i, t)
      BY <2>1 DEF Handle
    <3>3. CASE HandleText(p, i, t)
      <4>1. p \in To[t]
        BY <1>0, <3>3, TextReached DEF HandleText
      <4>2. Dispatched(p, t)'
        <5>1. i \in handled'[p] /\ arrived' = arrived /\ arrived[p][i] = TextMsg(t)
          BY <2>1, <3>3 DEF Handle, HandleText, vars, ConvInv, ConvTypes
        <5>. QED  BY <5>1 DEF Dispatched, TextMsg
      <4>3. \A r \in receipts' : r \in receipts \/ r.text = t
        BY <3>3 DEF HandleText
      <4>. QED  BY <1>11, <3>1, <4>1, <4>2, <4>3
    <3>4. CASE HandleEdit(p, i, t)
      BY <1>5, <3>1, <3>4 DEF HandleEdit
    <3>. QED  BY <3>2, <3>3, <3>4
  <2>2. CASE \/ \E p \in Peers, t \in Texts : Show(p, t)
             \/ \E d \in deletes : HandleDelete(d)
    <3>1. receipts' = receipts /\ events' = events
      BY <2>2 DEF Show, HandleDelete, sender
    <3>. QED  BY <1>5, <3>1
  <2>. QED  BY <1>12, <2>1, <2>2 DEF Recipients
<1>13. ASSUME NEW p \in Peers, NEW t \in Texts, MarkRead(p, t) PROVE ReceiptsAreTrue'
  <2>1. shown[p][t] # Absent /\ events' = events
    BY <1>13 DEF MarkRead, sender
  <2>. Dispatched(p, t)
    BY <1>0, <2>1 DEF ShownWasHandled
  <2>2. PICK i \in handled[p] : arrived[p][i] = TextMsg(t)
    BY DEF Dispatched
  <2>3. i \in DOMAIN arrived[p]
    BY <1>0, <2>2
  <2>4. p \in To[t]
    BY <1>0, <2>2, <2>3, TextReached
  <2>5. \A r \in receipts' : r \in receipts \/ r.text = t
    BY <1>13 DEF MarkRead
  <2>6. Dispatched(p, t)'
    BY DispatchedStays DEF ConvInv
  <2>. QED  BY <1>11, <2>1, <2>4, <2>5, <2>6
<1>14. ASSUME NEW r \in receipts, SendReceipt(r) PROVE ReceiptsAreTrue'
  <2>. DEFINE e == [type |-> "receipt", text |-> r.text, state |-> r.state]
  <2>1. e \in Event /\ e.text = r.text
    BY <1>0 DEF Event
  <2>2. events' = Append(events, e) /\ receipts' \subseteq receipts
    BY <1>14 DEF SendReceipt
  <2>. HIDE DEF e
  <2>3. Seen(r.text)' /\ r.text \in Texts
    BY <1>0, <1>1, <1>2 DEF ReceiptsAreTrue
  <2>4. \A i \in DOMAIN events' : events'[i] = e \/ (i \in DOMAIN events /\ events'[i] = events[i])
    BY <1>0, <2>1, <2>2, SignalPosted
  <2>5. ASSUME NEW i \in DOMAIN events', events'[i].type = "receipt", NEW t, t = events'[i].text
        PROVE  Seen(t)'
    <3>1. CASE events'[i] = e
      BY <2>1, <2>3, <2>5, <3>1
    <3>2. CASE i \in DOMAIN events /\ events'[i] = events[i]
      BY <1>0, <1>1, <1>3, <1>4, <2>5, <3>2 DEF ReceiptsAreTrue
    <3>. QED  BY <2>4, <2>5, <3>1, <3>2
  <2>6. ASSUME NEW x \in receipts', NEW t, t = x.text
        PROVE  Seen(t)'
    BY <1>0, <1>1, <1>2, <2>2, <2>6 DEF ReceiptsAreTrue
  <2>. QED  BY <2>5, <2>6 DEF ReceiptsAreTrue, Seen, Dispatched, TextMsg
<1>15. CASE \/ \E r \in receipts : LoseReceipt(r)
            \/ \E p \in Peers : PeerReturns(p) \/ PeerLeaves(p)
  <2>1. receipts' \subseteq receipts /\ events' = events
    BY <1>15 DEF LoseReceipt, PeerReturns, PeerLeaves, cvars, sender, peers
  <2>. QED  BY <1>5, <2>1
<1>. QED  BY <1>7, <1>8, <1>9, <1>10, <1>12, <1>13, <1>14, <1>15 DEF CNext

LEMMA EventFacts ==
  ASSUME NEW e \in Event
  PROVE  /\ e.type = "queued" => e.text \in Texts
         /\ e.type = "receipt" => e.text \in Texts /\ e.state \in {"delivered", "read"}
BY DEF Event

\* Only sending and the GUI thread change ticks; what is sent shows "sent".
LEMMA StatusKept ==
  ASSUME CNext, ~HandleSignal
  PROVE  status' = status \/ \E t \in Texts : Post(t)
<1>. SUFFICES ASSUME ~\E t \in Texts : Post(t) PROVE status' = status
  OBVIOUS
<1>1. CASE SenderThreads
  BY <1>1 DEF SenderThreads, Deliver, Purge, Enqueue, Report, TryDelete, cvars, sender
<1>2. CASE ServiceLoop
  BY <1>2 DEF ServiceLoop, LoopTries, LoopFlushes, OtherLoopStep, cvars, sender
<1>3. CASE CancelEdit \/ \E t \in Texts : DeleteEveryone(t) \/ BeginEdit(t)
                                \/ \E v \in 1..MaxEdits : Edit(t, v)
  BY <1>3 DEF CancelEdit, DeleteEveryone, BeginEdit, Edit
<1>4. CASE Recipients
  BY <1>4 DEF Recipients, Handle, Show, HandleDelete, sender
<1>5. CASE \E p \in Peers, t \in Texts : MarkRead(p, t)
  BY <1>5 DEF MarkRead, sender
<1>6. CASE \E r \in receipts : SendReceipt(r) \/ LoseReceipt(r)
  BY <1>6 DEF SendReceipt, LoseReceipt, sender
<1>7. CASE \E p \in Peers : PeerReturns(p) \/ PeerLeaves(p)
  BY <1>7 DEF PeerReturns, PeerLeaves, cvars, sender
<1>. QED  BY <1>1, <1>2, <1>3, <1>4, <1>5, <1>6, <1>7 DEF CNext

\* A tick rises, and becomes delivered or read only on a handler's evidence.
LEMMA StatusStep ==
  ASSUME IInv, ConvInv, CNext
  PROVE  /\ status' \in [Texts -> Ticks]
         /\ \A t \in Texts :
              /\ Order[status'[t]] >= Order[status[t]]
              /\ status'[t] \in {"delivered", "read"} => status[t] \in {"delivered", "read"} \/ Seen(t)
<1>0. /\ status \in [Texts -> Ticks] /\ events \in Seq(Event) /\ Private \subseteq Texts
      /\ \A p \in Peers : handled[p] \subseteq DOMAIN arrived[p]
      /\ ReceiptsAreTrue /\ TicksWereDispatched
  BY ConversationAssumption DEF ConvInv, ConvTypes
<1>1. CASE status' = status
  BY <1>0, <1>1, OrderFacts
<1>2. ASSUME NEW t \in Texts, Post(t)
      PROVE  /\ status' \in [Texts -> Ticks]
             /\ \A u \in Texts :
                  /\ Order[status'[u]] >= Order[status[u]]
                  /\ status'[u] \in {"delivered", "read"} => status[u] \in {"delivered", "read"} \/ Seen(u)
  <2>1. status[t] \notin {"delivered", "read"}
    <3>1. SUFFICES ASSUME status[t] \in {"delivered", "read"} PROVE FALSE
      OBVIOUS
    <3>2. PICK p \in To[t] : Dispatched(p, t)
      BY <1>0, <3>1 DEF TicksWereDispatched, Seen
    <3>3. p \in Peers
      BY OutboxAssumption
    <3>4. PICK i \in handled[p] : arrived[p][i] = TextMsg(t)
      BY <3>2 DEF Dispatched
    <3>5. TextMsg(t) \in Range(arrived[p])
      BY <1>0, <3>3, <3>4 DEF Range
    <3>6. TextMsg(t) \in issued[p]
      BY <3>3, <3>5 DEF IInv, ArrivedWasIssued
    <3>. QED  BY <1>2, <3>6 DEF Post, SendText, Start
  <2>2. status' = [status EXCEPT ![t] = "sent"] /\ "sent" \in Ticks
    BY <1>2 DEF Post, Ticks
  <2>3. Order[status[t]] = 0 /\ Order["sent"] = 0
    BY <1>0, <2>1, <2>2, OrderFacts
  <2>4. status' \in [Texts -> Ticks]
    BY <1>0, <2>2
  <2>5. ASSUME NEW u \in Texts
        PROVE  /\ Order[status'[u]] >= Order[status[u]]
               /\ status'[u] \in {"delivered", "read"} => status[u] \in {"delivered", "read"}
    <3>1. CASE u = t
      BY <1>0, <2>2, <2>3, <3>1
    <3>2. CASE u # t
      BY <1>0, <2>2, <3>2, OrderFacts
    <3>. QED  BY <3>1, <3>2
  <2>. QED  BY <2>4, <2>5
<1>3. ASSUME HandleSignal
      PROVE  /\ status' \in [Texts -> Ticks]
             /\ \A u \in Texts :
                  /\ Order[status'[u]] >= Order[status[u]]
                  /\ status'[u] \in {"delivered", "read"} => status[u] \in {"delivered", "read"} \/ Seen(u)
  <2>1. /\ Head(events) \in Event /\ 1 \in DOMAIN events /\ Head(events) = events[1]
    BY <1>0, <1>3, SignalHandled DEF HandleSignal
  <2>2. PICK e \in Event : e = events[1] /\ (OnQueued(e) \/ OnQueueFlush(e) \/ OnReceipt(e))
    BY <1>3, <2>1 DEF HandleSignal
  <2>3. CASE OnQueued(e)
    <3>1. e.text \in Texts /\ "queued" \in Ticks
      BY <2>3, EventFacts DEF OnQueued, Ticks
    <3>2. CASE status[e.text] \in {"delivered", "read"}
      BY <1>1, <2>3, <3>2 DEF OnQueued
    <3>3. CASE status[e.text] \notin {"delivered", "read"}
      <4>1. status' = [status EXCEPT ![e.text] = "queued"]
        BY <2>3, <3>3 DEF OnQueued
      <4>2. Order[status[e.text]] = 0 /\ Order["queued"] = 0
        BY <1>0, <3>1, <3>3, OrderFacts
      <4>3. \A u \in Texts : status'[u] = IF u = e.text THEN "queued" ELSE status[u]
        BY <1>0, <3>1, <4>1
      <4>4. status' \in [Texts -> Ticks]
        BY <1>0, <3>1, <4>1
      <4>. QED  BY <1>0, <4>2, <4>3, <4>4, OrderFacts
    <3>. QED  BY <3>2, <3>3
  <2>4. CASE OnQueueFlush(e)
    <3>1. \A u \in Texts : status'[u] = status[u] \/ (status[u] = "queued" /\ status'[u] = "sent")
      BY <2>4 DEF OnQueueFlush
    <3>2. Order["queued"] = 0 /\ Order["sent"] = 0 /\ "sent" \in Ticks
      BY OrderFacts DEF Ticks
    <3>3. status' = [u \in Texts |-> status'[u]]
      BY <2>4 DEF OnQueueFlush
    <3>4. status' \in [Texts -> Ticks]
      BY <1>0, <3>1, <3>2, <3>3
    <3>. QED  BY <1>0, <3>1, <3>2, <3>4, OrderFacts
  <2>5. CASE OnReceipt(e)
    <3>1. e.type = "receipt" /\ e.text \in Texts /\ e.state \in {"delivered", "read"} /\ Seen(e.text)
      BY <1>0, <2>1, <2>2, <2>5, EventFacts DEF OnReceipt, ReceiptsAreTrue
    <3>2. e.state \in Ticks
      BY <3>1 DEF Ticks
    <3>3. status' = status \/ (Order[e.state] > Order[status[e.text]]
                               /\ status' = [status EXCEPT ![e.text] = e.state])
      BY <2>5 DEF OnReceipt
    <3>4. CASE Order[e.state] > Order[status[e.text]] /\ status' = [status EXCEPT ![e.text] = e.state]
      <4>1. \A u \in Texts : status'[u] = IF u = e.text THEN e.state ELSE status[u]
        BY <1>0, <3>1, <3>4
      <4>2. status' \in [Texts -> Ticks]
        BY <1>0, <3>1, <3>2, <3>4
      <4>3. \A u \in Texts : Order[status[u]] \in 0..2 /\ Order[status'[u]] \in 0..2
        BY <1>0, <4>2, OrderFacts
      <4>. QED  BY <1>0, <3>1, <3>4, <4>1, <4>2, <4>3
    <3>. QED  BY <1>1, <3>3, <3>4
  <2>. QED  BY <2>2, <2>3, <2>4, <2>5
<1>4. ASSUME ~HandleSignal, ~\E t \in Texts : Post(t) PROVE status' = status
  BY <1>4, StatusKept
<1>. QED  BY <1>1, <1>2, <1>3, <1>4

LEMMA TextIds ==
  ASSUME NEW m \in Msgs, m.kind = "text"
  PROVE  m.id \in Texts
BY DEF Msgs, TextMsg, EditMsg, KickMsg

\* The types of the sender's window and of its signals.
LEMMA SenderTypes ==
  ASSUME TypeOK, TypeOK', ConvTypes, CNext
  PROVE  /\ events' \in Seq(Event)
         /\ failed' \subseteq Texts /\ done' \subseteq Texts
         /\ tomb' \in [Texts -> BOOLEAN]
         /\ editing' \in {{}} \cup {{t} : t \in Texts}
<1>0. /\ events \in Seq(Event) /\ failed \subseteq Texts /\ done \subseteq Texts
      /\ tomb \in [Texts -> BOOLEAN] /\ editing \in {{}} \cup {{t} : t \in Texts}
  BY DEF ConvTypes
<1>1. CASE \E w \in work : Deliver(w) \/ Purge(w)
  BY <1>0, <1>1 DEF Deliver, Purge, cvars, sender
<1>2. ASSUME NEW w \in work, Enqueue(w)
      PROVE  failed' \subseteq Texts /\ UNCHANGED <<events, done, tomb, editing>>
  <2>1. w.msg \in Msgs
    BY DEF TypeOK, Worker
  <2>. QED  BY <1>0, <1>2, <2>1, TextIds DEF Enqueue
<1>3. ASSUME NEW t \in Texts, Report(t)
      PROVE  events' \in Seq(Event) /\ failed' \subseteq Texts /\ UNCHANGED <<done, tomb, editing>>
  <2>1. [type |-> "queued", text |-> t] \in Event
    BY DEF Event
  <2>. QED  BY <1>0, <1>3, <2>1, SignalPosted DEF Report
<1>4. CASE \E d \in deletes : TryDelete(d)
  BY <1>0, <1>4 DEF TryDelete, sender
<1>5. ASSUME LoopTries
      PROVE  done' \subseteq Texts /\ UNCHANGED <<events, failed, tomb, editing>>
  <2>1. ASSUME loop'.pc = "remove" PROVE loop'.now.msg \in Msgs
    BY <2>1 DEF TypeOK, LoopState, Entry
  <2>. QED  BY <1>0, <1>5, <2>1, TextIds DEF LoopTries
<1>6. ASSUME LoopFlushes
      PROVE  events' \in Seq(Event) /\ done' \subseteq Texts /\ UNCHANGED <<failed, tomb, editing>>
  <2>1. [type |-> "flush", texts |-> done] \in Event
    BY <1>0 DEF Event
  <2>. QED  BY <1>0, <1>6, <2>1, SignalPosted DEF LoopFlushes
<1>7. CASE OtherLoopStep
  BY <1>0, <1>7 DEF OtherLoopStep, cvars, sender
<1>8. CASE HandleSignal
  BY <1>0, <1>8, SignalHandled DEF HandleSignal
<1>9. CASE CancelEdit
  BY <1>0, <1>9 DEF CancelEdit
<1>10. CASE \E t \in Texts : Post(t) \/ BeginEdit(t) \/ \E v \in 1..MaxEdits : Edit(t, v)
  BY <1>0, <1>10 DEF Post, BeginEdit, Edit
<1>11. ASSUME NEW t \in Texts, DeleteEveryone(t)
       PROVE  tomb' \in [Texts -> BOOLEAN] /\ UNCHANGED <<events, failed, done, editing>>
  <2>1. TRUE \in BOOLEAN /\ tomb' = [tomb EXCEPT ![t] = TRUE]
    BY <1>11 DEF DeleteEveryone
  <2>. QED  BY <1>0, <1>11, <2>1 DEF DeleteEveryone
<1>12. CASE Recipients
  BY <1>0, <1>12 DEF Recipients, Handle, Show, HandleDelete, sender
<1>13. CASE \E p \in Peers, t \in Texts : MarkRead(p, t)
  BY <1>0, <1>13 DEF MarkRead, sender
<1>14. ASSUME NEW r \in receipts, SendReceipt(r)
       PROVE  events' \in Seq(Event) /\ UNCHANGED <<failed, done, tomb, editing>>
  <2>1. [type |-> "receipt", text |-> r.text, state |-> r.state] \in Event
    BY DEF ConvTypes, Event
  <2>. QED  BY <1>0, <1>14, <2>1, SignalPosted DEF SendReceipt
<1>15. CASE \/ \E r \in receipts : LoseReceipt(r)
            \/ \E p \in Peers : PeerReturns(p) \/ PeerLeaves(p)
  BY <1>0, <1>15 DEF LoseReceipt, PeerReturns, PeerLeaves, cvars, sender
<1>. QED  BY <1>0, <1>1, <1>2, <1>3, <1>4, <1>5, <1>6, <1>7, <1>8, <1>9, <1>10, <1>11, <1>12, <1>13, <1>14, <1>15
          DEF CNext, SenderThreads, ServiceLoop

\* The types of what is with the recipients.
LEMMA PeerTypes ==
  ASSUME TypeOK, ConvTypes, CNext, [Next]_vars
  PROVE  /\ deletes' \subseteq [to : Peers, text : Texts, at : {"worker", "peer"}]
         /\ receipts' \subseteq [by : Peers, text : Texts, state : {"delivered", "read"}]
         /\ readSent' \in [Peers -> SUBSET Texts] /\ toShow' \in [Peers -> SUBSET Texts]
         /\ handled' \in [Peers -> SUBSET Nat] /\ lost' \in [Peers -> SUBSET Nat]
         /\ \A p \in Peers : handled'[p] \cup lost'[p] \subseteq DOMAIN arrived'[p]
<1>. DEFINE D == [to : Peers, text : Texts, at : {"worker", "peer"}]
            R == [by : Peers, text : Texts, state : {"delivered", "read"}]
            Goal == /\ deletes' \subseteq D /\ receipts' \subseteq R
                    /\ readSent' \in [Peers -> SUBSET Texts] /\ toShow' \in [Peers -> SUBSET Texts]
                    /\ handled' \in [Peers -> SUBSET Nat] /\ lost' \in [Peers -> SUBSET Nat]
                    /\ \A p \in Peers : handled'[p] \cup lost'[p] \subseteq DOMAIN arrived[p]
<1>0. /\ deletes \subseteq D /\ receipts \subseteq R /\ readSent \in [Peers -> SUBSET Texts]
      /\ toShow \in [Peers -> SUBSET Texts]
      /\ handled \in [Peers -> SUBSET Nat] /\ lost \in [Peers -> SUBSET Nat]
      /\ \A p \in Peers : handled[p] \cup lost[p] \subseteq DOMAIN arrived[p]
  BY DEF ConvTypes
<1>1. \A p \in Peers : DOMAIN arrived[p] \subseteq DOMAIN arrived'[p]
  BY ArrivedGrows
<1>2. \A p \in Peers : DOMAIN arrived[p] \subseteq Nat
  <2>1. \A p \in Peers : arrived[p] \in Seq(Msgs)
    BY DEF TypeOK
  <2>. QED  BY <2>1
<1>. SUFFICES Goal
  BY <1>1
<1>3. CASE UNCHANGED peers
  BY <1>0, <1>3 DEF peers
<1>4. ASSUME NEW t \in Texts, DeleteEveryone(t) PROVE Goal
  <2>1. [to : To[t], text : {t}, at : {"worker"}] \subseteq D
    BY OutboxAssumption
  <2>2. deletes' = deletes \cup [to : To[t], text : {t}, at : {"worker"}]
        /\ UNCHANGED <<receipts, readSent, handled, toShow, lost>>
    BY <1>4 DEF DeleteEveryone
  <2>. QED  BY <1>0, <2>1, <2>2
<1>5. ASSUME NEW d \in deletes, TryDelete(d) PROVE Goal
  <2>1. [d EXCEPT !.at = "peer"] \in D
    BY <1>0
  <2>2. deletes' \subseteq deletes \cup {[d EXCEPT !.at = "peer"]}
        /\ UNCHANGED <<receipts, readSent, handled, toShow, lost>>
    BY <1>5 DEF TryDelete
  <2>. QED  BY <1>0, <2>1, <2>2
<1>6. ASSUME NEW p \in Peers, NEW i \in DOMAIN arrived[p], Handle(p, i) PROVE Goal
  <2>1. handled' = [handled EXCEPT ![p] = @ \cup {i}] /\ UNCHANGED <<deletes, readSent, lost>>
    BY <1>6 DEF Handle
  <2>2. PICK t \in Texts : HandleText(p, i, t) \/ HandleEdit(p, i, t)
    BY <1>6 DEF Handle
  <2>3. [by |-> p, text |-> t, state |-> "delivered"] \in R
    OBVIOUS
  <2>4. receipts' \subseteq receipts \cup {[by |-> p, text |-> t, state |-> "delivered"]}
    BY <2>2 DEF HandleText, HandleEdit
  <2>5. receipts' \subseteq R /\ toShow' \in [Peers -> SUBSET Texts]
    BY <1>0, <2>2, <2>3, <2>4 DEF HandleText, HandleEdit
  <2>6. handled' \in [Peers -> SUBSET Nat]
        /\ \A q \in Peers : handled'[q] = IF q = p THEN handled[q] \cup {i} ELSE handled[q]
    BY <1>0, <1>2, <2>1
  <2>. QED  BY <1>0, <2>1, <2>5, <2>6
<1>7. ASSUME NEW d \in deletes, HandleDelete(d) PROVE Goal
  BY <1>0, <1>7 DEF HandleDelete
<1>8. ASSUME NEW p \in Peers, NEW t \in Texts, MarkRead(p, t) PROVE Goal
  <2>1. [by |-> p, text |-> t, state |-> "read"] \in R
    OBVIOUS
  <2>2. /\ readSent' = [readSent EXCEPT ![p] = @ \cup {t}]
        /\ receipts' = receipts \cup {[by |-> p, text |-> t, state |-> "read"]}
        /\ UNCHANGED <<deletes, handled, toShow, lost>>
    BY <1>8 DEF MarkRead
  <2>3. readSent' \in [Peers -> SUBSET Texts]
    BY <1>0, <2>2
  <2>. QED  BY <1>0, <2>1, <2>2, <2>3
<1>9. ASSUME NEW r \in receipts, SendReceipt(r) \/ LoseReceipt(r) PROVE Goal
  BY <1>0, <1>9 DEF SendReceipt, LoseReceipt
<1>10. ASSUME NEW p \in Peers, PeerLeaves(p) PROVE Goal
  <2>1. UNCHANGED <<receipts, readSent, handled>> /\ deletes' \subseteq deletes
    BY <1>10 DEF PeerLeaves
  <2>2. lost' = lost \/ lost' = [lost EXCEPT ![p] = DOMAIN arrived[p] \ handled[p]]
    BY <1>10 DEF PeerLeaves
  <2>3. lost' \in [Peers -> SUBSET Nat]
        /\ \A q \in Peers : lost'[q] \subseteq DOMAIN arrived[q]
    BY <1>0, <1>2, <2>2
  <2>4. toShow' \in [Peers -> SUBSET Texts]
    <3>1. toShow' = toShow \/ toShow' = [toShow EXCEPT ![p] = {}]
      BY <1>10 DEF PeerLeaves
    <3>. QED  BY <1>0, <3>1
  <2>. QED  BY <1>0, <2>1, <2>3, <2>4
<1>11. CASE SenderThreads
  BY <1>3, <1>5, <1>11 DEF SenderThreads, Deliver, Purge, Enqueue, Report, cvars
<1>12. CASE ServiceLoop
  BY <1>3, <1>12 DEF ServiceLoop, LoopTries, LoopFlushes, OtherLoopStep, cvars
<1>13. CASE HandleSignal \/ CancelEdit
  BY <1>3, <1>13 DEF HandleSignal, CancelEdit
<1>14. CASE \E t \in Texts : Post(t) \/ BeginEdit(t) \/ \E v \in 1..MaxEdits : Edit(t, v)
  BY <1>3, <1>14 DEF Post, BeginEdit, Edit
<1>15. ASSUME NEW p \in Peers, NEW t \in Texts, Show(p, t) PROVE Goal
  BY <1>0, <1>15 DEF Show
<1>16. CASE Recipients
  BY <1>6, <1>7, <1>15, <1>16 DEF Recipients
<1>17. CASE \E p \in Peers : PeerReturns(p)
  BY <1>3, <1>17 DEF PeerReturns, cvars
<1>. HIDE DEF Goal
<1>. QED  BY <1>4, <1>8, <1>9, <1>10, <1>11, <1>12, <1>13, <1>14, <1>16, <1>17 DEF CNext

LEMMA ConvStep == IInv /\ TypeOK' /\ [Next]_vars /\ ConvInv /\ [CNext]_allvars => ConvInv'
<1>. SUFFICES ASSUME IInv, TypeOK', [Next]_vars, ConvInv, [CNext]_allvars PROVE ConvInv'
  OBVIOUS
<1>1. CASE UNCHANGED allvars
  BY <1>1 DEF allvars, vars, cvars, sender, peers, ConvInv, ConvTypes, Addressed, ShownWasHandled,
              ReceiptsAreTrue, Seen, TicksWereDispatched, Dispatched, TextMsg, Absent
<1>2. CASE CNext
  <2>1. TypeOK /\ ConvTypes /\ Addressed /\ TicksWereDispatched
    BY DEF IInv, ConvInv
  <2>2. ConvTypes'
    BY <1>2, <2>1, SenderTypes, PeerTypes, StatusStep, ShownStep DEF ConvTypes, Views
  <2>3. Addressed'
    BY <2>1, AddressedStep
  <2>4. ShownWasHandled' /\ ReceiptsAreTrue' /\ \A t \in Texts : Seen(t) => Seen(t)'
    BY <1>2, ShownStep, ReceiptsStep
  <2>5. TicksWereDispatched'
    BY <1>2, <2>1, <2>4, StatusStep DEF TicksWereDispatched, Seen, Dispatched, TextMsg
  <2>. QED  BY <2>2, <2>3, <2>4, <2>5 DEF ConvInv
<1>. QED  BY <1>1, <1>2

LEMMA ConvInductive == CSpec => []IInv /\ []ConvInv /\ [][Next]_vars
<1>1. CSpec => []IInv /\ [][Next]_vars /\ []TypeOK
  BY QueueBeneath, Inductive, TypeCorrect, PTL DEF Spec
<1>. QED  BY <1>1, ConvStarts, ConvStep, PTL DEF CSpec

-----------------------------------------------------------------------------
(* The theorems about the conversation.                                    *)

\* Ticks, signals, receipts and what the recipients' windows show have their
\* types; no handler runs for a payload that has not arrived.
THEOREM ConversationTypes == CSpec => []ConversationTypeOK
<1>1. IInv /\ ConvInv => ConversationTypeOK
  BY DEF IInv, ConvInv, ConvTypes, ConversationTypeOK
<1>. QED  BY <1>1, ConvInductive, PTL

\* A tick never falls back, and a deleted message is not revived: that a text
\* arrives at most once, which the queue guarantees, is what the second needs.
THEOREM NothingIsUndone == CSpec => NothingComesBack
<1>1. IInv /\ ConvInv /\ [Next]_vars /\ [CNext]_allvars
        => [/\ \A t \in Texts : Order[status'[t]] >= Order[status[t]]
            /\ \A p \in Peers, t \in Texts : shown[p][t] = Deleted => shown'[p][t] = Deleted]_<<status, shown>>
  <2>1. ASSUME IInv, ConvInv, [Next]_vars, CNext
        PROVE  /\ \A t \in Texts : Order[status'[t]] >= Order[status[t]]
               /\ \A p \in Peers, t \in Texts : shown[p][t] = Deleted => shown'[p][t] = Deleted
    BY <2>1, StatusStep, ShownStep
  <2>. QED  BY <2>1 DEF allvars, cvars, sender, peers
<1>. QED  BY <1>1, ConvInductive, PTL DEF CSpec, NothingComesBack

-----------------------------------------------------------------------------
(* What the windows show, traced back to what their users did.             *)

\* A version a window shows was taken by its machine; a tombstone there, and a
\* request for one, have a tombstone here.
WindowsAreFounded ==
  /\ \A p \in Peers, t \in Texts :
       /\ shown[p][t] \in 1..MaxEdits => EditMsg(t, shown[p][t]) \in Range(arrived[p])
       /\ shown[p][t] = Deleted => tomb[t]
  /\ \A d \in deletes : tomb[d.text]

LEMMA TombstonesStay ==
  ASSUME ConvTypes, CNext, NEW t \in Texts
  PROVE  /\ tomb[t] => tomb'[t]
         /\ \A d \in deletes' : d.text = t => tomb'[t] \/ \E e \in deletes : e.text = t
<1>1. CASE \E u \in Texts : DeleteEveryone(u)
  <2>1. PICK u \in Texts : DeleteEveryone(u)
    BY <1>1
  <2>2. /\ tomb' = [tomb EXCEPT ![u] = TRUE] /\ tomb \in [Texts -> BOOLEAN]
        /\ deletes' = deletes \cup [to : To[u], text : {u}, at : {"worker"}]
    BY <2>1 DEF DeleteEveryone, ConvTypes
  <2>3. tomb'[u] = TRUE /\ (t # u => tomb'[t] = tomb[t])
    BY <2>2
  <2>4. tomb[t] => tomb'[t]
    BY <2>3
  <2>5. \A d \in deletes' : d \in deletes \/ d.text = u
    BY <2>2
  <2>. QED  BY <2>3, <2>4, <2>5
<1>2. ASSUME ~\E u \in Texts : DeleteEveryone(u)
      PROVE  tomb' = tomb /\ \A d \in deletes' : \E e \in deletes : e.text = d.text
  <2>1. CASE \E d \in deletes : TryDelete(d)
    <3>1. PICK d \in deletes : TryDelete(d)
      BY <2>1
    <3>2. \A x \in deletes' : x \in deletes \/ x = [d EXCEPT !.at = "peer"]
      BY <3>1 DEF TryDelete
    <3>3. [d EXCEPT !.at = "peer"].text = d.text
      BY DEF ConvTypes
    <3>4. tomb' = tomb
      BY <3>1 DEF TryDelete, sender
    <3>. QED  BY <3>2, <3>3, <3>4
  <2>2. CASE SenderThreads /\ ~\E d \in deletes : TryDelete(d)
    BY <2>2 DEF SenderThreads, Deliver, Purge, Enqueue, Report, cvars, sender, peers
  <2>3. CASE ServiceLoop
    BY <2>3 DEF ServiceLoop, LoopTries, LoopFlushes, OtherLoopStep, cvars, sender, peers
  <2>4. CASE HandleSignal \/ CancelEdit
    BY <2>4 DEF HandleSignal, CancelEdit, peers
  <2>5. CASE \E u \in Texts : Post(u) \/ BeginEdit(u) \/ \E v \in 1..MaxEdits : Edit(u, v)
    BY <2>5 DEF Post, BeginEdit, Edit, peers
  <2>6. CASE Recipients
    <3>1. tomb' = tomb /\ deletes' \subseteq deletes
      BY <2>6 DEF Recipients, Handle, Show, HandleDelete, sender
    <3>. QED  BY <3>1
  <2>7. CASE \E p \in Peers, u \in Texts : MarkRead(p, u)
    BY <2>7 DEF MarkRead, sender
  <2>8. CASE \E r \in receipts : SendReceipt(r) \/ LoseReceipt(r)
    BY <2>8 DEF SendReceipt, LoseReceipt, sender
  <2>9. CASE \E p \in Peers : PeerReturns(p) \/ PeerLeaves(p)
    <3>1. tomb' = tomb /\ deletes' \subseteq deletes
      BY <2>9 DEF PeerReturns, PeerLeaves, cvars, sender, peers
    <3>. QED  BY <3>1
  <2>. QED  BY <1>2, <2>1, <2>2, <2>3, <2>4, <2>5, <2>6, <2>7, <2>8, <2>9 DEF CNext
<1>. QED  BY <1>1, <1>2

LEMMA WindowsFoundedStep ==
  ASSUME IInv, ConvInv, WindowsAreFounded, CNext, [Next]_vars
  PROVE  WindowsAreFounded'
<1>0. /\ ConvTypes /\ shown \in [Peers -> [Texts -> Views]]
      /\ \A d \in deletes : d.to \in Peers /\ d.text \in Texts
  BY DEF ConvInv, ConvTypes
<1>1. \A t \in Texts : tomb[t] => tomb'[t]
  BY <1>0, TombstonesStay
<1>2. \A d \in deletes' : tomb'[d.text]
  <2>. SUFFICES ASSUME NEW d \in deletes' PROVE tomb'[d.text]
    OBVIOUS
  <2>1. PICK t \in Texts : t = d.text
    BY <1>0, PeerTypes DEF IInv, ConvTypes
  <2>. QED  BY <1>0, <1>1, <2>1, TombstonesStay DEF WindowsAreFounded
<1>3. \A p \in Peers : Range(arrived[p]) \subseteq Range(arrived'[p])
  BY ArrivedGrows DEF IInv, Range
<1>. DEFINE Good(p, t, v) == /\ v \in 1..MaxEdits => EditMsg(t, v) \in Range(arrived'[p])
                             /\ v = Deleted => tomb'[t]
<1>4. \A p \in Peers, t \in Texts : Good(p, t, shown[p][t])
  BY <1>1, <1>3 DEF WindowsAreFounded
<1>5. \A p \in Peers, t \in Texts : Good(p, t, 0)
  BY OutboxAssumption DEF Deleted
<1>6. ASSUME NEW p \in Peers, NEW t \in Texts PROVE Good(p, t, shown'[p][t])
  <2>1. CASE ~Recipients
    BY <1>0, <1>4, <2>1, WindowsStay
  <2>2. ASSUME NEW q \in Peers, NEW i \in DOMAIN arrived[q], Handle(q, i) PROVE Good(p, t, shown'[p][t])
    <3>1. PICK u \in Texts : HandleText(q, i, u) \/ HandleEdit(q, i, u)
      BY <2>2 DEF Handle
    <3>2. CASE HandleText(q, i, u)
      BY <1>4, <3>2 DEF HandleText
    <3>3. CASE HandleEdit(q, i, u)
      <4>. DEFINE v == arrived[q][i].ver
      <4>1. arrived[q][i] \in Msgs /\ arrived[q][i] \in Range(arrived[q])
        <5>1. arrived[q] \in Seq(Msgs)
          BY DEF IInv, TypeOK
        <5>. QED  BY <5>1 DEF Range
      <4>2. arrived[q][i] = EditMsg(u, v) /\ v \in 1..MaxEdits
        BY <3>3, <4>1 DEF HandleEdit, Msgs, TextMsg, EditMsg, KickMsg
      <4>3. v # Deleted
        BY <4>2, ViewFacts, OutboxAssumption
      <4>4. Good(q, u, v)
        BY <1>3, <4>1, <4>2, <4>3
      <4>5. shown'[p][t] = shown[p][t] \/ (p = q /\ t = u /\ shown'[p][t] = v)
        BY <1>0, <3>3 DEF HandleEdit
      <4>. HIDE DEF Good, v
      <4>. QED  BY <1>4, <4>4, <4>5
    <3>. QED  BY <3>1, <3>2, <3>3
  <2>3. ASSUME NEW d \in deletes, HandleDelete(d) PROVE Good(p, t, shown'[p][t])
    <3>1. shown'[p][t] = shown[p][t] \/ (t = d.text /\ shown'[p][t] = Deleted)
      BY <1>0, <2>3 DEF HandleDelete
    <3>2. t = d.text => tomb'[t]
      BY <1>1 DEF WindowsAreFounded
    <3>3. Deleted \notin 1..MaxEdits
      BY ViewFacts, OutboxAssumption
    <3>4. t = d.text => Good(p, t, Deleted)
      BY <3>2, <3>3
    <3>. HIDE DEF Good
    <3>. QED  BY <1>4, <3>1, <3>4
  <2>4. ASSUME NEW q \in Peers, NEW u \in Texts, Show(q, u) PROVE Good(p, t, shown'[p][t])
    <3>1. shown'[p][t] = IF p = q /\ t = u THEN 0 ELSE shown[p][t]
      BY <1>0, <2>4 DEF Show
    <3>. HIDE DEF Good
    <3>. QED  BY <1>4, <1>5, <3>1
  <2>. QED  BY <2>1, <2>2, <2>3, <2>4 DEF Recipients
<1>. QED  BY <1>2, <1>6, Zenon DEF WindowsAreFounded, EditMsg, Deleted

\* A recipient has opened the text.
Opened(t) == \E p \in To[t] : t \in readSent[p]

\* A bubble shows read only if one of those it is addressed to has opened it.
ReadTickIsTrue == \A t \in Texts : status[t] = "read" => Opened(t)

\* So it is for the read receipts, on their way and posted.
ReadReceiptsAreTrue ==
  /\ \A r \in receipts : r.state = "read" => Opened(r.text)
  /\ \A i \in DOMAIN events :
       events[i].type = "receipt" /\ events[i].state = "read" => Opened(events[i].text)

\* Where receipts come from, and the signals made of them.
LEMMA ReceiptSources ==
  ASSUME ConvTypes, CNext
  PROVE  /\ \A r \in receipts' :
              r \in receipts \/ r.state = "delivered" \/ \E p \in Peers : MarkRead(p, r.text) /\ r.text \in Texts
         /\ \A i \in DOMAIN events' :
              \/ \E j \in DOMAIN events : events'[i] = events[j]
              \/ events'[i].type # "receipt"
              \/ \E r \in receipts : events'[i].text = r.text /\ events'[i].state = r.state
<1>. DEFINE Goal ==
       /\ \A r \in receipts' :
            r \in receipts \/ r.state = "delivered" \/ \E p \in Peers : MarkRead(p, r.text) /\ r.text \in Texts
       /\ \A i \in DOMAIN events' :
            \/ \E j \in DOMAIN events : events'[i] = events[j]
            \/ events'[i].type # "receipt"
            \/ \E r \in receipts : events'[i].text = r.text /\ events'[i].state = r.state
<1>. SUFFICES Goal
  OBVIOUS
<1>0. events \in Seq(Event) /\ done \subseteq Texts
      /\ receipts \subseteq [by : Peers, text : Texts, state : {"delivered", "read"}]
  BY DEF ConvTypes
<1>1. ASSUME receipts' \subseteq receipts, events' = events PROVE Goal
  BY <1>1
<1>2. ASSUME NEW e \in Event, e.type # "receipt" \/ \E r \in receipts : e.text = r.text /\ e.state = r.state,
             events' = Append(events, e), receipts' \subseteq receipts
      PROVE  Goal
  BY <1>0, <1>2, SignalPosted
<1>3. CASE \E t \in Texts : Report(t)
  <2>1. PICK t \in Texts : Report(t)
    BY <1>3
  <2>2. [type |-> "queued", text |-> t] \in Event
    BY DEF Event
  <2>3. events' = Append(events, [type |-> "queued", text |-> t]) /\ receipts' = receipts
    BY <2>1 DEF Report, peers
  <2>. QED  BY <1>2, <2>2, <2>3
<1>4. CASE LoopFlushes
  <2>1. [type |-> "flush", texts |-> done] \in Event
    BY <1>0 DEF Event
  <2>2. (events' = events \/ events' = Append(events, [type |-> "flush", texts |-> done]))
        /\ receipts' = receipts
    BY <1>4 DEF LoopFlushes, peers
  <2>. QED  BY <1>1, <1>2, <2>1, <2>2
<1>5. CASE HandleSignal
  <2>1. events # <<>> /\ events' = Tail(events) /\ receipts' = receipts
    BY <1>5 DEF HandleSignal, peers
  <2>. QED  BY <1>0, <2>1, SignalHandled
<1>6. CASE \E r \in receipts : SendReceipt(r)
  <2>1. PICK r \in receipts : SendReceipt(r)
    BY <1>6
  <2>. DEFINE e == [type |-> "receipt", text |-> r.text, state |-> r.state]
  <2>2. e \in Event /\ e.text = r.text /\ e.state = r.state
    BY <1>0 DEF Event
  <2>3. events' = Append(events, e) /\ receipts' \subseteq receipts
    BY <2>1 DEF SendReceipt
  <2>. HIDE DEF e
  <2>. QED  BY <1>2, <2>2, <2>3
<1>7. CASE \E p \in Peers, t \in Texts : MarkRead(p, t)
  <2>1. PICK p \in Peers, t \in Texts : MarkRead(p, t)
    BY <1>7
  <2>2. events' = events /\ receipts' = receipts \cup {[by |-> p, text |-> t, state |-> "read"]}
    BY <2>1 DEF MarkRead, sender
  <2>3. \A r \in receipts' : r \in receipts \/ r.text = t
    BY <2>2
  <2>. QED  BY <2>1, <2>2, <2>3
<1>8. CASE Recipients
  <2>1. events' = events
    BY <1>8 DEF Recipients, Handle, Show, HandleDelete, sender
  <2>2. \A r \in receipts' : r \in receipts \/ r.state = "delivered"
    <3>1. ASSUME NEW p \in Peers, NEW i \in DOMAIN arrived[p], Handle(p, i)
          PROVE  \A r \in receipts' : r \in receipts \/ r.state = "delivered"
      <4>1. PICK t \in Texts : HandleText(p, i, t) \/ HandleEdit(p, i, t)
        BY <3>1 DEF Handle
      <4>2. receipts' \subseteq receipts \cup {[by |-> p, text |-> t, state |-> "delivered"]}
        BY <4>1 DEF HandleText, HandleEdit
      <4>. QED  BY <4>2
    <3>2. (\E d \in deletes : HandleDelete(d)) \/ (\E p \in Peers, t \in Texts : Show(p, t))
            => receipts' = receipts
      BY DEF HandleDelete, Show
    <3>. QED  BY <1>8, <3>1, <3>2 DEF Recipients
  <2>. QED  BY <2>1, <2>2
<1>9. CASE \/ SenderThreads /\ ~\E t \in Texts : Report(t)
           \/ LoopTries \/ OtherLoopStep \/ CancelEdit
           \/ \E t \in Texts : Post(t) \/ DeleteEveryone(t) \/ BeginEdit(t) \/ \E v \in 1..MaxEdits : Edit(t, v)
           \/ \E r \in receipts : LoseReceipt(r)
           \/ \E p \in Peers : PeerReturns(p) \/ PeerLeaves(p)
  <2>1. receipts' \subseteq receipts /\ events' = events
    BY <1>9 DEF SenderThreads, Deliver, Purge, Enqueue, TryDelete, LoopTries, OtherLoopStep, CancelEdit,
                Post, DeleteEveryone, BeginEdit, Edit, LoseReceipt, PeerReturns, PeerLeaves, cvars, sender, peers
  <2>. QED  BY <1>1, <2>1
<1>. HIDE DEF Goal
<1>. QED  BY <1>3, <1>4, <1>5, <1>6, <1>7, <1>8, <1>9 DEF CNext, ServiceLoop

\* Only _mark_read changes what was opened ...
LEMMA OnlyMarkReadOpens ==
  ASSUME CNext, ~\E p \in Peers, t \in Texts : MarkRead(p, t)
  PROVE  readSent' = readSent
<1>1. CASE SenderThreads \/ ServiceLoop
  BY <1>1 DEF SenderThreads, Deliver, Purge, Enqueue, Report, TryDelete,
              ServiceLoop, LoopTries, LoopFlushes, OtherLoopStep, cvars, peers
<1>2. CASE HandleSignal \/ CancelEdit \/ Recipients
  BY <1>2 DEF HandleSignal, CancelEdit, Recipients, Handle, Show, HandleDelete, peers
<1>3. CASE \E t \in Texts : Post(t) \/ DeleteEveryone(t) \/ BeginEdit(t)
                              \/ \E v \in 1..MaxEdits : Edit(t, v)
  BY <1>3 DEF Post, DeleteEveryone, BeginEdit, Edit, peers
<1>4. CASE \/ \E r \in receipts : SendReceipt(r) \/ LoseReceipt(r)
           \/ \E p \in Peers : PeerReturns(p) \/ PeerLeaves(p)
  BY <1>4 DEF SendReceipt, LoseReceipt, PeerReturns, PeerLeaves, cvars, peers
<1>. QED  BY <1>1, <1>2, <1>3, <1>4 DEF CNext

\* ... and by one whose window has the text.
LEMMA OpenedStays ==
  ASSUME IInv, ConvInv, CNext
  PROVE  /\ \A t \in Texts : Opened(t) => Opened(t)'
         /\ \A p \in Peers, t \in Texts : MarkRead(p, t) => Opened(t)'
<1>0. /\ readSent \in [Peers -> SUBSET Texts] /\ Addressed /\ ShownWasHandled
      /\ \A p \in Peers : handled[p] \subseteq DOMAIN arrived[p]
      /\ \A t \in Texts : To[t] \subseteq Peers
  BY OutboxAssumption DEF ConvInv, ConvTypes
<1>1. ASSUME NEW p \in Peers, NEW t \in Texts, MarkRead(p, t)
      PROVE  Opened(t)' /\ \A q \in Peers : readSent[q] \subseteq readSent'[q]
  <2>1. shown[p][t] # Absent /\ readSent' = [readSent EXCEPT ![p] = @ \cup {t}]
    BY <1>1 DEF MarkRead
  <2>2. PICK i \in handled[p] : arrived[p][i] = TextMsg(t)
    BY <1>0, <2>1 DEF ShownWasHandled, Dispatched
  <2>3. p \in To[t]
    BY <1>0, <2>2, TextReached
  <2>. QED  BY <1>0, <2>1, <2>3 DEF Opened
<1>2. ASSUME ~\E p \in Peers, t \in Texts : MarkRead(p, t) PROVE readSent' = readSent
  BY <1>2, OnlyMarkReadOpens
<1>3. \A q \in Peers : readSent[q] \subseteq readSent'[q]
  BY <1>1, <1>2
<1>. QED  BY <1>0, <1>1, <1>3 DEF Opened

LEMMA ReadTicksStep ==
  ASSUME IInv, ConvInv, ReadReceiptsAreTrue, ReadTickIsTrue, CNext
  PROVE  ReadReceiptsAreTrue' /\ ReadTickIsTrue'
<1>0. /\ ConvTypes /\ events \in Seq(Event) /\ status \in [Texts -> Ticks]
      /\ receipts \subseteq [by : Peers, text : Texts, state : {"delivered", "read"}]
  BY DEF ConvInv, ConvTypes
<1>1. \A t \in Texts : Opened(t) => Opened(t)'
  BY OpenedStays
<1>2. \A e \in Event : e.type = "receipt" => e.text \in Texts
  BY DEF Event
<1>3. \A r \in receipts : r.text \in Texts /\ (r.state = "read" => Opened(r.text)')
  BY <1>0, <1>1 DEF ReadReceiptsAreTrue
<1>4. ASSUME NEW j \in DOMAIN events, events[j].type = "receipt", events[j].state = "read",
             NEW t, t = events[j].text
      PROVE  Opened(t)'
  <2>1. events[j] \in Event
    BY <1>0
  <2>2. t \in Texts
    BY <1>2, <1>4, <2>1
  <2>3. Opened(t)
    BY <1>4 DEF ReadReceiptsAreTrue
  <2>. QED  BY <1>1, <2>2, <2>3
<1>5. ASSUME NEW r \in receipts', r.state = "read", NEW t, t = r.text PROVE Opened(t)'
  <2>1. r \in receipts \/ \E p \in Peers : MarkRead(p, t) /\ t \in Texts
    BY <1>0, <1>5, ReceiptSources
  <2>. QED  BY <1>3, <1>5, <2>1, OpenedStays
<1>6. ASSUME NEW i \in DOMAIN events', events'[i].type = "receipt", events'[i].state = "read",
             NEW t, t = events'[i].text
      PROVE  Opened(t)'
  <2>1. \/ \E j \in DOMAIN events : events'[i] = events[j]
        \/ \E r \in receipts : t = r.text /\ events'[i].state = r.state
    BY <1>0, <1>6, ReceiptSources
  <2>2. CASE \E j \in DOMAIN events : events'[i] = events[j]
    <3>1. PICK j \in DOMAIN events : events'[i] = events[j]
      BY <2>2
    <3>. QED  BY <1>4, <1>6, <3>1
  <2>3. CASE \E r \in receipts : t = r.text /\ events'[i].state = r.state
    BY <1>3, <1>6, <2>3
  <2>. QED  BY <2>1, <2>2, <2>3
<1>7. ReadReceiptsAreTrue'
  BY <1>5, <1>6 DEF ReadReceiptsAreTrue, Opened
<1>8. ASSUME NEW t \in Texts, status'[t] = "read" PROVE Opened(t)'
  <2>1. CASE HandleSignal
    <3>1. Head(events) \in Event /\ 1 \in DOMAIN events /\ Head(events) = events[1]
      BY <1>0, <2>1, SignalHandled DEF HandleSignal
    <3>2. PICK e \in Event : e = events[1] /\ (OnQueued(e) \/ OnQueueFlush(e) \/ OnReceipt(e))
      BY <2>1, <3>1 DEF HandleSignal
    <3>3. status[t] = "read" \/ (e.type = "receipt" /\ e.text = t /\ e.state = "read")
      <4>1. CASE OnQueued(e)
        BY <1>0, <1>8, <4>1 DEF OnQueued
      <4>2. CASE OnQueueFlush(e)
        BY <1>0, <1>8, <4>2 DEF OnQueueFlush
      <4>3. CASE OnReceipt(e)
        BY <1>0, <1>8, <4>3 DEF OnReceipt
      <4>. QED  BY <3>2, <4>1, <4>2, <4>3
    <3>4. CASE status[t] = "read"
      BY <1>1, <3>4 DEF ReadTickIsTrue
    <3>5. CASE e.type = "receipt" /\ e.text = t /\ e.state = "read"
      BY <1>4, <3>1, <3>2, <3>5
    <3>. QED  BY <3>3, <3>4, <3>5
  <2>2. CASE ~HandleSignal
    <3>1. status[t] = "read"
      <4>1. CASE status' = status
        BY <1>8, <4>1
      <4>2. CASE \E u \in Texts : Post(u)
        BY <1>0, <1>8, <4>2 DEF Post
      <4>. QED  BY <2>2, <4>1, <4>2, StatusKept
    <3>. QED  BY <1>1, <1>8, <3>1 DEF ReadTickIsTrue
  <2>. QED  BY <2>1, <2>2
<1>. QED  BY <1>7, <1>8 DEF ReadTickIsTrue, Opened

\* Who opened a text, and its read receipt says so, has it in the window.
OpenedWasShown == \A p \in Peers, t \in Texts : t \in readSent[p] => shown[p][t] # Absent

LEMMA OpenedWasShownStep ==
  ASSUME IInv, ConvInv, OpenedWasShown, CNext, [Next]_vars
  PROVE  OpenedWasShown'
<1>1. \A p \in Peers, t \in Texts : shown[p][t] # Absent => shown'[p][t] # Absent
  BY ShownStep
<1>2. ASSUME NEW p \in Peers, NEW t \in Texts, t \in readSent'[p]
      PROVE  t \in readSent[p] \/ shown[p][t] # Absent
  <2>1. ASSUME NEW q \in Peers, NEW u \in Texts, MarkRead(q, u) PROVE t \in readSent[p] \/ shown[p][t] # Absent
    BY <1>2, <2>1 DEF MarkRead, ConvInv, ConvTypes
  <2>. QED  BY <1>2, <2>1, OnlyMarkReadOpens
<1>. QED  BY <1>1, <1>2 DEF OpenedWasShown, Absent

TruthInv == WindowsAreFounded /\ ReadReceiptsAreTrue /\ ReadTickIsTrue /\ OpenedWasShown

LEMMA TruthStep == IInv /\ ConvInv /\ TruthInv /\ [Next]_vars /\ [CNext]_allvars => TruthInv'
<1>. SUFFICES ASSUME IInv, ConvInv, TruthInv, [Next]_vars, [CNext]_allvars PROVE TruthInv'
  OBVIOUS
<1>1. CASE UNCHANGED allvars
  BY <1>1 DEF allvars, vars, cvars, sender, peers, TruthInv, WindowsAreFounded, ReadReceiptsAreTrue,
              ReadTickIsTrue, Opened, OpenedWasShown, EditMsg, Deleted, Absent
<1>2. CASE CNext
  BY <1>2, WindowsFoundedStep, ReadTicksStep, OpenedWasShownStep DEF TruthInv
<1>. QED  BY <1>1, <1>2

LEMMA TruthHolds == CSpec => []IInv /\ []ConvInv /\ []TruthInv
<1>1. CInit => TruthInv
  <2>1. CInit => WindowsAreFounded
    BY ViewFacts, OutboxAssumption DEF CInit, WindowsAreFounded, Absent
  <2>2. CInit => ReadReceiptsAreTrue
    BY DEF CInit, ReadReceiptsAreTrue
  <2>3. CInit => ReadTickIsTrue
    BY DEF CInit, ReadTickIsTrue
  <2>4. CInit => OpenedWasShown
    BY DEF CInit, OpenedWasShown
  <2>. QED  BY <2>1, <2>2, <2>3, <2>4 DEF TruthInv
<1>. QED  BY <1>1, TruthStep, ConvInductive, PTL DEF CSpec

\* A window shows a text only to those it is addressed to; if it shows an edit,
\* our user made that edit and its call named this peer; if a tombstone, our
\* user deleted the text for everyone.
ShownIsTrue ==
  \A p \in Peers, t \in Texts :
    /\ shown[p][t] # Absent => p \in To[t]
    /\ shown[p][t] \in 1..MaxEdits => EditMsg(t, shown[p][t]) \in issued[p]
    /\ shown[p][t] = Deleted => tomb[t]

\* Whatever order payloads, edits and delete requests are taken and handled in,
\* what the recipients' windows show is what our user sent, edited or deleted.
THEOREM WindowsShowWhatWasSent == CSpec => []ShownIsTrue
<1>1. IInv /\ ConvInv /\ TruthInv => ShownIsTrue
  <2>. SUFFICES ASSUME IInv, ConvInv, TruthInv, NEW p \in Peers, NEW t \in Texts
                PROVE  /\ shown[p][t] # Absent => p \in To[t]
                       /\ shown[p][t] \in 1..MaxEdits => EditMsg(t, shown[p][t]) \in issued[p]
                       /\ shown[p][t] = Deleted => tomb[t]
    BY DEF ShownIsTrue
  <2>1. ASSUME shown[p][t] # Absent PROVE p \in To[t]
    <3>1. PICK i \in handled[p] : arrived[p][i] = TextMsg(t)
      BY <2>1 DEF ConvInv, ShownWasHandled, Dispatched
    <3>2. i \in DOMAIN arrived[p]
      BY <3>1 DEF ConvInv, ConvTypes
    <3>. QED  BY <3>1, <3>2, TextReached DEF ConvInv
  <2>2. shown[p][t] \in 1..MaxEdits => EditMsg(t, shown[p][t]) \in issued[p]
    BY DEF TruthInv, WindowsAreFounded, IInv, ArrivedWasIssued
  <2>3. shown[p][t] = Deleted => tomb[t]
    BY DEF TruthInv, WindowsAreFounded
  <2>. QED  BY <2>1, <2>2, <2>3, Zenon
<1>. QED  BY <1>1, TruthHolds, PTL

\* Whatever order threads post and handlers run in, a bubble shows delivered only
\* if the service of one the text is addressed to has passed it on, and read
\* only if such a one's window has the text.
THEOREM TicksAreTrue == CSpec => []DeliveredTickIsTrue
<1>1. ConvInv /\ TruthInv => DeliveredTickIsTrue
  <2>. SUFFICES ASSUME ConvInv, TruthInv, NEW t \in Texts
                PROVE  /\ status[t] \in {"delivered", "read"} => \E p \in To[t] : Dispatched(p, t)
                       /\ status[t] = "read" => \E p \in To[t] : shown[p][t] # Absent
    BY DEF DeliveredTickIsTrue
  <2>1. status[t] \in {"delivered", "read"} => \E p \in To[t] : Dispatched(p, t)
    BY DEF ConvInv, TicksWereDispatched, Seen
  <2>2. status[t] = "read" => \E p \in To[t] : shown[p][t] # Absent
    BY OutboxAssumption DEF TruthInv, ReadTickIsTrue, Opened, OpenedWasShown
  <2>. QED  BY <2>1, <2>2
<1>. QED  BY <1>1, TruthHolds, PTL

\* _mark_read, send_receipt and on_receipt: a bubble shows read only if one of
\* those it is addressed to has opened the text.
THEOREM ReadTicksAreTrue == CSpec => []ReadTickIsTrue
<1>1. TruthInv => ReadTickIsTrue
  BY DEF TruthInv
<1>. QED  BY <1>1, TruthHolds, PTL

-----------------------------------------------------------------------------
(* What the contract comes to, for whatever keeps it.                      *)

\* Accounted for one peer.
AccountedFor(p) ==
  /\ Owed(p) \cap Range(arrived[p]) = {}
  /\ Owed(p) \cup Range(arrived[p]) \subseteq issued[p]
  /\ \A m \in issued[p] \ (Owed(p) \cup Range(arrived[p])) : m \in recalled[p] \/ ~Sole(p, m)

Promised == /\ issued \in [Peers -> SUBSET Msgs] /\ recalled \in [Peers -> SUBSET Msgs]
            /\ \A p \in Peers : AccountedFor(p)

LEMMA AccountedMeans == Promised => Contract!Accounted
<1>. SUFFICES ASSUME Promised PROVE Contract!Accounted
  OBVIOUS
<1>1. ASSUME NEW p \in Peers, NEW m \in issued[p], m \in recalled[p] \/ ~Sole(p, m)
      PROVE  Contract!MayGiveUp(p, m, recalled[p])
  <2>1. issued[p] \subseteq Msgs
    BY DEF Promised
  <2>. QED  BY <1>1, <2>1 DEF Contract!MayGiveUp, Sole
<1>2. \A p \in Peers : AccountedFor(p)
  BY DEF Promised
<1>. QED  BY <1>1, <1>2 DEF AccountedFor, Contract!Accounted

\* What a reason is stays one.
LEMMA ReasonStays ==
  ASSUME NEW p \in Peers, NEW m, issued[p] \subseteq issued'[p], recalled[p] \subseteq recalled'[p],
         m \in recalled[p] \/ ~Sole(p, m)
  PROVE  m \in recalled'[p] \/ ~Sole(p, m)'
BY DEF Sole

LEMMA PromisedStep ==
  ASSUME Promised, [Contract!RNext]_(Contract!rvars)
  PROVE  Promised'
<1>0. /\ issued \in [Peers -> SUBSET Msgs] /\ recalled \in [Peers -> SUBSET Msgs]
      /\ \A p \in Peers : AccountedFor(p)
  BY DEF Promised
<1>1. CASE UNCHANGED Contract!rvars
  <2>1. UNCHANGED <<issued, recalled>>
    BY <1>1 DEF Contract!rvars
  <2>2. \A p \in Peers : Owed(p)' = Owed(p) /\ Range(arrived'[p]) = Range(arrived[p])
    BY <1>1 DEF Contract!rvars
  <2>. QED  BY <1>0, <2>1, <2>2 DEF Promised, AccountedFor, Sole
<1>2. ASSUME NEW ps \in SUBSET Peers, NEW m \in Msgs, Contract!Promise(ps, m)
      PROVE  Promised'
  <2>1. /\ issued' = [p \in Peers |-> IF p \in ps THEN issued[p] \cup {m} ELSE issued[p]]
        /\ recalled' = recalled /\ \A p \in ps : m \notin issued[p]
    BY <1>2 DEF Contract!Promise
  <2>2. \A p \in Peers : /\ Owed(p)' = IF p \in ps THEN Owed(p) \cup {m} ELSE Owed(p)
                        /\ Range(arrived'[p]) = Range(arrived[p])
    BY <1>2 DEF Contract!Promise
  <2>3. issued' \in [Peers -> SUBSET Msgs]
    BY <1>0, <2>1
  <2>4. ASSUME NEW p \in Peers PROVE AccountedFor(p)'
    <3>1. issued'[p] = IF p \in ps THEN issued[p] \cup {m} ELSE issued[p]
      BY <2>1
    <3>2. \A n \in issued[p] \ (Owed(p) \cup Range(arrived[p])) : n \in recalled'[p] \/ ~Sole(p, n)'
      BY <1>0, <2>1, <3>1, ReasonStays DEF AccountedFor
    <3>. QED  BY <1>0, <2>1, <2>2, <3>1, <3>2 DEF AccountedFor
  <2>. QED  BY <1>0, <2>1, <2>3, <2>4 DEF Promised
\* The other steps leave issued alone, and owe no more.
<1>3. ASSUME NEW q \in Peers, NEW S \in SUBSET Owed(q), NEW T \in SUBSET S, NEW R \in SUBSET issued[q],
             issued' = issued, recalled' = [recalled EXCEPT ![q] = @ \cup R],
             \A p \in Peers : /\ Owed(p)' = IF p = q THEN Owed(p) \ S ELSE Owed(p)
                             /\ Range(arrived'[p]) = IF p = q THEN Range(arrived[p]) \cup T ELSE Range(arrived[p]),
             \A m \in S \ T : m \in recalled'[q] \/ ~Sole(q, m)'
      PROVE  Promised'
  <2>1. recalled' \in [Peers -> SUBSET Msgs]
    BY <1>0, <1>3
  <2>2. ASSUME NEW p \in Peers PROVE AccountedFor(p)'
    <3>1. recalled[p] \subseteq recalled'[p]
      BY <1>0, <1>3
    <3>2. \A n \in issued[p] \ (Owed(p) \cup Range(arrived[p])) : n \in recalled'[p] \/ ~Sole(p, n)'
      BY <1>0, <1>3, <3>1, ReasonStays DEF AccountedFor
    <3>3. CASE p = q
      BY <1>0, <1>3, <3>2, <3>3 DEF AccountedFor
    <3>4. CASE p # q
      BY <1>0, <1>3, <3>2, <3>4 DEF AccountedFor
    <3>. QED  BY <3>3, <3>4
  <2>. QED  BY <1>0, <1>3, <2>1, <2>2 DEF Promised
<1>4. ASSUME NEW q \in Peers, NEW m \in Msgs, Contract!Arrive(q, m) PROVE Promised'
  <2>1. UNCHANGED <<issued, recalled>> /\ m \in Owed(q)
    BY <1>4 DEF Contract!Arrive
  <2>2. \A p \in Peers :
           /\ Owed(p)' = IF p = q THEN Owed(p) \ {m} ELSE Owed(p)
           /\ Range(arrived'[p]) = IF p = q THEN Range(arrived[p]) \cup {m} ELSE Range(arrived[p])
    BY <1>4 DEF Contract!Arrive
  <2>3. recalled' = [recalled EXCEPT ![q] = @ \cup {}]
    BY <1>0, <2>1
  <2>4. {m} \in SUBSET Owed(q) /\ {m} \in SUBSET {m} /\ {} \in SUBSET issued[q]
    BY <2>1
  <2>5. \A n \in {m} \ {m} : n \in recalled'[q] \/ ~Sole(q, n)'
    OBVIOUS
  <2>6. issued' = issued
    BY <2>1
  <2>. QED  BY <1>3, <2>2, <2>3, <2>4, <2>5, <2>6
<1>5. ASSUME NEW q \in Peers, NEW S \in SUBSET Owed(q), Contract!GiveUp(q, S) PROVE Promised'
  <2>1. UNCHANGED <<issued, recalled>>
    BY <1>5 DEF Contract!GiveUp
  <2>2. \A p \in Peers : /\ Owed(p)' = IF p = q THEN Owed(p) \ S ELSE Owed(p)
                        /\ Range(arrived'[p]) = IF p = q THEN Range(arrived[p]) \cup {} ELSE Range(arrived[p])
    BY <1>5 DEF Contract!GiveUp
  <2>3. recalled' = [recalled EXCEPT ![q] = @ \cup {}]
    BY <1>0, <2>1
  <2>4. ASSUME NEW m \in S PROVE m \in recalled'[q] \/ ~Sole(q, m)'
    <3>1. Contract!MayGiveUp(q, m, recalled[q])
      BY <1>5 DEF Contract!GiveUp
    <3>2. m \in issued[q] /\ issued[q] \subseteq Msgs
      BY <1>0 DEF AccountedFor
    <3>. QED  BY <2>1, <3>1, <3>2 DEF Contract!MayGiveUp, Sole
  <2>5. S \in SUBSET Owed(q) /\ {} \in SUBSET S /\ {} \in SUBSET issued[q] /\ issued' = issued
    BY <2>1
  <2>6. \A m \in S \ {} : m \in recalled'[q] \/ ~Sole(q, m)'
    BY <2>4
  <2>. QED  BY <1>3, <2>2, <2>3, <2>5, <2>6
<1>6. ASSUME NEW q \in Peers, NEW R \in SUBSET issued[q], NEW S \in SUBSET (Owed(q) \cap R), Contract!Recall(q, R, S)
      PROVE  Promised'
  <2>1. issued' = issued /\ recalled' = [recalled EXCEPT ![q] = @ \cup R]
    BY <1>6 DEF Contract!Recall
  <2>2. \A p \in Peers : /\ Owed(p)' = IF p = q THEN Owed(p) \ S ELSE Owed(p)
                        /\ Range(arrived'[p]) = IF p = q THEN Range(arrived[p]) \cup {} ELSE Range(arrived[p])
    BY <1>6 DEF Contract!Recall
  <2>3. R \subseteq recalled'[q]
    BY <1>0, <2>1
  <2>4. S \in SUBSET Owed(q) /\ {} \in SUBSET S /\ R \in SUBSET issued[q] /\ issued' = issued
    BY <2>1
  <2>5. \A m \in S \ {} : m \in recalled'[q] \/ ~Sole(q, m)'
    BY <2>3
  <2>. QED  BY <1>3, <2>1, <2>2, <2>4, <2>5
<1>. QED  BY <1>1, <1>2, <1>4, <1>5, <1>6 DEF Contract!RNext

\* What Retention promises: every payload handed to the service is owed or was
\* taken, and not both, unless the user recalled it or sent another of its key;
\* for whatever state and steps keep it, _outbox_loop's among them.
THEOREM WhatTheContractMeans == KeepsContract => []Contract!Accounted
<1>1. Contract!RInit => Promised
  <2>. SUFFICES ASSUME Contract!RInit PROVE Promised
    OBVIOUS
  <2>1. /\ issued = [p \in Peers |-> {}] /\ recalled = [p \in Peers |-> {}]
        /\ \A p \in Peers : Owed(p) = {} /\ Range(arrived[p]) = {}
    BY DEF Contract!RInit
  <2>. QED  BY <2>1 DEF Promised, AccountedFor
<1>2. Promised /\ [Contract!RNext]_(Contract!rvars) => Promised'
  BY PromisedStep
<1>. QED  BY <1>1, <1>2, AccountedMeans, PTL DEF KeepsContract, Contract!RSpec

\* With the windows and the recipients on top, the threads keep the contract.
THEOREM ConversationKeepsTheContract == CSpec => KeepsContract /\ []Contract!Accounted
BY QueueBeneath, ThreadsKeepTheContract, WhatTheContractMeans, PTL
=============================================================================
