---------------------------- MODULE HistoryProofs ----------------------------
(* Theorems about History: for any number of messages, passwords and starts of *)
(* the program, with a disk that fails or one that does not.                   *)
EXTENDS History, TLAPS

-----------------------------------------------------------------------------
(* What is on its way to the disk.                                         *)

Clean  == "overlap" \notin mishaps /\ "unclean" \notin mishaps
Landed == "lost" \notin mishaps

\* The lock is between two of its values: setup_lock has not set the keys yet.
Changing == gui \in {"salted", "verified"}

\* Something is queued or being saved ...
Busy == queue # NoSave \/ \E t \in Threads : job[t] # Resting

\* ... and what the last of it will leave in the file.
Due == IF queue # NoSave THEN queue.says ELSE job["writer"].item.says \cup job["gui"].item.says

-----------------------------------------------------------------------------
(* The inductive invariant.                                                *)

\* HistoryTypeOK: the lock, the window, and what is saved.
LockTypeOK ==
  /\ salt \in 0..MaxKeys /\ verifier \in 0..MaxKeys /\ covers \in BOOLEAN
  /\ keys \in 0..MaxKeys /\ drawn \in 0..MaxKeys

WindowTypeOK ==
  /\ known \in BOOLEAN /\ deferred \in BOOLEAN
  /\ conv \subseteq 1..msgs /\ (conv # {} => known)
  /\ msgs \in 0..MaxMsgs /\ runs \in 0..MaxRuns /\ mishaps \subseteq Mishap
  /\ gui \in {"down", "idle", "salted", "verified", "reset", "resetting", "join", "quit", "quitting"}

WriterTypeOK ==
  /\ event \in BOOLEAN /\ running \in BOOLEAN
  /\ wpc \in {"wait", "debounce", "flush", "last", "lastflush", "ended"}

\* Nothing is saved that has not arrived, and a job has a key once it is sealed.
SavingTypeOK ==
  /\ queue \in Save /\ queue.says \subseteq 1..msgs
  /\ job \in [Threads -> Job]
  /\ \A t \in Threads :
       /\ job[t].at = "rest" <=> job[t] = Resting
       /\ job[t].at \in {"check", "seal"} => job[t].key = 0
       /\ job[t].item.says \subseteq 1..msgs

FileTypeOK ==
  /\ file \in File /\ (file.form = "none" => file = NoFile)
  /\ file.form = "cipher" <=> file.key # 0
  /\ file.says \subseteq 1..msgs

TypeOK == LockTypeOK /\ WindowTypeOK /\ WriterTypeOK /\ SavingTypeOK /\ FileTypeOK

\* set_password writes salt and verifier in this order, and the session's keys
\* are those of the stored password except while it is being changed.
LockOK ==
  /\ verifier # 0 => salt # 0
  /\ Changing => salt # 0
  /\ gui = "verified" => salt = verifier
  /\ keys # 0 /\ ~Changing => keys = salt /\ keys = verifier

DownOK == gui = "down" => keys = 0 /\ ~known /\ conv = {} /\ ~deferred /\ ~Busy

\* While nobody has given the password no thread is about to write the chat.
Shut == IsLocked /\ NeedsUnlock /\ gui # "verified" => \A t \in Threads : job[t].at # "write"

OneSaves == Clean => \E t \in Threads : job[t] = Resting

\* A chat the window does not have is on its way out of the file, or gone from
\* it, or still in the file that could not be read.
Unknown ==
  Clean /\ ~known /\ gui # "down" =>
    /\ Busy => Due = {}
    /\ ~Busy /\ Landed /\ (~deferred \/ (keys # 0 /\ IsLocked /\ ~Changing)) => file.says = {}

\* Memory is what is due, or else what the file has.
Current ==
  mishaps \subseteq {"lost"} /\ gui # "down" =>
    IF deferred THEN ~Busy
    ELSE (Busy => Due = conv) /\ (~Busy /\ Landed => file.says = conv)

\* What a thread asked of the lock is still so when it writes, or there is a
\* later save of the chat in the queue.
InHand ==
  Clean /\ queue = NoSave /\ ~Changing =>
    \A t \in Threads : job[t].item.says # {} =>
      /\ job[t].at = "seal" => IsLocked
      /\ job[t].at = "write" =>
           IF IsLocked THEN job[t].key = salt /\ salt = verifier ELSE job[t].key = 0

Fitting == IF IsLocked THEN salt = verifier /\ Opens(file, salt) ELSE file.form = "plain"

Sealed == Clean /\ Landed /\ ~Changing /\ ~Busy /\ file.says # {} => Fitting

\* A reset has deleted the chat if it was locked.
Resets == gui \in {"reset", "resetting"} /\ IsLocked => ~known /\ ~deferred

HistoryInv ==
  /\ TypeOK /\ LockOK /\ DownOK /\ Shut /\ OneSaves
  /\ Unknown /\ Current /\ InHand /\ Sealed /\ Resets

LEMMA HistoryInvImplies == HistoryInv => HistoryTypeOK /\ FileAtRest
<1>. SUFFICES ASSUME HistoryInv PROVE HistoryTypeOK /\ FileAtRest
  OBVIOUS
<1>1. (file.form = "cipher") = (file.key # 0)
  BY DEF HistoryInv, TypeOK, FileTypeOK
<1>2. HistoryTypeOK
  BY <1>1, Zenon DEF HistoryInv, TypeOK, LockTypeOK, WindowTypeOK, WriterTypeOK, SavingTypeOK, FileTypeOK,
                     HistoryTypeOK
<1>3. ASSUME Quiet PROVE SealedAtRest /\ CurrentAtRest
  <2>1. ~Busy /\ ~Changing
    BY <1>3 DEF Quiet, Busy, Changing
  <2>2. SealedAtRest
    BY <2>1 DEF HistoryInv, Sealed, Clean, Landed, Fitting, SealedAtRest
  <2>3. CurrentAtRest
    BY <2>1 DEF HistoryInv, Current, Landed, CurrentAtRest
  <2>. QED  BY <2>2, <2>3
<1>. QED  BY <1>2, <1>3 DEF FileAtRest

-----------------------------------------------------------------------------
(* Entries of the queue, and jobs.                                         *)

LEMMA Entries ==
  /\ NoSave \in Save /\ Delete \in Save /\ Delete # NoSave
  /\ NoSave.says = {} /\ Delete.says = {}
  /\ \A c \in SUBSET Msgs : SaveOf(c) \in Save /\ SaveOf(c) # NoSave /\ SaveOf(c).says = c
BY DEF NoSave, Delete, SaveOf, Save

LEMMA AtRest == /\ Resting \in Job /\ Resting.item = NoSave /\ Resting.at = "rest"
                /\ NoFile \in File /\ NoFile.says = {} /\ NoFile.form = "none" /\ NoFile.key = 0
BY HistoryAssumption DEF Resting, Job, Save, NoFile, File, Msgs

\* What is due when nothing is queued is what the one thread has that saves.
LEMMA DueInHand ==
  ASSUME SavingTypeOK, OneSaves, Clean, NEW t \in Threads, queue = NoSave, job[t] # Resting
  PROVE  Busy /\ Due = job[t].item.says /\ \A u \in Threads : u # t => job[u] = Resting
<1>1. \A u \in Threads : u # t => job[u] = Resting
  BY DEF OneSaves, Threads
<1>2. \A u \in Threads : u # t => job[u].item.says = {}
  BY <1>1, Entries, AtRest
<1>. QED  BY <1>1, <1>2 DEF Busy, Due, Threads

LEMMA NothingDue ==
  ASSUME SavingTypeOK, Busy => Due = {}, queue = NoSave, NEW t \in Threads
  PROVE  job[t].item.says = {}
<1>1. CASE job[t] = Resting
  BY <1>1, Entries, AtRest
<1>2. CASE job[t] # Resting
  BY <1>2 DEF Busy, Due, Threads
<1>. QED  BY <1>1, <1>2

\* Saves that are not touched.
LEMMA SameSaves ==
  ASSUME UNCHANGED <<queue, job>>
  PROVE  (Busy' <=> Busy) /\ Due' = Due
BY DEF Busy, Due

LEMMA SameTypes ==
  ASSUME SavingTypeOK, FileTypeOK, UNCHANGED <<queue, job, file, msgs>>
  PROVE  SavingTypeOK' /\ FileTypeOK'
BY DEF SavingTypeOK, FileTypeOK

-----------------------------------------------------------------------------
(* The conversation and the lock.                                          *)

\* A later entry makes what is under way irrelevant: only what is queued and
\* what memory has count.
LEMMA QueuedStep ==
  ASSUME HistoryInv, NEW e \in Save, e # NoSave, Enqueue(e),
         UNCHANGED <<file, job, running, wpc>>,
         mishaps' \in {mishaps, mishaps \cup {"mixed"}},
         e.says = conv', deferred' => "mixed" \in mishaps', msgs' \in {msgs, msgs + 1},
         LockTypeOK', WindowTypeOK', LockOK', Shut', Resets', gui' # "down"
  PROVE  HistoryInv'
<1>. USE DEF HistoryInv
<1>1. queue' = e /\ event' = TRUE
  BY DEF Enqueue
<1>2. Busy' /\ Due' = conv'
  BY <1>1 DEF Busy, Due
<1>3. 1..msgs \subseteq 1..msgs'
  BY DEF TypeOK, WindowTypeOK
<1>4. TypeOK'
  <2>1. event' \in BOOLEAN
    BY <1>1, Zenon
  <2>2. WriterTypeOK'
    BY <2>1 DEF TypeOK, WriterTypeOK
  <2>3. queue' \in Save /\ queue'.says \subseteq 1..msgs'
    BY <1>1 DEF WindowTypeOK
  <2>4. SavingTypeOK'
    BY <1>3, <2>3 DEF TypeOK, SavingTypeOK
  <2>5. FileTypeOK'
    BY <1>3 DEF TypeOK, FileTypeOK
  <2>. QED  BY <2>2, <2>4, <2>5 DEF TypeOK
<1>5. DownOK'
  BY DEF DownOK
<1>6. OneSaves'
  BY DEF OneSaves, Clean
<1>7. Unknown'
  BY <1>2 DEF Unknown, WindowTypeOK
<1>8. Current'
  BY <1>2 DEF Current
<1>9. InHand' /\ Sealed'
  BY <1>1, <1>2 DEF InHand, Sealed
<1>. QED  BY <1>4, <1>5, <1>6, <1>7, <1>8, <1>9

LEMMA ConversationStep ==
  ASSUME HistoryInv, Store \/ ClearAll \/ DeletePeer
  PROVE  HistoryInv'
<1>. USE HistoryAssumption DEF HistoryInv, TypeOK
<1>1. /\ UNCHANGED <<salt, verifier, covers, file, keys, deferred, running, wpc, job, gui, drawn, runs>>
      /\ gui = "idle" /\ msgs' \in {msgs, msgs + 1} /\ msgs' <= MaxMsgs
      /\ mishaps' = IF deferred THEN mishaps \cup {"mixed"} ELSE mishaps
  BY DEF Store, ClearAll, DeletePeer, Idle, Persist, Mark, registry, counts, WindowTypeOK
<1>2. conv' \subseteq 1..msgs' /\ known' \in BOOLEAN /\ (conv' # {} => known')
  <2>1. CASE Store
    BY <1>1, <2>1 DEF Store, WindowTypeOK
  <2>2. CASE ClearAll \/ DeletePeer
    <3>1. known' = FALSE /\ conv' = {}
      BY <2>2 DEF ClearAll, DeletePeer
    <3>. QED  BY <3>1
  <2>. QED  BY <2>1, <2>2
<1>3. LockTypeOK' /\ WindowTypeOK'
  BY <1>1, <1>2 DEF LockTypeOK, WindowTypeOK, Mishap
<1>4. PICK e \in Save : e # NoSave /\ Enqueue(e) /\ e.says = conv'
  <2>1. conv' \in SUBSET Msgs
    BY <1>1, <1>2 DEF Msgs, WindowTypeOK
  <2>2. CASE Store
    BY <2>1, <2>2, Entries DEF Store, Persist
  <2>3. CASE ClearAll
    BY <2>1, <2>3, Entries DEF ClearAll, Persist
  <2>4. CASE DeletePeer
    BY <2>1, <2>4, Entries DEF DeletePeer
  <2>. QED  BY <2>2, <2>3, <2>4
<1>5. LockOK' /\ Shut' /\ Resets'
  BY <1>1 DEF LockOK, Shut, Resets, Changing, IsLocked, NeedsUnlock, IsSet
<1>6. mishaps' \in {mishaps, mishaps \cup {"mixed"}} /\ (deferred' => "mixed" \in mishaps')
  BY <1>1
<1>. QED  BY <1>1, <1>3, <1>4, <1>5, <1>6, QueuedStep

\* The steps of set_password, and shutdown's: nothing is saved.
LEMMA QuietStep ==
  ASSUME HistoryInv, SetSalt \/ SetVerifier \/ WriterWakes \/ WriterRests \/ Shutdown \/ Joined
  PROVE  HistoryInv'
<1>. USE HistoryAssumption DEF HistoryInv, TypeOK
<1>1. UNCHANGED <<covers, file, keys, known, conv, deferred, queue, job, msgs, runs, mishaps>>
  BY DEF SetSalt, SetVerifier, WriterWakes, WriterRests, Shutdown, Joined, registry, memory, saving, counts
<1>2. (Busy' <=> Busy) /\ Due' = Due /\ SavingTypeOK' /\ FileTypeOK'
  BY <1>1, SameSaves, SameTypes
<1>3. WriterTypeOK'
  <2>1. CASE SetSalt \/ SetVerifier \/ WriterRests \/ Joined
    BY <2>1 DEF SetSalt, SetVerifier, WriterRests, Joined, saving, WriterTypeOK
  <2>2. CASE WriterWakes
    <3>1. running' = running /\ wpc' \in {"debounce", "last"}
      BY <2>2 DEF WriterWakes, Wake
    <3>2. event' \in BOOLEAN
      BY <2>2, Zenon DEF WriterWakes, Wake
    <3>. QED  BY <3>1, <3>2 DEF WriterTypeOK
  <2>3. CASE Shutdown
    <3>1. event' \in BOOLEAN
      BY <2>3, Zenon DEF Shutdown
    <3>2. running' \in BOOLEAN
      BY <2>3, Zenon DEF Shutdown
    <3>. QED  BY <2>3, <3>1, <3>2 DEF WriterTypeOK, Shutdown
  <2>. QED  BY <2>1, <2>2, <2>3
<1>4. \/ UNCHANGED <<salt, verifier, gui, drawn>>
      \/ gui = "idle" /\ gui' = "join" /\ UNCHANGED <<salt, verifier, drawn>>
      \/ gui = "join" /\ gui' = "quit" /\ UNCHANGED <<salt, verifier, drawn>>
      \/ /\ gui = "idle" /\ gui' = "salted" /\ verifier' = verifier /\ salt' = drawn + 1
         /\ drawn' = drawn + 1 /\ drawn < MaxKeys /\ ~NeedsUnlock
      \/ gui = "salted" /\ gui' = "verified" /\ verifier' = salt /\ UNCHANGED <<salt, drawn>>
  BY DEF SetSalt, SetVerifier, WriterWakes, WriterRests, Shutdown, Joined, registry, counts, Idle
<1>5. TypeOK'
  BY <1>1, <1>2, <1>3, <1>4 DEF LockTypeOK, WindowTypeOK
<1>6. LockOK'
  BY <1>1, <1>4 DEF LockOK, LockTypeOK, Changing
<1>7. DownOK' /\ OneSaves'
  BY <1>1, <1>2, <1>4 DEF DownOK, OneSaves, Clean
<1>8. Shut'
  BY <1>1, <1>4 DEF Shut, LockOK, Changing, IsLocked, NeedsUnlock, IsSet
<1>9. Unknown'
  BY <1>1, <1>2, <1>4 DEF Unknown, Clean, Landed, Changing, IsLocked, IsSet
<1>10. Current'
  BY <1>1, <1>2, <1>4 DEF Current, Landed
<1>11. InHand' /\ Sealed'
  BY <1>1, <1>2, <1>4 DEF InHand, Sealed, Fitting, Clean, Landed, Changing, IsLocked, IsSet, Opens
<1>12. Resets'
  BY <1>1, <1>4 DEF Resets, IsLocked, IsSet
<1>. QED  BY <1>5, <1>6, <1>7, <1>8, <1>9, <1>10, <1>11, <1>12

\* The password is given: what could not be read is read now, if it opens.
LEMMA UnlockStep ==
  ASSUME HistoryInv, Unlock
  PROVE  HistoryInv'
<1>. USE HistoryAssumption DEF HistoryInv, TypeOK
<1>1. /\ UNCHANGED <<registry, file, saving, gui, counts, mishaps>>
      /\ gui = "idle" /\ NeedsUnlock
  BY DEF Unlock, Idle
<1>2. PICK k \in 1..MaxKeys : k = salt /\ k = verifier /\ keys' = k /\ LoadLocked(k)
  BY DEF Unlock, LetsIn
<1>3. UNCHANGED <<salt, verifier, covers, queue, event, running, wpc, job, msgs, drawn, runs>>
  BY <1>1 DEF registry, saving, counts
<1>4. (Busy' <=> Busy) /\ Due' = Due /\ SavingTypeOK' /\ FileTypeOK' /\ WriterTypeOK'
  BY <1>1, <1>3, SameSaves, SameTypes DEF WriterTypeOK
<1>5. \/ deferred /\ Opens(file, k) /\ known' = TRUE /\ conv' = file.says /\ deferred' = FALSE
      \/ UNCHANGED <<known, conv, deferred>> /\ ~(deferred /\ Opens(file, k))
  BY <1>2 DEF LoadLocked, Ingest
<1>6. WindowTypeOK'
  BY <1>1, <1>3, <1>5 DEF WindowTypeOK, FileTypeOK
<1>7. LockTypeOK' /\ LockOK'
  BY <1>1, <1>2, <1>3 DEF LockTypeOK, LockOK, Changing
<1>8. DownOK' /\ Shut' /\ OneSaves' /\ Resets'
  BY <1>1, <1>2, <1>3 DEF DownOK, Shut, NeedsUnlock, OneSaves, Resets, Clean
<1>9. Unknown'
  BY <1>1, <1>2, <1>3, <1>4, <1>5 DEF Unknown, Sealed, Fitting, Clean, Landed, Changing, IsLocked, IsSet
<1>10. Current'
  BY <1>1, <1>3, <1>4, <1>5 DEF Current, Landed
<1>11. InHand' /\ Sealed'
  BY <1>1, <1>3, <1>4 DEF InHand, Sealed, Fitting, Clean, Landed, Changing, IsLocked, IsSet, Opens
<1>. QED  BY <1>4, <1>6, <1>7, <1>8, <1>9, <1>10, <1>11

\* set_scope: the session has the new password's keys.
LEMMA SetScopeStep ==
  ASSUME HistoryInv, SetScope
  PROVE  HistoryInv'
<1>. USE HistoryAssumption DEF HistoryInv, TypeOK
<1>1. /\ UNCHANGED <<salt, verifier, file, known, conv, deferred, running, wpc, job, msgs, drawn, runs>>
      /\ gui = "verified" /\ gui' = "idle" /\ keys' = salt /\ covers' \in BOOLEAN
  BY DEF SetScope, counts, Scopes
<1>2. salt # 0 /\ salt = verifier
  BY <1>1 DEF LockOK, Changing
<1>3. LockTypeOK' /\ LockOK' /\ Shut' /\ Resets' /\ gui' # "down"
  BY <1>1, <1>2 DEF LockTypeOK, LockOK, Shut, Resets, NeedsUnlock, IsSet, Changing
<1>4. CASE known \/ deferred
  <2>1. Enqueue(SaveOf(conv)) /\ mishaps' = IF deferred THEN mishaps \cup {"mixed"} ELSE mishaps
    BY <1>4 DEF SetScope, Persist, Mark
  <2>2. conv \in SUBSET Msgs /\ conv' = conv
    BY <1>1 DEF WindowTypeOK, Msgs
  <2>3. SaveOf(conv) \in Save /\ SaveOf(conv) # NoSave /\ SaveOf(conv).says = conv'
    BY <2>2, Entries
  <2>4. mishaps' \in {mishaps, mishaps \cup {"mixed"}} /\ (deferred' => "mixed" \in mishaps')
    BY <1>1, <2>1
  <2>5. WindowTypeOK'
    BY <1>1, <2>4 DEF WindowTypeOK, Mishap
  <2>. QED  BY <1>1, <1>3, <2>1, <2>3, <2>4, <2>5, QueuedStep
<1>5. CASE ~known /\ ~deferred
  <2>1. UNCHANGED <<queue, event, mishaps>>
    BY <1>5 DEF SetScope
  <2>2. (Busy' <=> Busy) /\ Due' = Due /\ SavingTypeOK' /\ FileTypeOK' /\ WriterTypeOK' /\ WindowTypeOK'
    BY <1>1, <2>1, SameSaves, SameTypes DEF WriterTypeOK, WindowTypeOK
  <2>3. DownOK' /\ OneSaves'
    BY <1>1, <2>1 DEF DownOK, OneSaves, Clean
  <2>4. Clean /\ queue = NoSave => \A t \in Threads : job[t].item.says = {}
    BY <1>1, <1>5, NothingDue DEF Unknown
  <2>5. Unknown' /\ Current' /\ InHand' /\ Sealed'
    BY <1>1, <1>5, <2>1, <2>2, <2>4 DEF Unknown, Current, InHand, Sealed, Clean, Landed
  <2>. QED  BY <1>3, <2>2, <2>3, <2>5
<1>. QED  BY <1>4, <1>5

\* remove and the end of a reset: without a lock the chat is on disk, or will
\* be, as it is.
LEMMA UnlockedStep ==
  ASSUME HistoryInv, gui' = "idle", gui \in {"idle", "resetting"}, Forget,
         UNCHANGED <<file, known, conv, deferred, saving, counts, mishaps>>,
         IsLocked => ~known /\ (~deferred \/ keys # 0)
  PROVE  HistoryInv'
<1>. USE HistoryAssumption DEF HistoryInv, TypeOK
<1>1. /\ UNCHANGED <<queue, event, running, wpc, job, msgs, drawn, runs>>
      /\ salt' = 0 /\ verifier' = 0 /\ covers' = TRUE /\ keys' = 0 /\ ~IsLocked' /\ ~NeedsUnlock'
  BY DEF Forget, ClearLock, saving, counts, IsLocked, IsSet, NeedsUnlock
<1>2. (Busy' <=> Busy) /\ Due' = Due /\ SavingTypeOK' /\ FileTypeOK'
  BY <1>1, SameSaves, SameTypes
<1>3. covers' \in BOOLEAN
  BY <1>1, Zenon
<1>4. TypeOK'
  BY <1>1, <1>2, <1>3 DEF LockTypeOK, WindowTypeOK, WriterTypeOK
<1>5. LockOK' /\ DownOK' /\ Shut' /\ OneSaves' /\ Resets'
  BY <1>1 DEF LockOK, DownOK, Shut, OneSaves, Resets, Clean, Changing
<1>6. Unknown' /\ Current'
  BY <1>1, <1>2 DEF Unknown, Current, Clean, Landed, Changing
<1>7. Clean /\ queue = NoSave /\ ~known => \A t \in Threads : job[t].item.says = {}
  BY NothingDue DEF Unknown
<1>8. InHand'
  BY <1>1, <1>7 DEF InHand, Clean, Changing
<1>9. Sealed'
  <2>1. CASE ~IsLocked
    BY <1>1, <1>2, <2>1 DEF Sealed, Fitting, Clean, Landed, Changing
  <2>2. CASE IsLocked
    BY <1>1, <1>2, <2>2 DEF Sealed, Unknown, Clean, Landed, Changing
  <2>. QED  BY <2>1, <2>2
<1>. QED  BY <1>4, <1>5, <1>6, <1>8, <1>9

LEMMA RemoveLockStep ==
  ASSUME HistoryInv, RemoveLock
  PROVE  HistoryInv'
<1>. USE HistoryAssumption DEF HistoryInv, TypeOK
<1>1. /\ UNCHANGED <<file, known, conv, deferred, running, wpc, job, gui, msgs, drawn, runs>>
      /\ gui = "idle" /\ keys # 0 /\ Forget
  BY DEF RemoveLock, Idle, NeedsUnlock, counts
<1>2. CASE known /\ IsLocked
  <2>1. Enqueue(SaveOf(conv)) /\ mishaps' = IF deferred THEN mishaps \cup {"mixed"} ELSE mishaps
    BY <1>2 DEF RemoveLock, Persist, Mark
  <2>2. conv \in SUBSET Msgs /\ conv' = conv
    BY <1>1 DEF WindowTypeOK, Msgs
  <2>3. SaveOf(conv) \in Save /\ SaveOf(conv) # NoSave /\ SaveOf(conv).says = conv'
    BY <2>2, Entries
  <2>4. mishaps' \in {mishaps, mishaps \cup {"mixed"}} /\ (deferred' => "mixed" \in mishaps')
    BY <1>1, <2>1
  <2>5. WindowTypeOK'
    BY <1>1, <2>4 DEF WindowTypeOK, Mishap
  <2>6. salt' = 0 /\ verifier' = 0 /\ covers' = TRUE /\ keys' = 0
    BY <1>1 DEF Forget, ClearLock
  <2>7. covers' \in BOOLEAN
    BY <2>6, Zenon
  <2>8. LockTypeOK' /\ LockOK' /\ Shut' /\ Resets' /\ gui' # "down"
    BY <1>1, <2>6, <2>7 DEF LockTypeOK, LockOK, Shut, Resets, IsLocked, IsSet, Changing
  <2>. QED  BY <1>1, <2>1, <2>3, <2>4, <2>5, <2>8, QueuedStep
<1>3. CASE ~(known /\ IsLocked)
  <2>1. UNCHANGED <<saving, counts, mishaps>>
    BY <1>3 DEF RemoveLock, saving
  <2>. QED  BY <1>1, <1>3, <2>1, UnlockedStep
<1>. QED  BY <1>2, <1>3

LEMMA ResetDoneStep ==
  ASSUME HistoryInv, ResetDone
  PROVE  HistoryInv'
<1>1. /\ gui = "resetting" /\ gui' = "idle" /\ Forget
      /\ UNCHANGED <<file, known, conv, deferred, saving, counts, mishaps>>
  BY DEF ResetDone
<1>2. IsLocked => ~known /\ ~deferred
  BY <1>1 DEF HistoryInv, Resets
<1>. QED  BY <1>1, <1>2, UnlockedStep

LEMMA ResetStep ==
  ASSUME HistoryInv, Reset
  PROVE  HistoryInv'
<1>. USE HistoryAssumption DEF HistoryInv, TypeOK
<1>1. /\ UNCHANGED <<salt, verifier, covers, file, keys, running, wpc, job, msgs, drawn, runs, mishaps>>
      /\ gui = "idle" /\ gui' = "reset"
  BY DEF Reset, Idle, registry, counts
<1>2. LockTypeOK' /\ LockOK' /\ Shut'
  BY <1>1 DEF LockTypeOK, LockOK, Shut, NeedsUnlock, IsLocked, IsSet, Changing
<1>3. CASE deferred \/ (known /\ IsLocked)
  <2>1. known' = FALSE /\ conv' = {} /\ deferred' = FALSE /\ Enqueue(Delete)
    BY <1>3 DEF Reset
  <2>2. known' \in BOOLEAN
    BY <2>1, Zenon
  <2>3. deferred' \in BOOLEAN
    BY <2>1, Zenon
  <2>4. WindowTypeOK' /\ Resets'
    BY <1>1, <2>1, <2>2, <2>3 DEF WindowTypeOK, Resets
  <2>. QED  BY <1>1, <1>2, <2>1, <2>4, Entries, QueuedStep
<1>4. CASE ~(deferred \/ (known /\ IsLocked))
  <2>1. UNCHANGED <<known, conv, deferred, queue, event>>
    BY <1>4 DEF Reset
  <2>2. (Busy' <=> Busy) /\ Due' = Due /\ SavingTypeOK' /\ FileTypeOK'
    BY <1>1, <2>1, SameSaves, SameTypes
  <2>3. WindowTypeOK' /\ WriterTypeOK' /\ DownOK' /\ OneSaves'
    BY <1>1, <2>1 DEF WindowTypeOK, WriterTypeOK, DownOK, OneSaves, Clean
  <2>4. Unknown' /\ Current'
    BY <1>1, <2>1, <2>2 DEF Unknown, Current, Clean, Landed, Changing, IsLocked, IsSet
  <2>5. InHand' /\ Sealed'
    BY <1>1, <2>1, <2>2 DEF InHand, Sealed, Fitting, Clean, Landed, Changing, IsLocked, IsSet, Opens
  <2>6. Resets'
    BY <1>1, <1>4, <2>1 DEF Resets, IsLocked, IsSet
  <2>. QED  BY <1>2, <2>2, <2>3, <2>4, <2>5, <2>6
<1>. QED  BY <1>3, <1>4

-----------------------------------------------------------------------------
(* Flushing.                                                               *)

LEMMA TheOther == \A t \in Threads : Other(t) \in Threads /\ Other(t) # t
<1>. SUFFICES ASSUME NEW t \in Threads PROVE Other(t) \in Threads /\ Other(t) # t
  OBVIOUS
<1>1. \E u \in Threads : u # t
  BY DEF Threads
<1>. QED  BY <1>1 DEF Other

\* The queue is taken over: unless the other thread saves, what is due is the same.
LEMMA TakeStep ==
  ASSUME HistoryInv, NEW t \in Threads, Take(t)
  PROVE  HistoryInv'
<1>. USE HistoryAssumption DEF HistoryInv, TypeOK
<1>1. /\ UNCHANGED <<salt, verifier, covers, file, keys, known, conv, deferred, event, running, msgs,
                     drawn, runs>>
      /\ queue' = NoSave
      /\ \/ gui' = gui \/ (gui = "reset" /\ gui' = "resetting") \/ (gui = "quit" /\ gui' = "quitting")
      /\ wpc' \in {wpc, "flush", "lastflush"}
  <2>1. /\ UNCHANGED <<registry, file, memory, event, running, counts>> /\ queue' = NoSave
        /\ IF t = "writer"
           THEN wpc' = (IF wpc = "debounce" THEN "flush" ELSE "lastflush") /\ UNCHANGED gui
           ELSE gui' = (IF gui = "reset" THEN "resetting" ELSE "quitting") /\ UNCHANGED wpc
    BY DEF Take
  <2>2. t = "gui" => gui \in {"reset", "quit"}
    <3>1. t = "gui" => Taking["gui"]
      BY DEF Take
    <3>2. Taking["gui"] <=> gui \in {"reset", "quit"}
      BY Zenon DEF Taking
    <3>. QED  BY <3>1, <3>2
  <2>3. t = "writer" \/ t = "gui"
    BY DEF Threads
  <2>. QED  BY <2>1, <2>2, <2>3 DEF registry, memory, counts
<1>2. \/ queue = NoSave /\ UNCHANGED <<job, mishaps>>
      \/ /\ queue # NoSave
         /\ job' = [job EXCEPT ![t] = [at |-> "check", item |-> queue, key |-> 0]]
         /\ mishaps' = IF job[Other(t)] # Resting THEN mishaps \cup {"overlap"} ELSE mishaps
  BY DEF Take, Mark
<1>3. LockTypeOK' /\ WindowTypeOK' /\ WriterTypeOK' /\ FileTypeOK'
  BY <1>1, <1>2 DEF LockTypeOK, WindowTypeOK, WriterTypeOK, FileTypeOK, Mishap
<1>4. [at |-> "check", item |-> queue, key |-> 0] \in Job
  BY DEF SavingTypeOK, Job
<1>5. SavingTypeOK'
  BY <1>1, <1>2, <1>4, Entries, AtRest DEF SavingTypeOK
<1>6. CASE queue = NoSave
  <2>1. UNCHANGED <<queue, job, mishaps>>
    BY <1>1, <1>2, <1>6
  <2>2. (Busy' <=> Busy) /\ Due' = Due
    BY <2>1, SameSaves
  <2>3. LockOK' /\ DownOK' /\ Shut' /\ OneSaves' /\ Resets'
    BY <1>1, <2>1, <2>2 DEF LockOK, DownOK, Shut, OneSaves, Resets, Clean, Changing, NeedsUnlock,
                           IsLocked, IsSet
  <2>4. Unknown' /\ Current'
    BY <1>1, <2>1, <2>2 DEF Unknown, Current, Clean, Landed, Changing, IsLocked, IsSet
  <2>5. InHand' /\ Sealed'
    BY <1>1, <2>1, <2>2 DEF InHand, Sealed, Fitting, Clean, Landed, Changing, IsLocked, IsSet, Opens
  <2>. QED  BY <1>3, <1>5, <2>3, <2>4, <2>5
<1>7. CASE queue # NoSave
  <2>1. /\ job' = [job EXCEPT ![t] = [at |-> "check", item |-> queue, key |-> 0]]
        /\ mishaps' = IF job[Other(t)] # Resting THEN mishaps \cup {"overlap"} ELSE mishaps
    BY <1>2, <1>7
  <2>2. /\ job'[t].at = "check" /\ job'[t].item = queue /\ job'[t] # Resting
        /\ \A u \in Threads : u # t => job'[u] = job[u]
    BY <2>1, AtRest DEF SavingTypeOK
  <2>3. Clean' => Clean /\ \A u \in Threads : u # t => job'[u] = Resting
    BY <2>1, <2>2, TheOther DEF Clean, Threads
  <2>4. OneSaves'
    BY <2>3, TheOther DEF OneSaves
  <2>5. Clean' => Busy /\ Busy' /\ Due' = Due
    <3>1. SUFFICES ASSUME Clean' PROVE Busy /\ Busy' /\ Due' = Due
      OBVIOUS
    <3>2. Clean' /\ job'[t] # Resting /\ SavingTypeOK' /\ OneSaves' /\ queue' = NoSave
      BY <1>1, <1>5, <2>2, <2>4, <3>1
    <3>3. \A u \in Threads : u # t => job'[u].item.says = {}
      BY <2>3, <3>1, Entries, AtRest
    <3>4. Busy' /\ Due' = queue.says
      BY <2>2, <3>2, <3>3 DEF Busy, Due, Threads
    <3>. QED  BY <1>7, <3>4 DEF Busy, Due
  <2>6. Busy
    BY <1>7 DEF Busy
  <2>7. LockOK' /\ DownOK' /\ Resets'
    BY <1>1, <2>6 DEF LockOK, DownOK, Resets, Changing, IsLocked, IsSet
  <2>8. Shut'
    BY <1>1, <2>2 DEF Shut, NeedsUnlock, IsLocked, IsSet
  <2>9. Unknown'
    BY <1>1, <2>3, <2>5 DEF Unknown
  <2>10. Current'
    <3>1. mishaps' \subseteq {"lost"} => mishaps \subseteq {"lost"} /\ Clean'
      BY <2>1 DEF Clean
    <3>. QED  BY <1>1, <2>5, <2>6, <3>1 DEF Current
  <2>11. InHand'
    BY <1>1, <2>2, <2>3, Entries, AtRest DEF InHand
  <2>12. Sealed'
    BY <2>5 DEF Sealed
  <2>. QED  BY <1>3, <1>5, <2>4, <2>7, <2>8, <2>9, <2>10, <2>11, <2>12
<1>. QED  BY <1>6, <1>7

\* A thread that has the chat looks at the lock, and at the keys.
LEMMA LookStep ==
  ASSUME HistoryInv, NEW t \in Threads, NEW j \in Job,
         UNCHANGED <<registry, memory, queue, event, running, wpc, gui, counts, file, mishaps>>,
         job' = [job EXCEPT ![t] = j],
         job[t].at # "rest", j.item = job[t].item, j.at \in {"seal", "write"},
         \/ /\ job[t].at = "check" /\ j.key = 0
            /\ j.at = IF IsLocked THEN "seal" ELSE "write"
         \/ job[t].at = "seal" /\ j.at = "write" /\ j.key = keys /\ keys # 0
  PROVE  HistoryInv'
<1>. USE HistoryAssumption DEF HistoryInv, TypeOK
<1>1. UNCHANGED <<salt, verifier, covers, keys, known, conv, deferred, msgs, drawn, runs>>
  BY DEF registry, memory, counts
<1>2. /\ job'[t] = j /\ j # Resting /\ job[t] # Resting
      /\ \A u \in Threads : u # t => job'[u] = job[u]
  BY AtRest DEF SavingTypeOK
<1>3. SavingTypeOK'
  BY <1>1, <1>2 DEF SavingTypeOK
<1>4. LockTypeOK' /\ WindowTypeOK' /\ WriterTypeOK' /\ FileTypeOK'
  BY <1>1 DEF LockTypeOK, WindowTypeOK, WriterTypeOK, FileTypeOK
<1>5. Busy /\ Busy'
  BY <1>2 DEF Busy
<1>6. Due' = Due
  BY <1>2 DEF Due, Threads
<1>7. (Clean' <=> Clean) /\ (Landed' <=> Landed) /\ (Changing' <=> Changing) /\ (IsLocked' <=> IsLocked)
  BY <1>1 DEF Clean, Landed, Changing, IsLocked, IsSet
<1>8. LockOK' /\ DownOK' /\ Resets'
  BY <1>1, <1>5, <1>7 DEF LockOK, DownOK, Resets
<1>9. OneSaves'
  BY <1>2, <1>7 DEF OneSaves
<1>10. Shut'
  BY <1>1, <1>2, <1>7 DEF Shut, NeedsUnlock, IsSet
<1>11. Unknown' /\ Current' /\ Sealed'
  BY <1>1, <1>5, <1>6, <1>7 DEF Unknown, Current, Sealed
<1>12. InHand'
  BY <1>1, <1>2, <1>7 DEF InHand, LockOK
<1>. QED  BY <1>3, <1>4, <1>8, <1>9, <1>10, <1>11, <1>12

\* A save ends: in the file, or lost.
LEMMA SavedStep ==
  ASSUME HistoryInv, NEW t \in Threads,
         UNCHANGED <<registry, memory, queue, event, running, wpc, gui, counts>>,
         job' = [job EXCEPT ![t] = Resting], job[t].at # "rest",
         \/ file' = file /\ mishaps' = mishaps \cup {"lost"}
         \/ /\ file' = Written(job[t]) /\ mishaps' = mishaps \ {"lost"}
            /\ job[t].at = "write" \/ job[t].item = Delete
  PROVE  HistoryInv'
<1>. USE HistoryAssumption DEF HistoryInv, TypeOK
<1>1. UNCHANGED <<salt, verifier, covers, keys, known, conv, deferred, msgs, drawn, runs>>
  BY DEF registry, memory, counts
<1>2. /\ job'[t] = Resting /\ job[t] # Resting
      /\ \A u \in Threads : u # t => job'[u] = job[u]
  BY AtRest DEF SavingTypeOK
<1>3. SavingTypeOK'
  BY <1>1, <1>2, Entries, AtRest DEF SavingTypeOK
<1>4. /\ Written(job[t]) \in File /\ Written(job[t]).says = job[t].item.says
      /\ Written(job[t]).form = "none" => Written(job[t]) = NoFile
      /\ Written(job[t]).form = "cipher" <=> Written(job[t]).key # 0
      /\ job[t].item.says # {} =>
           /\ Written(job[t]).form = IF job[t].key = 0 THEN "plain" ELSE "cipher"
           /\ Written(job[t]).key = job[t].key
  <2>1. job[t].item.says \in SUBSET Msgs /\ job[t].key \in 0..MaxKeys
    BY DEF SavingTypeOK, WindowTypeOK, Msgs, Job
  <2>2. CASE job[t].item = Delete
    BY <2>2, Entries, AtRest DEF Written
  <2>3. CASE job[t].item # Delete
    BY <2>1, <2>3 DEF Written, File
  <2>. QED  BY <2>2, <2>3
<1>5. FileTypeOK'
  <2>1. CASE file' = file
    BY <1>1, <2>1 DEF FileTypeOK
  <2>2. CASE file' = Written(job[t])
    BY <1>1, <1>4, <2>2 DEF FileTypeOK, SavingTypeOK
  <2>. QED  BY <2>1, <2>2
<1>6. LockTypeOK' /\ WindowTypeOK' /\ WriterTypeOK'
  BY <1>1 DEF LockTypeOK, WindowTypeOK, WriterTypeOK, Mishap
<1>7. (Clean' <=> Clean) /\ (Changing' <=> Changing) /\ (IsLocked' <=> IsLocked)
  BY <1>1 DEF Clean, Changing, IsLocked, IsSet
<1>8. Busy
  BY <1>2 DEF Busy
<1>9. LockOK' /\ DownOK' /\ Resets'
  BY <1>1, <1>7, <1>8 DEF LockOK, DownOK, Resets
<1>10. OneSaves'
  BY <1>2, <1>7 DEF OneSaves
<1>11. Shut'
  BY <1>1, <1>2, <1>7, AtRest DEF Shut, NeedsUnlock, IsSet
<1>12. Clean => /\ queue # NoSave => Busy' /\ Due' = Due
                /\ queue = NoSave => /\ ~Busy' /\ Due = job[t].item.says
                                     /\ \A u \in Threads : job'[u] = Resting
  BY <1>2, DueInHand DEF Busy, Due
<1>13. Clean /\ ~Busy' /\ Landed' =>
         file' = Written(job[t]) /\ file'.says = Due /\ (job[t].at = "write" \/ job[t].item = Delete)
  BY <1>4, <1>12 DEF Landed
<1>14. Unknown'
  BY <1>1, <1>7, <1>8, <1>12, <1>13 DEF Unknown
<1>15. Current'
  <2>1. mishaps' \subseteq {"lost"} => mishaps \subseteq {"lost"}
    <3>1. mishaps \subseteq mishaps' \cup {"lost"}
      OBVIOUS
    <3>. QED  BY <3>1
  <2>2. mishaps \subseteq {"lost"} => Clean
    BY DEF Clean
  <2>. QED  BY <1>1, <1>8, <1>12, <1>13, <2>1, <2>2 DEF Current
<1>16. InHand'
  BY <1>1, <1>2, <1>7, Entries, AtRest DEF InHand
<1>17. Sealed'
  <2>1. SUFFICES ASSUME Clean, Landed', ~Changing, ~Busy', file'.says # {} PROVE Fitting'
    BY <1>7 DEF Sealed
  <2>2. /\ file' = Written(job[t]) /\ job[t].item.says # {} /\ queue = NoSave /\ job[t].at = "write"
    BY <1>4, <1>12, <1>13, <2>1, Entries
  <2>3. IF IsLocked THEN job[t].key = salt /\ salt = verifier ELSE job[t].key = 0
    BY <2>1, <2>2 DEF InHand
  <2>4. IsLocked => salt # 0
    BY DEF IsLocked, IsSet
  <2>. QED  BY <1>1, <1>4, <1>7, <2>2, <2>3, <2>4 DEF Fitting, Opens
<1>. QED  BY <1>3, <1>5, <1>6, <1>9, <1>10, <1>11, <1>14, <1>15, <1>16, <1>17

LEMMA FlushStep ==
  ASSUME HistoryInv, NEW t \in Threads, Flush(t)
  PROVE  HistoryInv'
<1>. USE DEF HistoryInv, TypeOK
<1>1. UNCHANGED <<registry, memory, queue, event, running, wpc, gui, counts>>
  BY DEF Flush
<1>2. /\ job[t] \in Job /\ job \in [Threads -> Job] /\ keys \in 0..MaxKeys
      /\ job[t].at \in {"check", "seal"} => job[t].key = 0
  BY DEF SavingTypeOK, LockTypeOK
<1>3. CASE Check(t) /\ UNCHANGED <<file, mishaps>>
  <2>. DEFINE j == [job[t] EXCEPT !.at = IF IsLocked THEN "seal" ELSE "write"]
  <2>1. /\ job' = [job EXCEPT ![t] = j] /\ job[t].at = "check" /\ j \in Job
        /\ j.item = job[t].item /\ j.key = 0 /\ j.at = IF IsLocked THEN "seal" ELSE "write"
    BY <1>2, <1>3 DEF Check, Job
  <2>. HIDE DEF j
  <2>. QED  BY <1>1, <1>3, <2>1, LookStep
<1>4. CASE Seal(t) /\ keys # 0 /\ UNCHANGED file
  <2>. DEFINE j == [job[t] EXCEPT !.at = "write", !.key = keys]
  <2>1. /\ job' = [job EXCEPT ![t] = j] /\ job[t].at = "seal" /\ j \in Job
        /\ j.item = job[t].item /\ j.key = keys /\ j.at = "write" /\ mishaps' = mishaps
    BY <1>2, <1>4 DEF Seal, Job
  <2>. HIDE DEF j
  <2>. QED  BY <1>1, <1>4, <2>1, LookStep
<1>5. CASE Seal(t) /\ keys = 0 /\ UNCHANGED file
  <2>1. job' = [job EXCEPT ![t] = Resting] /\ job[t].at = "seal" /\ mishaps' = mishaps \cup {"lost"}
    BY <1>5 DEF Seal, Mark
  <2>. QED  BY <1>1, <1>5, <2>1, SavedStep
<1>6. CASE Write(t)
  <2>1. /\ job' = [job EXCEPT ![t] = Resting] /\ job[t].at # "rest"
        /\ job[t].at = "write" \/ job[t].item = Delete
        /\ \/ file' = file /\ mishaps' = mishaps \cup {"lost"}
           \/ file' = Written(job[t]) /\ mishaps' = mishaps \ {"lost"}
    BY <1>6 DEF Write, Mark
  <2>. QED  BY <1>1, <2>1, SavedStep
<1>. QED  BY <1>3, <1>4, <1>5, <1>6 DEF Flush

-----------------------------------------------------------------------------
(* The program.                                                            *)

LEMMA OffStep ==
  ASSUME HistoryInv, Off
  PROVE  HistoryInv'
<1>. USE HistoryAssumption DEF HistoryInv, TypeOK
<1>1. /\ UNCHANGED <<salt, verifier, covers, file, msgs, drawn, runs>>
      /\ gui' = "down" /\ keys' = 0 /\ known' = FALSE /\ conv' = {} /\ deferred' = FALSE
      /\ queue' = NoSave /\ event' = FALSE /\ running' = TRUE /\ wpc' = "wait"
      /\ job' = [t \in Threads |-> Resting]
      /\ mishaps' = IF Unsaved THEN mishaps \cup {"unclean"} ELSE mishaps
  BY DEF Off, Mark, registry, counts
<1>2. known' \in BOOLEAN
  BY <1>1, Zenon
<1>3. deferred' \in BOOLEAN
  BY <1>1, Zenon
<1>4. event' \in BOOLEAN
  BY <1>1, Zenon
<1>5. running' \in BOOLEAN
  BY <1>1, Zenon
<1>6. SavingTypeOK'
  BY <1>1, Entries, AtRest DEF SavingTypeOK
<1>7. LockTypeOK' /\ WindowTypeOK' /\ WriterTypeOK' /\ FileTypeOK'
  BY <1>1, <1>2, <1>3, <1>4, <1>5 DEF LockTypeOK, WindowTypeOK, WriterTypeOK, FileTypeOK, Mishap
<1>8. ~Busy'
  BY <1>1 DEF Busy
<1>9. LockOK' /\ DownOK' /\ OneSaves' /\ Unknown' /\ Current' /\ Resets'
  BY <1>1, <1>8 DEF LockOK, DownOK, OneSaves, Unknown, Current, Resets, Changing, Threads
<1>10. Shut' /\ InHand'
  BY <1>1, Entries, AtRest DEF Shut, InHand
<1>11. Sealed'
  <2>1. Clean' => Clean /\ ~Busy /\ ~Changing
    BY <1>1 DEF Clean, Unsaved, Busy, Changing
  <2>2. (Landed' <=> Landed) /\ (Fitting' <=> Fitting)
    BY <1>1 DEF Landed, Fitting, IsLocked, IsSet, Opens
  <2>. QED  BY <1>1, <2>1, <2>2 DEF Sealed
<1>. QED  BY <1>6, <1>7, <1>9, <1>10, <1>11

\* A new start reads what it can.
LEMMA StartStep ==
  ASSUME HistoryInv, Start
  PROVE  HistoryInv'
<1>. USE HistoryAssumption DEF HistoryInv, TypeOK
<1>1. /\ UNCHANGED <<salt, verifier, covers, file, keys, queue, event, running, wpc, job, msgs, drawn, mishaps>>
      /\ gui = "down" /\ gui' = "idle" /\ runs < MaxRuns /\ runs' = runs + 1
      /\ deferred' = (file.form = "cipher")
      /\ \/ file.form = "plain" /\ known' = TRUE /\ conv' = file.says
         \/ file.form # "plain" /\ UNCHANGED <<known, conv>>
  BY DEF Start, Ingest, registry, saving
<1>2. keys = 0 /\ ~known /\ conv = {} /\ ~deferred /\ ~Busy
  BY <1>1 DEF DownOK
<1>3. (Busy' <=> Busy) /\ Due' = Due /\ SavingTypeOK' /\ FileTypeOK'
  BY <1>1, SameSaves, SameTypes
<1>4. deferred' \in BOOLEAN
  BY <1>1, Zenon
<1>5. LockTypeOK' /\ WindowTypeOK' /\ WriterTypeOK'
  <2>1. LockTypeOK' /\ WriterTypeOK'
    BY <1>1 DEF LockTypeOK, WriterTypeOK
  <2>2. CASE file.form = "plain"
    <3>1. known' = TRUE /\ conv' = file.says /\ conv' \subseteq 1..msgs'
      BY <1>1, <2>2 DEF FileTypeOK
    <3>. QED  BY <1>1, <1>4, <2>1, <3>1 DEF WindowTypeOK
  <2>3. CASE file.form # "plain"
    <3>1. UNCHANGED <<known, conv>>
      BY <1>1, <2>3
    <3>. QED  BY <1>1, <1>4, <2>1, <3>1 DEF WindowTypeOK
  <2>. QED  BY <2>2, <2>3
<1>6. LockOK' /\ DownOK' /\ Shut' /\ OneSaves' /\ Resets'
  BY <1>1, <1>2 DEF LockOK, DownOK, Shut, OneSaves, Resets, Clean, Changing, NeedsUnlock, IsLocked, IsSet
<1>7. file.form \notin {"plain", "cipher"} => file.says = {}
  BY AtRest DEF FileTypeOK, File
<1>8. Unknown' /\ Current'
  BY <1>1, <1>2, <1>3, <1>7 DEF Unknown, Current
<1>9. InHand' /\ Sealed'
  BY <1>1, <1>2, <1>3 DEF InHand, Sealed, Fitting, Clean, Landed, Changing, IsLocked, IsSet, Opens
<1>. QED  BY <1>3, <1>5, <1>6, <1>8, <1>9

-----------------------------------------------------------------------------
(* The theorems.                                                           *)

LEMMA HistoryInvInit == HInit => HistoryInv
<1>. SUFFICES ASSUME HInit PROVE HistoryInv
  OBVIOUS
<1>. USE HistoryAssumption DEF HInit
<1>1. ~Busy /\ ~Changing
  BY DEF Busy, Changing
<1>2. known \in BOOLEAN
  BY Zenon
<1>3. deferred \in BOOLEAN
  BY Zenon
<1>4. event \in BOOLEAN
  BY Zenon
<1>5. running \in BOOLEAN
  BY Zenon
<1>6. covers \in BOOLEAN
  BY Zenon
<1>7. LockTypeOK /\ WindowTypeOK /\ WriterTypeOK
  BY <1>2, <1>3, <1>4, <1>5, <1>6 DEF LockTypeOK, WindowTypeOK, WriterTypeOK
<1>8. SavingTypeOK /\ FileTypeOK
  BY Entries, AtRest DEF SavingTypeOK, FileTypeOK
<1>9. LockOK /\ DownOK /\ OneSaves /\ Resets /\ Unknown /\ Current
  BY <1>1 DEF LockOK, DownOK, OneSaves, Resets, Unknown, Current, Changing, Threads
<1>10. Shut /\ InHand /\ Sealed
  BY Entries, AtRest DEF Shut, InHand, Sealed
<1>. QED  BY <1>7, <1>8, <1>9, <1>10 DEF HistoryInv, TypeOK

LEMMA HistoryInvStep == HistoryInv /\ [HNext]_hvars => HistoryInv'
<1>. SUFFICES ASSUME HistoryInv, [HNext]_hvars PROVE HistoryInv'
  OBVIOUS
<1>1. CASE Store \/ ClearAll \/ DeletePeer
  BY <1>1, ConversationStep
<1>2. CASE SetSalt \/ SetVerifier \/ WriterWakes \/ WriterRests \/ Shutdown \/ Joined
  BY <1>2, QuietStep
<1>3. CASE Gate
  BY <1>3, UnlockStep, ResetStep DEF Gate
<1>4. CASE SetScope \/ RemoveLock \/ ResetDone
  BY <1>4, SetScopeStep, RemoveLockStep, ResetDoneStep
<1>5. ASSUME NEW t \in Threads, Take(t) \/ Flush(t) PROVE HistoryInv'
  BY <1>5, TakeStep, FlushStep
<1>6. CASE Quit \/ Crash
  BY <1>6, OffStep DEF Quit, Crash
<1>7. CASE Start
  BY <1>7, StartStep
<1>8. CASE UNCHANGED hvars
  <2>1. /\ UNCHANGED <<salt, verifier, covers, file, keys, known, conv, deferred, queue, event, running, wpc>>
        /\ UNCHANGED <<job, gui, msgs, drawn, runs, mishaps>>
    BY <1>8 DEF hvars, registry, memory, saving, counts
  <2>. QED  BY <2>1 DEF HistoryInv, TypeOK, LockTypeOK, WindowTypeOK, WriterTypeOK, SavingTypeOK,
                        FileTypeOK, LockOK, DownOK, Shut, OneSaves, Unknown, Current, InHand, Sealed,
                        Fitting, Resets, Clean, Landed, Changing, Busy, Due, IsLocked, IsSet, NeedsUnlock,
                        Opens
<1>. QED  BY <1>1, <1>2, <1>3, <1>4, <1>5, <1>6, <1>7, <1>8 DEF HNext, User, Saver

LEMMA HistoryInvHolds == HSpec => []HistoryInv
BY HistoryInvInit, HistoryInvStep, PTL DEF HSpec

\* Every variable keeps its type: a file is ciphertext exactly when it has a key.
THEOREM HistoryTypeCorrect == HSpec => []HistoryTypeOK
BY HistoryInvHolds, HistoryInvImplies, PTL

\* When nothing is queued or being saved, a locked chat's file is one that the
\* stored password opens, another's is plain, and the file has what the window
\* has (_flush_saves, set_password, _reset_lock), with the exceptions FileAtRest
\* names: lost or overlapping saves and an unclean end of the program.
THEOREM FileIsAsItShould == HSpec => []FileAtRest
BY HistoryInvHolds, HistoryInvImplies, PTL

\* Ciphertext is never overwritten while nobody has given the password
\* (_flush_saves): a file that changes then is deleted.
THEOREM CiphertextIsKept == HSpec => CiphertextIsSafe
<1>1. ASSUME HistoryInv, [HNext]_hvars, IsLocked, NeedsUnlock, gui # "verified"
      PROVE  file' \in {file, NoFile}
  <2>1. ASSUME NEW t \in Threads, Write(t) PROVE file' \in {file, NoFile}
    BY <1>1, <2>1 DEF HistoryInv, Shut, Write, Written
  <2>2. file' = file \/ \E t \in Threads : Write(t)
    BY <1>1 DEF HNext, User, Saver, Gate, Store, ClearAll, DeletePeer, SetSalt, RemoveLock, Unlock, Reset,
                Shutdown, SetVerifier, SetScope, ResetDone, WriterWakes, WriterRests, Take, Flush,
                Joined, Quit, Crash, Off, Start, hvars
  <2>. QED  BY <2>1, <2>2
<1>2. HistoryInv /\ [HNext]_hvars =>
        [IsLocked /\ NeedsUnlock /\ gui # "verified" /\ file.form = "cipher" => file' \in {file, NoFile}]_hvars
  BY <1>1
<1>. QED  BY <1>2, HistoryInvHolds, PTL DEF HSpec, CiphertextIsSafe
=============================================================================
