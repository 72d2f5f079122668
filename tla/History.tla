------------------------------- MODULE History -------------------------------
(***************************************************************************)
(* One conversation on its way to disk and back, under the chat lock:      *)
(* ChatWindow's debounced writer (nst/qt/chat_window.py), the key kept by  *)
(* nst/chatlock.py, and the lock's values in the registry.                 *)
(*                                                                         *)
(* Two threads write: the writer, and the GUI thread when the lock is      *)
(* reset and when the program ends.  A password, with the salt drawn for   *)
(* it, is a number; the user remembers every password.  A message is a     *)
(* number, a history a set of them; the temporary file is part of Write.   *)
(***************************************************************************)
EXTENDS Naturals

CONSTANTS
  MaxMsgs,    \* bound: messages that arrive
  MaxKeys,    \* bound: passwords that are set
  MaxRuns,    \* bound: starts of the program
  MayFail     \* whether a write to the disk may fail

ASSUME HistoryAssumption ==
  MaxMsgs \in Nat /\ MaxKeys \in Nat /\ MaxRuns \in Nat /\ MayFail \in BOOLEAN

VARIABLES
  salt, verifier,   \* registry: 0, or the password they were made from
  covers,           \* registry: scope and list say this chat is locked
  file,             \* the history file
  keys,             \* the password whose keys this session holds, or 0
  known, conv,      \* whether _conversations has the chat, and its messages
  deferred,         \* the chat is in _locked_files
  queue,            \* its entry in _save_queue
  event, running,   \* _save_event, _save_running
  wpc,              \* where the writer thread is
  job,              \* job[t]: what thread t is flushing
  gui,              \* what the GUI thread is in the middle of
  msgs, drawn, runs,   \* counts of messages, passwords and starts
  mishaps           \* history: what the properties except, see Mishap

registry == <<salt, verifier, covers>>
memory   == <<keys, known, conv, deferred>>
saving   == <<queue, event, running, wpc, job>>
counts   == <<msgs, drawn, runs>>
hvars == <<registry, file, memory, saving, gui, counts, mishaps>>

Msgs == 1..MaxMsgs
Threads == {"writer", "gui"}

NoFile == [form |-> "none", key |-> 0, says |-> {}]
File == [form : {"none", "plain", "cipher"}, key : 0..MaxKeys, says : SUBSET Msgs]

\* Entries of the queue.
NoSave  == [type |-> "none", says |-> {}]
Delete  == [type |-> "delete", says |-> {}]
SaveOf(c) == [type |-> "save", says |-> c]
Save == {NoSave, Delete} \cup {SaveOf(c) : c \in SUBSET Msgs}

Resting == [at |-> "rest", item |-> NoSave, key |-> 0]
Job == [at : {"rest", "check", "seal", "write"}, item : Save, key : 0..MaxKeys]

\* "lost": the last save was skipped or failed; "overlap": a thread began to
\* flush while the other was flushing; "unclean": the program ended with
\* something unsaved; "mixed": a save was asked for while the file was deferred.
Mishap == {"lost", "overlap", "unclean", "mixed"}

HistoryTypeOK ==
  /\ salt \in 0..MaxKeys /\ verifier \in 0..MaxKeys /\ covers \in BOOLEAN
  /\ file \in File /\ (file.form = "none" => file = NoFile)
  /\ (file.form = "cipher") = (file.key # 0)
  /\ keys \in 0..MaxKeys /\ known \in BOOLEAN /\ deferred \in BOOLEAN
  /\ conv \subseteq 1..msgs /\ (conv # {} => known)
  /\ queue \in Save /\ event \in BOOLEAN /\ running \in BOOLEAN
  /\ wpc \in {"wait", "debounce", "flush", "last", "lastflush", "ended"}
  /\ job \in [Threads -> Job]
  /\ \A t \in Threads : job[t].at = "rest" <=> job[t] = Resting
  /\ gui \in {"down", "idle", "salted", "verified", "reset", "resetting", "join", "quit", "quitting"}
  /\ msgs \in 0..MaxMsgs /\ drawn \in 0..MaxKeys /\ runs \in 0..MaxRuns /\ mishaps \subseteq Mishap

-----------------------------------------------------------------------------
IsSet       == salt # 0 /\ verifier # 0
NeedsUnlock == IsSet /\ keys = 0
IsLocked    == IsSet /\ covers

\* decrypt_payload: the tag is checked with the session's keys.
Opens(f, k) == f.form = "cipher" /\ f.key = k

\* _enqueue_save: a later entry of the chat replaces an earlier one.
Enqueue(entry) == queue' = entry /\ event' = TRUE

Mark(here, m) == mishaps' = IF here THEN mishaps \cup {m} ELSE mishaps

\* _save_peer with _enqueue_save.
Persist(c) == Enqueue(SaveOf(c)) /\ Mark(deferred, "mixed")

\* Mutant: the messages are read, the chat is not entered.
IngestMessages(says) == conv' = says /\ UNCHANGED known

\* _ingest_history.
Ingest(says) == known' = TRUE /\ conv' = says

\* _LockSetupDialog: the whole chat, or a list with this one or without it.
Scopes == BOOLEAN

Idle == gui = "idle"

-----------------------------------------------------------------------------
(* The conversation.                                                       *)

\* A message comes or is sent: _store, then _persist.
Store ==
  /\ Idle /\ msgs < MaxMsgs
  /\ msgs' = msgs + 1
  /\ known' = TRUE /\ conv' = conv \cup {msgs + 1}
  /\ Persist(conv')
  /\ UNCHANGED <<registry, file, keys, deferred, running, wpc, job, gui, drawn, runs>>

\* clear_all_history: the chats in memory are emptied and saved.
ClearAll ==
  /\ Idle /\ known
  /\ known' = FALSE /\ conv' = {}
  /\ Persist({})
  /\ UNCHANGED <<registry, file, keys, deferred, running, wpc, job, gui, counts>>

\* _delete_peer: with its file, whether or not that could be read.
DeletePeer ==
  /\ Idle /\ known
  /\ known' = FALSE /\ conv' = {}
  /\ Enqueue(Delete) /\ Mark(deferred, "mixed")
  /\ UNCHANGED <<registry, file, keys, deferred, running, wpc, job, gui, counts>>

-----------------------------------------------------------------------------
(* The lock.                                                               *)

\* set_password, for setup_lock: the salt is stored first ...
SetSalt ==
  /\ Idle /\ ~NeedsUnlock /\ drawn < MaxKeys
  /\ drawn' = drawn + 1 /\ salt' = drawn'
  /\ gui' = "salted"
  /\ UNCHANGED <<verifier, covers, file, memory, saving, msgs, runs, mishaps>>

\* ... then the verifier.
SetVerifier ==
  /\ gui = "salted"
  /\ verifier' = salt
  /\ gui' = "verified"
  /\ UNCHANGED <<salt, covers, file, memory, saving, counts, mishaps>>

\* Mutant: the chat is not saved again under its new key.
SetScopeOnly ==
  /\ gui = "verified"
  /\ keys' = salt
  /\ covers' \in Scopes
  /\ gui' = "idle"
  /\ UNCHANGED <<salt, verifier, file, known, conv, deferred, saving, counts, mishaps>>

\* The keys, set_scope, and every chat saved again: one that could not be
\* opened is saved as it is in memory.
SetScope ==
  /\ gui = "verified"
  /\ keys' = salt
  /\ covers' \in Scopes
  /\ gui' = "idle"
  /\ IF known \/ deferred THEN Persist(conv) ELSE UNCHANGED <<queue, event, mishaps>>
  /\ UNCHANGED <<salt, verifier, file, known, conv, deferred, running, wpc, job, counts>>

\* clear, with clear_lock: an absent scope reads "global".
ClearLock == salt' = 0 /\ verifier' = 0 /\ covers' = TRUE
Forget == keys' = 0 /\ ClearLock

RemoveLock ==
  /\ Idle /\ IsSet /\ ~NeedsUnlock
  /\ Forget
  /\ IF known /\ IsLocked THEN Persist(conv) ELSE UNCHANGED <<queue, event, mishaps>>
  /\ UNCHANGED <<file, known, conv, deferred, running, wpc, job, gui, counts>>

\* _load_locked_after_unlock: what was read replaces what memory has.
LoadLocked(k) ==
  IF deferred /\ Opens(file, k)
  THEN Ingest(file.says) /\ deferred' = FALSE
  ELSE UNCHANGED <<known, conv, deferred>>

\* unlock: the password is tried with the stored salt against the verifier.
LetsIn(k) == k = salt /\ k = verifier

\* _run_unlock_gate, from the window, the banner or the settings.
Unlock ==
  /\ Idle /\ NeedsUnlock
  /\ \E k \in 1..MaxKeys : LetsIn(k) /\ keys' = k /\ LoadLocked(k)
  /\ UNCHANGED <<registry, file, saving, gui, counts, mishaps>>

\* _reset_lock deletes the locked chats, at once.
Reset ==
  /\ Idle /\ NeedsUnlock
  /\ IF deferred \/ (known /\ IsLocked)
     THEN known' = FALSE /\ conv' = {} /\ deferred' = FALSE /\ Enqueue(Delete)
     ELSE UNCHANGED <<known, conv, deferred, queue, event>>
  /\ gui' = "reset"
  /\ UNCHANGED <<registry, file, keys, running, wpc, job, counts, mishaps>>

\* _LockGateDialog: the password, or a reset, for which the answers to the
\* security questions are known.
Gate == Unlock \/ Reset

\* _reset_lock, after the flush: the password is forgotten.
ResetDone ==
  /\ gui = "resetting" /\ job["gui"] = Resting
  /\ Forget
  /\ gui' = "idle"
  /\ UNCHANGED <<file, known, conv, deferred, saving, counts, mishaps>>

-----------------------------------------------------------------------------
(* Flushing.                                                               *)

\* _save_writer: woken, it clears the event, and lets a burst of edits pass.
Wake ==
  /\ wpc = "wait" /\ (event \/ ~running)
  /\ wpc' = IF running THEN "debounce" ELSE "last"
  /\ event' = (event /\ ~running)

WriterWakes ==
  /\ gui # "down" /\ Wake
  /\ UNCHANGED <<registry, file, memory, queue, running, job, gui, counts, mishaps>>

Taking == [writer |-> wpc \in {"debounce", "last"}, gui |-> gui \in {"reset", "quit"}]
Other(t) == CHOOSE u \in Threads : u # t

\* _flush_saves: the queue is taken over under the lock ...
Take(t) ==
  /\ gui # "down" /\ Taking[t]
  /\ queue' = NoSave
  /\ IF queue = NoSave
     THEN UNCHANGED <<job, mishaps>>
     ELSE /\ job' = [job EXCEPT ![t] = [at |-> "check", item |-> queue, key |-> 0]]
          /\ Mark(job[Other(t)] # Resting, "overlap")
  /\ IF t = "writer"
     THEN wpc' = (IF wpc = "debounce" THEN "flush" ELSE "lastflush") /\ UNCHANGED gui
     ELSE gui' = (IF gui = "reset" THEN "resetting" ELSE "quitting") /\ UNCHANGED wpc
  /\ UNCHANGED <<registry, file, memory, event, running, counts>>

\* ... outside of it, whether the chat is locked ...
Check(t) ==
  /\ job[t].at = "check" /\ job[t].item # Delete
  /\ job' = [job EXCEPT ![t].at = IF IsLocked THEN "seal" ELSE "write"]

\* Mutant: without keys the snapshot is written as it is.
SealOrNot(t) ==
  /\ job[t].at = "seal"
  /\ job' = [job EXCEPT ![t].at = "write", ![t].key = keys]
  /\ UNCHANGED mishaps

\* ... and whether the session can encrypt are asked; if not, the save is
\* dropped.
Seal(t) ==
  /\ job[t].at = "seal"
  /\ IF keys = 0
     THEN job' = [job EXCEPT ![t] = Resting] /\ Mark(TRUE, "lost")
     ELSE job' = [job EXCEPT ![t].at = "write", ![t].key = keys] /\ UNCHANGED mishaps

Written(j) ==
  IF j.item = Delete THEN NoFile
  ELSE [form |-> IF j.key = 0 THEN "plain" ELSE "cipher", key |-> j.key, says |-> j.item.says]

\* os.replace or os.remove; every error is swallowed.
Write(t) ==
  /\ job[t].at = "write" \/ (job[t].at = "check" /\ job[t].item = Delete)
  /\ job' = [job EXCEPT ![t] = Resting]
  /\ \/ file' = Written(job[t]) /\ mishaps' = mishaps \ {"lost"}
     \/ MayFail /\ Mark(TRUE, "lost") /\ UNCHANGED file

Flush(t) ==
  /\ gui # "down"
  /\ \/ Check(t) /\ UNCHANGED <<file, mishaps>>
     \/ Seal(t) /\ UNCHANGED file
     \/ Write(t)
  /\ UNCHANGED <<registry, memory, queue, event, running, wpc, gui, counts>>

\* Mutant: the event is cleared when the round is over.
WriterRestsDeaf ==
  /\ gui # "down" /\ wpc \in {"flush", "lastflush"} /\ job["writer"] = Resting
  /\ wpc' = IF wpc = "flush" THEN "wait" ELSE "ended"
  /\ event' = FALSE
  /\ UNCHANGED <<registry, file, memory, queue, running, job, gui, counts, mishaps>>

\* The end of a round.
WriterRests ==
  /\ gui # "down" /\ wpc \in {"flush", "lastflush"} /\ job["writer"] = Resting
  /\ wpc' = IF wpc = "flush" THEN "wait" ELSE "ended"
  /\ UNCHANGED <<registry, file, memory, queue, event, running, job, gui, counts, mishaps>>

-----------------------------------------------------------------------------
(* The program.                                                            *)

Shutdown ==
  /\ Idle
  /\ running' = FALSE /\ event' = TRUE
  /\ gui' = "join"
  /\ UNCHANGED <<registry, file, memory, queue, wpc, job, counts, mishaps>>

\* join(timeout=3) returns whether or not the writer has ended.
Joined ==
  /\ gui = "join"
  /\ gui' = "quit"
  /\ UNCHANGED <<registry, file, memory, saving, counts, mishaps>>

Unsaved ==
  \/ gui \in {"salted", "verified"} \/ queue # NoSave
  \/ \E t \in Threads : job[t] # Resting

Off ==
  /\ gui' = "down"
  /\ keys' = 0 /\ known' = FALSE /\ conv' = {} /\ deferred' = FALSE
  /\ queue' = NoSave /\ event' = FALSE /\ running' = TRUE /\ wpc' = "wait"
  /\ job' = [t \in Threads |-> Resting]
  /\ Mark(Unsaved, "unclean")
  /\ UNCHANGED <<registry, file, counts>>

\* The writer is a daemon thread: what it is doing when the process ends stops.
Quit  == gui = "quitting" /\ job["gui"] = Resting /\ Off
Crash == gui # "down" /\ Off

\* __init__ and _load_history: what cannot be decrypted is remembered.
Start ==
  /\ gui = "down" /\ runs < MaxRuns
  /\ gui' = "idle" /\ runs' = runs + 1
  /\ IF file.form = "plain" THEN Ingest(file.says) ELSE UNCHANGED <<known, conv>>
  /\ deferred' = (file.form = "cipher")
  /\ UNCHANGED <<registry, file, keys, saving, msgs, drawn, mishaps>>

HInit ==
  /\ salt = 0 /\ verifier = 0 /\ covers = TRUE /\ file = NoFile
  /\ keys = 0 /\ known = FALSE /\ conv = {} /\ deferred = FALSE
  /\ queue = NoSave /\ event = FALSE /\ running = TRUE /\ wpc = "wait"
  /\ job = [t \in Threads |-> Resting]
  /\ gui = "down" /\ msgs = 0 /\ drawn = 0 /\ runs = 0 /\ mishaps = {}

User ==
  \/ Store \/ ClearAll \/ DeletePeer
  \/ SetSalt \/ RemoveLock \/ Gate \/ Shutdown

Saver ==
  \/ SetVerifier \/ SetScope \/ ResetDone
  \/ WriterWakes \/ WriterRests
  \/ \E t \in Threads : Take(t) \/ Flush(t)

HNext == User \/ Saver \/ Joined \/ Quit \/ Crash \/ Start

\* Each thread goes on: the GUI thread with what it began, the writer forever.
HSpec ==
  /\ HInit /\ [][HNext]_hvars
  /\ WF_hvars(SetVerifier \/ SetScope \/ ResetDone \/ Take("gui") \/ Flush("gui") \/ Joined)
  /\ WF_hvars(WriterWakes \/ WriterRests \/ Take("writer") \/ Flush("writer"))

-----------------------------------------------------------------------------
Quiet == queue = NoSave /\ (\A t \in Threads : job[t] = Resting) /\ gui \in {"idle", "down"}

\* _flush_saves, "never overwrite ciphertext with plaintext": while the chat is
\* locked and nobody has given or is setting a password, the encrypted file
\* stays what it is or is deleted, whatever is stored, saved or cleared meanwhile.
CiphertextIsSafe ==
  [][IsLocked /\ NeedsUnlock /\ gui # "verified" /\ file.form = "cipher" => file' \in {file, NoFile}]_hvars

\* chatlock, "a locked conversation's history file is encrypted with a key
\* derived from the password": at rest, unless a save failed, the program
\* stopped amid one or two threads saved at once, a locked chat's file is one
\* that the stored salt and verifier open, and without a lock it is plain.
SealedAtRest ==
  mishaps \subseteq {"mixed"} /\ file.says # {} =>
    IF IsLocked
    THEN salt = verifier /\ Opens(file, salt)
    ELSE file.form = "plain"

\* The debounced writer: with the same exceptions and that of a chat saved
\* while its file was still locked, the file has what the window has.
CurrentAtRest == gui = "idle" /\ mishaps = {} /\ ~deferred => file.says = conv

\* The file is as it should be, sealed and current, whenever nothing is queued
\* and no thread saves, whatever the user, the writer and the lock did before.
FileAtRest == Quiet => SealedAtRest /\ CurrentAtRest

\* What was queued is flushed, by the writer or by who flushes for it, or the
\* program ends: no wake-up is lost between the event and the queue.
SavesLand == (queue # NoSave) ~> (queue = NoSave)
=============================================================================
