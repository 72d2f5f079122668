------------------------------- MODULE Updater -------------------------------
(***************************************************************************)
(* The self-update: checks download the newest installer, an update found  *)
(* while the chat is open is staged in the registry, one found while it is *)
(* closed, or staged when it closes, is applied five seconds later, and a  *)
(* staged one left over is applied at the next start.                      *)
(*                                                                         *)
(* The installer is the environment's: started, it waits for the program   *)
(* to be gone, and installs its version if its file is whole.              *)
(***************************************************************************)
EXTENDS Naturals

CONSTANTS Workers,      \* update checks that can run at once
          MaxVersion,   \* bound on published versions
          MaxCrashes    \* bound on kills of the program

ASSUME UpdaterAssumption == MaxVersion \in Nat \ {0} /\ MaxCrashes \in Nat

VARIABLES
  up,          \* the program runs
  version,     \* __version__ of what is installed
  latest,      \* the newest release
  fetch,       \* each check's download, 0 when it is idle
  file,        \* what the temporary directory holds of each version's installer
  ready,       \* versions whose _ready signal is on its way to the GUI thread
  timers,      \* installers whose five seconds run
  staged,      \* StagedUpdateVersion and StagedUpdatePath, 0 for empty
  chat,        \* the chat window
  installer,   \* the installer that was started, 0 when none is
  crashes      \* how often the program was killed

updVars == <<up, version, latest, fetch, file, ready, timers, staged, chat, installer, crashes>>

Versions == 1..MaxVersion
Nothing == [version |-> 0, path |-> 0]

UpdaterTypeOK ==
  /\ up \in BOOLEAN
  /\ version \in Versions /\ latest \in Versions
  /\ fetch \in [Workers -> 0..MaxVersion]
  /\ file \in [Versions -> {"none", "partial", "whole"}]
  /\ ready \subseteq Versions /\ timers \subseteq Versions
  /\ staged \in [version : 0..MaxVersion, path : 0..MaxVersion]
  /\ chat \in {"closed", "minimised", "open"}
  /\ installer \in 0..MaxVersion
  /\ crashes \in 0..MaxCrashes
  /\ ~up => ready = {} /\ timers = {} /\ chat = "closed" /\ \A w \in Workers : fetch[w] = 0

UpdaterInit ==
  /\ up = TRUE /\ version = 1 /\ latest = 1
  /\ fetch = [w \in Workers |-> 0]
  /\ file = [v \in Versions |-> "none"]
  /\ ready = {} /\ timers = {} /\ staged = Nothing
  /\ chat = "closed" /\ installer = 0 /\ crashes = 0

\* Mutant: the program waits for the downloads it has started.
GoneLater == up' = FALSE /\ ready' = {} /\ timers' = {} /\ chat' = "closed" /\ UNCHANGED fetch
\* The program is gone, and with it its threads, signals and timers.
Gone == /\ up' = FALSE
        /\ fetch' = [w \in Workers |-> 0]
        /\ ready' = {} /\ timers' = {}
        /\ chat' = "closed"
Stays == UNCHANGED <<up, fetch, ready, chat>>

\* The two values of a staged update are written one after the other; a kill
\* in between leaves the first alone.
Save(v, p) == staged' = [version |-> v, path |-> p] /\ UNCHANGED crashes
Torn(v) == /\ crashes < MaxCrashes
           /\ crashes' = crashes + 1
           /\ staged' = [staged EXCEPT !.version = v]

-----------------------------------------------------------------------------
(* Checks.                                                                  *)

Publish ==
  /\ latest < MaxVersion
  /\ latest' = latest + 1
  /\ UNCHANGED <<up, version, fetch, file, ready, timers, staged, chat, installer, crashes>>

\* A check, the daily one or the user's, finds a newer version and starts to
\* write its installer over what an earlier check left or another one writes.
Check(w) ==
  /\ fetch[w] = 0
  /\ latest > version
  /\ fetch' = [fetch EXCEPT ![w] = latest]
  /\ file' = [file EXCEPT ![latest] = "partial"]
  /\ UNCHANGED <<up, version, latest, ready, timers, staged, chat, installer, crashes>>

\* The download completes and is reported, or breaks off and leaves its part.
Fetched(w, complete) ==
  /\ fetch[w] # 0
  /\ LET v == fetch[w]  shared == \E u \in Workers \ {w} : fetch[u] = v IN
     /\ file' = IF complete /\ ~shared THEN [file EXCEPT ![v] = "whole"] ELSE file
     /\ ready' = IF complete THEN ready \cup {v} ELSE ready
  /\ fetch' = [fetch EXCEPT ![w] = 0]
  /\ UNCHANGED <<up, version, latest, timers, staged, chat, installer, crashes>>

\* A virus scanner or a cleaner removes an installer.
Removed(v) ==
  /\ file[v] # "none"
  /\ \A w \in Workers : fetch[w] # v
  /\ file' = [file EXCEPT ![v] = "none"]
  /\ UNCHANGED <<up, version, latest, fetch, ready, timers, staged, chat, installer, crashes>>

-----------------------------------------------------------------------------
(* The GUI thread.                                                          *)

\* _apply: five seconds from now.
Apply(p) == timers' = timers \cup {p}

\* An update is ready: with the chat open it is staged, else applied.
OnReady(v) ==
  /\ v \in ready
  /\ \/ /\ chat = "open"
        /\ \/ /\ Save(v, v)
              /\ ready' = ready \ {v}
              /\ UNCHANGED <<up, fetch, chat, timers>>
           \/ Torn(v) /\ Gone
     \/ /\ chat # "open"
        /\ Apply(v)
        /\ ready' = ready \ {v}
        /\ UNCHANGED <<up, fetch, chat, staged, crashes>>
  /\ UNCHANGED <<version, latest, file, installer>>

OpenChat ==
  /\ chat # "open"
  /\ chat' = "open"
  /\ UNCHANGED <<up, version, latest, fetch, file, ready, timers, staged, installer, crashes>>

\* A minimised window counts as closed, but nothing staged is applied.
Minimise ==
  /\ chat = "open"
  /\ chat' = "minimised"
  /\ UNCHANGED <<up, version, latest, fetch, file, ready, timers, staged, installer, crashes>>

Applicable == staged.path # 0 /\ staged.version > version /\ file[staged.path] # "none"

\* Closing the chat applies what is staged, every time.
CloseChat ==
  /\ chat # "closed"
  /\ chat' = "closed"
  /\ IF Applicable THEN Apply(staged.path) ELSE UNCHANGED timers
  /\ UNCHANGED <<up, version, latest, fetch, file, ready, staged, installer, crashes>>

\* Five seconds are over.  Without the file the staged entry is cleared; with
\* it the installer is started, or does not start, and the program quits.
Fire(p) ==
  /\ p \in timers
  /\ \/ /\ file[p] = "none"
        /\ timers' = timers \ {p}
        /\ Save(0, 0) /\ Stays /\ UNCHANGED installer
     \/ file[p] = "none" /\ Torn(0) /\ Gone /\ UNCHANGED installer
     \/ /\ file[p] # "none"
        /\ timers' = timers \ {p}
        /\ Stays /\ UNCHANGED <<staged, crashes, installer>>
     \/ file[p] # "none" /\ installer' = p /\ Gone /\ UNCHANGED <<staged, crashes>>
  /\ UNCHANGED <<version, latest, file>>

UpdaterGui == (\E v \in Versions : OnReady(v) \/ Fire(v)) \/ OpenChat \/ Minimise \/ CloseChat
UpdaterThreads == \E w \in Workers : Check(w) \/ \E complete \in BOOLEAN : Fetched(w, complete)

-----------------------------------------------------------------------------
(* Starting and ending.                                                     *)

Quit == Gone /\ UNCHANGED <<version, latest, file, staged, installer, crashes>>
Kill == /\ crashes < MaxCrashes
        /\ crashes' = crashes + 1
        /\ Gone /\ UNCHANGED <<version, latest, file, staged, installer>>

\* Mutant: what is staged is applied whatever its version.
ApplicableAnyway == staged.path # 0 /\ file[staged.path] # "none"
\* What a start finds staged, newer and there.
Pending == Applicable

\* A start with a newer installer staged runs it and ends, clearing the entry,
\* unless it is killed before or while it clears; it can also be killed while
\* it clears an entry that is of no use.
StartEnds ==
  /\ \/ /\ Pending
        /\ installer' = staged.path
        /\ Save(0, 0) \/ Torn(0) \/ Torn(staged.version)
     \/ /\ ~Pending /\ staged # Nothing
        /\ Torn(0)
        /\ UNCHANGED installer
  /\ UNCHANGED <<up, version, latest, fetch, file, ready, timers, chat>>

\* A start whose installer does not run goes on; without one it clears the entry.
StartRuns ==
  /\ up' = TRUE
  /\ staged' = IF Pending THEN staged ELSE Nothing
  /\ UNCHANGED <<version, latest, fetch, file, ready, timers, chat, installer, crashes>>

\* The installer replaces the program if its file is whole.
Install ==
  /\ installer # 0
  /\ version' = IF file[installer] = "whole" THEN installer ELSE version
  /\ installer' = 0
  /\ UNCHANGED <<up, latest, fetch, file, ready, timers, staged, chat, crashes>>

Running == up /\ (UpdaterGui \/ UpdaterThreads \/ Quit \/ Kill)
Starting == ~up /\ installer = 0 /\ (StartEnds \/ StartRuns)
UpdaterNext == Running \/ Starting \/ Publish \/ Install \/ \E v \in Versions : Removed(v)
UpdaterSpec == UpdaterInit /\ [][UpdaterNext]_updVars

-----------------------------------------------------------------------------
(* Properties.                                                              *)

\* The installed version never goes back: with entries left in the registry by
\* kills between its two writes, installers that fail and several updates in a
\* row, no older installer is run over a newer program.
NeverOlder == [][version' >= version]_updVars
=============================================================================
