---------------------------- MODULE MachineProofs ----------------------------
(***************************************************************************)
(* Proofs about the two parts of the program that change the machine it    *)
(* runs on: the self-update (Updater), for any number of checks, versions  *)
(* and kills, and dual access (DualAccess), for any internet addresses,    *)
(* workers and mishaps.  The two share nothing but this module.            *)
(*                                                                         *)
(* The update.  The hard part is that the two halves of a staged update    *)
(* are written one after the other, so that a kill can leave the version   *)
(* of one update with the path of an older one, and that this entry can    *)
(* survive while another update is installed.  Heir says what such an      *)
(* entry may still install once p is; it holds of everything a session can *)
(* install because a torn entry is only met by a later session, whose      *)
(* checks find nothing older than what was published when it was torn.     *)
(*                                                                         *)
(* Dual access.  The hard part is that nothing on the machine says how far *)
(* a child has come: EnableStage says, for every command that is next,     *)
(* what the adapter and the routes must be by then, and Settled what they  *)
(* are between children, from the registry alone.                          *)
(***************************************************************************)
EXTENDS Updater, DualAccess, FiniteSetTheorems, TLAPS

\* An entry that would still be applied over p does not go back behind p.
Heir(p) == staged.path # 0 /\ staged.version > p => staged.path >= p

\* What checks, signals and timers hold is newer than the program, is out, and
\* leaves no entry that goes back behind it.
Underway(p) == p > version /\ p <= latest /\ Heir(p)

Session ==
  /\ \A w \in Workers : fetch[w] # 0 => Underway(fetch[w])
  /\ \A v \in ready : Underway(v)
  /\ \A p \in timers : p >= version /\ p <= latest /\ Heir(p)

Entries ==
  /\ version <= latest /\ staged.version <= latest /\ staged.path <= latest
  /\ Heir(version)
  /\ up /\ staged.path # 0 => staged.path >= version
  /\ installer # 0 => ~up /\ installer >= version /\ installer <= latest /\ Heir(installer)

\* The inductive invariant.
UpdInv == UpdaterTypeOK /\ Session /\ Entries

-----------------------------------------------------------------------------
(* The update: types.                                                      *)

\* A start of the program has nothing under way and nothing staged.
LEMMA UpdaterStarts == UpdaterInit => UpdInv
<1> USE UpdaterAssumption
<1> SUFFICES ASSUME UpdaterInit PROVE UpdInv OBVIOUS
<1>1. UpdaterTypeOK
  <2>1. version \in Versions /\ latest \in Versions /\ crashes \in 0..MaxCrashes /\ installer \in 0..MaxVersion
    BY DEF UpdaterInit, Versions
  <2>2. fetch \in [Workers -> 0..MaxVersion] BY DEF UpdaterInit
  <2>3. file \in [Versions -> {"none", "partial", "whole"}] BY DEF UpdaterInit
  <2>4. staged \in [version : 0..MaxVersion, path : 0..MaxVersion] BY DEF UpdaterInit, Nothing
  <2>5. ready \subseteq Versions /\ timers \subseteq Versions /\ up = TRUE /\ chat = "closed"
    BY DEF UpdaterInit
  <2>6. QED BY <2>1, <2>2, <2>3, <2>4, <2>5 DEF UpdaterTypeOK
<1>2. Session /\ Entries BY DEF UpdaterInit, Session, Entries, Heir, Nothing
<1>3. QED BY <1>1, <1>2 DEF UpdInv

\* An entry is written as a pair of versions.
LEMMA StagedType ==
  ASSUME UpdaterTypeOK, NEW v \in 0..MaxVersion, NEW p \in 0..MaxVersion
  PROVE  /\ Save(v, p) \/ Torn(v) => /\ staged' \in [version : 0..MaxVersion, path : 0..MaxVersion]
                                     /\ crashes' \in 0..MaxCrashes
  BY UpdaterAssumption DEF UpdaterTypeOK, Save, Torn

\* A program that is gone, by whatever it wrote last, keeps the types.
LEMMA GoneType ==
  ASSUME UpdaterTypeOK, Gone,
         staged' \in [version : 0..MaxVersion, path : 0..MaxVersion], crashes' \in 0..MaxCrashes,
         installer' \in 0..MaxVersion, UNCHANGED <<version, latest, file>>
  PROVE  UpdaterTypeOK'
<1>1. fetch' \in [Workers -> 0..MaxVersion] /\ \A w \in Workers : fetch'[w] = 0
  BY UpdaterAssumption DEF Gone
<1>2. version' \in Versions /\ latest' \in Versions /\ file' \in [Versions -> {"none", "partial", "whole"}]
  BY DEF UpdaterTypeOK
<1>3. up' = FALSE /\ ready' = {} /\ timers' = {} /\ chat' = "closed" BY DEF Gone
<1>4. QED BY <1>1, <1>2, <1>3 DEF UpdaterTypeOK

\* Every step keeps the types.
LEMMA TypeStep ==
  ASSUME UpdaterTypeOK, UpdaterNext
  PROVE  UpdaterTypeOK'
<1> USE UpdaterAssumption DEF Versions
<1>1. staged' \in [version : 0..MaxVersion, path : 0..MaxVersion] /\ crashes' \in 0..MaxCrashes
  <2>1. 0 \in 0..MaxVersion /\ staged.version \in 0..MaxVersion BY DEF UpdaterTypeOK
  <2>2. ASSUME NEW v \in Versions, OnReady(v) \/ Fire(v)
        PROVE  staged' \in [version : 0..MaxVersion, path : 0..MaxVersion] /\ crashes' \in 0..MaxCrashes
    BY <2>1, <2>2, StagedType DEF OnReady, Fire, UpdaterTypeOK
  <2>3. CASE StartEnds BY <2>1, <2>3, StagedType DEF StartEnds, UpdaterTypeOK
  <2>4. CASE StartRuns BY <2>1, <2>4 DEF StartRuns, Nothing, UpdaterTypeOK
  <2>5. CASE Kill BY <2>5 DEF Kill, UpdaterTypeOK
  <2>6. CASE UNCHANGED <<staged, crashes>> BY <2>6 DEF UpdaterTypeOK
  <2>7. QED
    BY <2>2, <2>3, <2>4, <2>5, <2>6
    DEF UpdaterNext, Running, Starting, UpdaterGui, UpdaterThreads, OpenChat, Minimise, CloseChat, Check, Fetched,
        Quit, Publish, Install, Removed
<1>2. CASE Gone /\ UNCHANGED <<version, latest, file>> /\ installer' \in 0..MaxVersion
  BY <1>1, <1>2, GoneType
<1>3. ASSUME NEW v \in Versions, OnReady(v) PROVE UpdaterTypeOK'
  <2>1. UNCHANGED <<version, latest, file, installer>> BY <1>3 DEF OnReady
  <2>2. CASE Gone BY <1>2, <2>1, <2>2 DEF UpdaterTypeOK
  <2>3. CASE UNCHANGED <<up, fetch, chat>> /\ ready' = ready \ {v} /\ timers' \in {timers, timers \cup {v}}
    BY <1>1, <1>3, <2>1, <2>3 DEF OnReady, UpdaterTypeOK
  <2>4. QED BY <1>3, <2>2, <2>3 DEF OnReady, Apply
<1>4. ASSUME NEW p \in Versions, Fire(p) PROVE UpdaterTypeOK'
  <2>1. UNCHANGED <<version, latest, file>> /\ installer' \in 0..MaxVersion BY <1>4 DEF Fire, UpdaterTypeOK
  <2>2. CASE Gone BY <1>2, <2>1, <2>2
  <2>3. CASE Stays /\ timers' = timers \ {p}
    BY <1>1, <2>1, <2>3 DEF Stays, UpdaterTypeOK
  <2>4. QED BY <1>4, <2>2, <2>3 DEF Fire
<1>5. CASE up /\ OpenChat
  <2>2. chat' = "open" /\ up' = up BY <1>5 DEF OpenChat
  <2>3. QED BY <1>1, <1>5, <2>2 DEF OpenChat, UpdaterTypeOK
<1>6. CASE up /\ (Minimise \/ CloseChat)
  <2>1. timers' \subseteq Versions
    <3>1. CASE Minimise BY <3>1 DEF Minimise, UpdaterTypeOK
    <3>2. CASE CloseChat /\ Applicable
      <4>1. staged.path \in Versions BY <3>2 DEF Applicable, UpdaterTypeOK
      <4>2. timers' = timers \cup {staged.path} BY <3>2 DEF CloseChat, Apply
      <4>3. QED BY <4>1, <4>2 DEF UpdaterTypeOK
    <3>3. CASE CloseChat /\ ~Applicable BY <3>3 DEF CloseChat, UpdaterTypeOK
    <3>4. QED BY <1>6, <3>1, <3>2, <3>3
  <2>2. chat' \in {"closed", "minimised", "open"} BY <1>6 DEF Minimise, CloseChat
  <2>3. UNCHANGED <<up, version, latest, fetch, file, ready, installer>>
    BY <1>6 DEF Minimise, CloseChat
  <2>4. QED BY <1>1, <1>6, <2>1, <2>2, <2>3 DEF UpdaterTypeOK
<1>7. CASE up /\ UpdaterThreads
  <2>1. ASSUME NEW w \in Workers, Check(w) PROVE UpdaterTypeOK'
    <3>1. fetch' \in [Workers -> 0..MaxVersion] /\ file' \in [Versions -> {"none", "partial", "whole"}]
      BY <2>1 DEF Check, UpdaterTypeOK
    <3>2. QED BY <1>1, <1>7, <2>1, <3>1 DEF Check, UpdaterTypeOK
  <2>2. ASSUME NEW w \in Workers, NEW c \in BOOLEAN, Fetched(w, c) PROVE UpdaterTypeOK'
    <3>1. fetch[w] \in Versions BY <2>2 DEF Fetched, UpdaterTypeOK
    <3>2. fetch' \in [Workers -> 0..MaxVersion] BY <2>2 DEF Fetched, UpdaterTypeOK
    <3>3. file' \in [Versions -> {"none", "partial", "whole"}] BY <2>2, <3>1 DEF Fetched, UpdaterTypeOK
    <3>4. ready' \subseteq Versions BY <2>2, <3>1 DEF Fetched, UpdaterTypeOK
    <3>5. QED BY <1>1, <1>7, <2>2, <3>2, <3>3, <3>4 DEF Fetched, UpdaterTypeOK
  <2>3. QED BY <1>7, <2>1, <2>2 DEF UpdaterThreads
<1>8. CASE Quit \/ Kill
  BY <1>2, <1>8 DEF Quit, Kill, UpdaterTypeOK
<1>9. CASE Starting
  BY <1>1, <1>9 DEF Starting, StartEnds, StartRuns, Pending, Applicable, UpdaterTypeOK
<1>10. CASE Publish \/ Install \/ \E v \in Versions : Removed(v)
  <2>1. version' \in Versions /\ latest' \in Versions /\ installer' \in 0..MaxVersion
    BY <1>10 DEF Publish, Install, Removed, UpdaterTypeOK
  <2>2. file' \in [Versions -> {"none", "partial", "whole"}]
    BY <1>10 DEF Publish, Install, Removed, UpdaterTypeOK
  <2>3. UNCHANGED <<up, fetch, ready, timers, chat>> BY <1>10 DEF Publish, Install, Removed
  <2>4. QED BY <1>1, <2>1, <2>2, <2>3 DEF UpdaterTypeOK
<1>11. QED
  BY <1>3, <1>4, <1>5, <1>6, <1>7, <1>8, <1>9, <1>10 DEF UpdaterNext, Running, UpdaterGui

-----------------------------------------------------------------------------
(* What a session holds, and what its entries may still install.           *)

\* What a check finds is newer than the program and than every entry.
LEMMA LatestIsUnderway ==
  ASSUME UpdaterTypeOK, Entries, latest > version
  PROVE  Underway(latest)
  BY DEF UpdaterTypeOK, Entries, Underway, Heir, Versions

\* A whole entry, or none, goes back behind nothing.
LEMMA WholeEntryIsHeir ==
  ASSUME NEW v \in 0..MaxVersion, NEW p \in 0..MaxVersion, Save(v, v)
  PROVE  Heir(p)'
  BY UpdaterAssumption DEF Save, Heir

\* A program that is gone holds nothing.
LEMMA GoneSession ==
  ASSUME Gone
  PROVE  Session'
  BY DEF Gone, Session

\* Every step keeps what checks, signals, timers and entries have to do with
\* the program's version and with each other.
LEMMA SessionStep ==
  ASSUME UpdInv, UpdaterNext
  PROVE  Session' /\ Entries'
<1> USE UpdaterAssumption DEF Versions
<1>1. ASSUME up, NEW v \in Versions, OnReady(v) PROVE Session' /\ Entries'
  <2>1. Underway(v) /\ installer = 0 BY <1>1 DEF OnReady, UpdInv, Session, Entries
  <2>2. UNCHANGED <<version, latest, installer>> BY <1>1 DEF OnReady
  <2>3. CASE chat = "open" /\ Save(v, v) /\ ready' = ready \ {v} /\ UNCHANGED <<up, fetch, chat, timers>>
    <3>1. \A p \in 0..MaxVersion : Heir(p)' BY <2>3, WholeEntryIsHeir
    <3>2. Session' BY <2>2, <2>3, <3>1 DEF Session, Underway, UpdInv, UpdaterTypeOK
    <3>3. Entries' BY <2>1, <2>2, <2>3, <3>1 DEF Save, Entries, Underway, UpdInv, UpdaterTypeOK
    <3>4. QED BY <3>2, <3>3
  <2>4. CASE Torn(v) /\ Gone
    <3>1. Entries' BY <1>1, <2>1, <2>2, <2>4 DEF Torn, Gone, Entries, Underway, Heir, UpdInv, UpdaterTypeOK
    <3>2. QED BY <2>4, <3>1, GoneSession
  <2>5. CASE chat # "open" /\ Apply(v) /\ ready' = ready \ {v} /\ UNCHANGED <<up, fetch, chat, staged, crashes>>
    <3>1. \A p : Heir(p)' = Heir(p) /\ Underway(p)' = Underway(p) BY <2>2, <2>5 DEF Heir, Underway
    <3>2. Session' BY <2>1, <2>2, <2>5, <3>1 DEF Apply, Session, Underway, UpdInv, UpdaterTypeOK
    <3>3. Entries' BY <2>2, <2>5, <3>1 DEF Entries, Heir, UpdInv
    <3>4. QED BY <3>2, <3>3
  <2>6. QED BY <1>1, <2>3, <2>4, <2>5 DEF OnReady
<1>2. ASSUME up, NEW p \in Versions, Fire(p) PROVE Session' /\ Entries'
  <2>1. p >= version /\ p <= latest /\ Heir(p) /\ installer = 0
    BY <1>2 DEF Fire, UpdInv, Session, Entries
  <2>2. UNCHANGED <<version, latest>> BY <1>2 DEF Fire
  <2>3. CASE timers' = timers \ {p} /\ Save(0, 0) /\ Stays /\ UNCHANGED installer
    <3>1. \A q \in 0..MaxVersion : Heir(q)' BY <2>3, WholeEntryIsHeir
    <3>2. Session' BY <2>2, <2>3, <3>1 DEF Stays, Session, Underway, UpdInv, UpdaterTypeOK
    <3>3. Entries' BY <2>1, <2>2, <2>3, <3>1 DEF Save, Stays, Entries, UpdInv, UpdaterTypeOK
    <3>4. QED BY <3>2, <3>3
  <2>4. CASE Torn(0) /\ Gone /\ UNCHANGED installer
    <3>1. Entries' BY <2>1, <2>2, <2>4 DEF Torn, Gone, Entries, Heir, UpdInv, UpdaterTypeOK
    <3>2. QED BY <2>4, <3>1, GoneSession
  <2>5. CASE timers' = timers \ {p} /\ Stays /\ UNCHANGED <<staged, crashes, installer>>
    <3>1. \A q : Heir(q)' = Heir(q) /\ Underway(q)' = Underway(q) BY <2>2, <2>5 DEF Heir, Underway
    <3>2. Session' BY <2>2, <2>5, <3>1 DEF Stays, Session, UpdInv
    <3>3. Entries' BY <2>2, <2>5, <3>1 DEF Stays, Entries, Heir, UpdInv
    <3>4. QED BY <3>2, <3>3
  <2>6. CASE installer' = p /\ Gone /\ UNCHANGED <<staged, crashes>>
    <3>1. Entries' BY <2>1, <2>2, <2>6 DEF Gone, Entries, Heir, UpdInv
    <3>2. QED BY <2>6, <3>1, GoneSession
  <2>7. QED BY <1>2, <2>3, <2>4, <2>5, <2>6 DEF Fire
<1>3. CASE up /\ (OpenChat \/ Minimise)
  BY <1>3 DEF OpenChat, Minimise, Session, Entries, Underway, Heir, UpdInv
<1>4. CASE up /\ CloseChat
  <2>1. UNCHANGED <<up, version, latest, fetch, ready, staged, installer>> /\ chat' = "closed"
    BY <1>4 DEF CloseChat
  <2>2. \A q : Heir(q)' = Heir(q) /\ Underway(q)' = Underway(q) BY <2>1 DEF Heir, Underway
  <2>3. timers' = timers \/ (Applicable /\ timers' = timers \cup {staged.path})
    BY <1>4 DEF CloseChat, Apply
  <2>4. Applicable => staged.path >= version /\ staged.path <= latest /\ Heir(staged.path)
    BY <1>4 DEF Applicable, Heir, Entries, UpdInv, UpdaterTypeOK
  <2>5. Session' BY <2>1, <2>2, <2>3, <2>4 DEF Session, UpdInv
  <2>6. Entries' BY <2>1, <2>2 DEF Entries, Heir, UpdInv
  <2>7. QED BY <2>5, <2>6
<1>5. CASE up /\ UpdaterThreads
  <2>1. UNCHANGED <<up, version, latest, staged, installer, timers, chat>>
    BY <1>5 DEF UpdaterThreads, Check, Fetched
  <2>2. \A q : Heir(q)' = Heir(q) /\ Underway(q)' = Underway(q) BY <2>1 DEF Heir, Underway
  <2>3. Entries' BY <2>1, <2>2 DEF Entries, Heir, UpdInv
  <2>4. ASSUME NEW w \in Workers, Check(w) PROVE Session'
    <3>1. Underway(latest) BY <2>4, LatestIsUnderway DEF Check, UpdInv
    <3>2. QED BY <2>1, <2>2, <2>4, <3>1 DEF Check, Session, UpdInv, UpdaterTypeOK
  <2>5. ASSUME NEW w \in Workers, NEW c \in BOOLEAN, Fetched(w, c) PROVE Session'
    <3>1. fetch[w] # 0 /\ Underway(fetch[w]) BY <2>5 DEF Fetched, Session, UpdInv
    <3>2. QED BY <2>1, <2>2, <2>5, <3>1 DEF Fetched, Session, UpdInv, UpdaterTypeOK
  <2>6. QED BY <1>5, <2>3, <2>4, <2>5 DEF UpdaterThreads
<1>6. CASE up /\ (Quit \/ Kill)
  <2>1. Entries' BY <1>6 DEF Quit, Kill, Gone, Entries, Heir, UpdInv
  <2>2. QED BY <1>6, <2>1, GoneSession DEF Quit, Kill
<1>7. CASE Starting
  <2>1. ~up /\ installer = 0 /\ UNCHANGED <<version, latest, fetch, ready, timers, chat>>
    BY <1>7 DEF Starting, StartEnds, StartRuns
  <2>2. (\A w \in Workers : fetch[w] = 0) /\ ready = {} /\ timers = {} /\ chat = "closed"
    BY <2>1 DEF UpdInv, UpdaterTypeOK
  <2>3. Session' BY <2>1, <2>2 DEF Session
  <2>4. CASE StartEnds
    <3>1. up' = FALSE BY <2>1, <2>4 DEF StartEnds, UpdInv, UpdaterTypeOK
    <3>2. staged' \in {[version |-> 0, path |-> 0], [staged EXCEPT !.version = 0], staged}
      BY <2>4 DEF StartEnds, Save, Torn, UpdInv, UpdaterTypeOK
    <3>3. staged.version \in Nat /\ staged.path \in Nat /\ version \in Nat /\ latest \in Nat
      BY DEF UpdInv, UpdaterTypeOK
    <3>4. staged'.version <= latest /\ staged'.path <= latest
      BY <3>2, <3>3 DEF Entries, UpdInv, UpdaterTypeOK
    <3>5. Heir(version)' BY <2>1, <3>2, <3>3 DEF Heir, Entries, UpdInv, UpdaterTypeOK
    <3>6. installer' # 0 => installer' = staged.path /\ staged.path # 0 /\ staged.version > version
      BY <2>1, <2>4 DEF StartEnds, Pending, Applicable
    <3>7. installer' # 0 => installer' >= version /\ installer' <= latest
      BY <3>3, <3>6 DEF Heir, Entries, UpdInv
    <3>8. installer' # 0 => Heir(installer)'
      BY <3>2, <3>3, <3>6 DEF Heir, UpdInv, UpdaterTypeOK
    <3>9. QED BY <2>1, <2>3, <3>1, <3>3, <3>4, <3>5, <3>7, <3>8 DEF Entries, Heir, UpdInv
  <2>5. CASE StartRuns
    <3>1. installer' = 0 /\ UNCHANGED <<version, latest>> BY <2>1, <2>5 DEF StartRuns
    <3>2. CASE Pending /\ staged' = staged
      <4>1. staged.path # 0 /\ staged.version > version BY <3>2 DEF Pending, Applicable
      <4>2. staged.path >= version BY <4>1 DEF Heir, Entries, UpdInv
      <4>3. QED BY <2>3, <3>1, <3>2, <4>2 DEF Entries, Heir, UpdInv
    <3>3. CASE staged' = Nothing
      <4>1. staged'.version = 0 /\ staged'.path = 0 BY <3>3 DEF Nothing
      <4>2. latest \in Nat /\ version <= latest BY DEF Entries, UpdInv, UpdaterTypeOK
      <4>3. QED BY <2>3, <3>1, <4>1, <4>2 DEF Entries, Heir
    <3>4. QED BY <2>5, <3>2, <3>3 DEF StartRuns
  <2>6. QED BY <1>7, <2>4, <2>5 DEF Starting
<1>8. CASE Publish
  BY <1>8 DEF Publish, Session, Entries, Underway, Heir, UpdInv, UpdaterTypeOK
<1>9. CASE Install
  <2>1. ~up BY <1>9 DEF Install, Entries, UpdInv
  <2>2. (\A w \in Workers : fetch[w] = 0) /\ ready = {} /\ timers = {} /\ chat = "closed"
    BY <2>1 DEF UpdInv, UpdaterTypeOK
  <2>3. Session' BY <1>9, <2>2 DEF Install, Session
  <2>4. Entries' BY <1>9, <2>1 DEF Install, Entries, Heir, UpdInv, UpdaterTypeOK
  <2>5. QED BY <2>3, <2>4
<1>10. CASE \E v \in Versions : Removed(v)
  BY <1>10 DEF Removed, Session, Entries, Underway, Heir, UpdInv
<1>11. QED
  BY <1>1, <1>2, <1>3, <1>4, <1>5, <1>6, <1>7, <1>8, <1>9, <1>10 DEF UpdaterNext, Running, UpdaterGui

-----------------------------------------------------------------------------
(* The update: the theorems.                                               *)

\* What is fetched, reported, timed, staged and being installed fits together
\* in every state: the invariant the other theorems follow from.
THEOREM UpdaterInductive == UpdaterSpec => []UpdInv
<1>1. UpdInv /\ [UpdaterNext]_updVars => UpdInv'
  <2> SUFFICES ASSUME UpdInv, [UpdaterNext]_updVars PROVE UpdInv' OBVIOUS
  <2>1. CASE UpdaterNext BY <2>1, TypeStep, SessionStep DEF UpdInv
  <2>2. CASE UNCHANGED updVars
    BY <2>2 DEF updVars, UpdInv, UpdaterTypeOK, Session, Entries, Underway, Heir
  <2>3. QED BY <2>1, <2>2
<1>2. QED BY <1>1, UpdaterStarts, PTL DEF UpdaterSpec

\* Every variable of the updater keeps its type; a program that is gone has no
\* downloads, signals and timers.
THEOREM UpdaterTypes == UpdaterSpec => []UpdaterTypeOK
<1>1. UpdInv => UpdaterTypeOK BY DEF UpdInv
<1>2. QED BY <1>1, UpdaterInductive, PTL

\* Whatever torn entries kills leave in the registry, the installed version
\* never goes back.
THEOREM NoDowngrade == UpdaterSpec => NeverOlder
<1>1. UpdInv /\ [UpdaterNext]_updVars => [version' >= version]_updVars
  <2> SUFFICES ASSUME UpdInv, UpdaterNext PROVE version' >= version OBVIOUS
  <2>1. CASE Install BY <2>1 DEF Install, Entries, UpdInv, UpdaterTypeOK, Versions
  <2>2. CASE UNCHANGED version BY <2>2, UpdaterAssumption DEF UpdInv, UpdaterTypeOK, Versions
  <2>3. QED
    BY <2>1, <2>2
    DEF UpdaterNext, Running, Starting, UpdaterGui, UpdaterThreads, OnReady, Fire, OpenChat, Minimise, CloseChat,
        Check, Fetched, Quit, Kill, StartEnds, StartRuns, Publish, Removed
<1>2. QED BY <1>1, UpdaterInductive, PTL DEF UpdaterSpec, NeverOlder

-----------------------------------------------------------------------------
(* Dual access: types.                                                     *)

LEMMA JobTypes ==
  /\ Idle \in JobType /\ Idle.pc = "none"
  /\ \A r \in JobType : r.pc \in DOMAIN After => [r EXCEPT !.pc = After[@]] \in JobType
BY DEF Idle, JobType, Pcs, After, Automatic, Setup, Setups

LEMMA SetupTypes ==
  /\ \A p \in Profiles : /\ p \in Setups /\ (p.dnsMode = "dhcp" => p.dns = {Corp})
                         /\ Lan \in p.addrs => p.addrs = {Lan}
                         /\ \E a \in Internets \cup {Lan} : p.addrs = {a}
BY DEF Profiles, Automatic, Manual, Setup, Setups

\* The parts of a setup that commands replace.
LEMMA SetupEdits ==
  ASSUME NEW a \in Setups, NEW m \in {"dhcp", "static"}, NEW s \in SUBSET (Internets \cup {Lan}),
         NEW d \in SUBSET {Corp, Public}
  PROVE  /\ [a EXCEPT !.addrs = s] \in Setups
         /\ [a EXCEPT !.mode = m, !.addrs = s] \in Setups
         /\ [a EXCEPT !.dnsMode = m, !.dns = d] \in Setups
BY DEF Setups

\* DualTypeOK of what Windows, the registry and the history have.
MachineTypeOK ==
  /\ adapter \in Setups /\ before \in Setups
  /\ routes \subseteq Internets \cup {"intranet", Corp, Public} /\ nrpt \subseteq {Corp, Public}
  /\ store \in [active : Internets \cup {NoIp}, prev : Setups]
  /\ mishaps \in 0..MaxMishaps

\* Only what the user typed is bound and routed.
Enabling == {"static", "drop", "bind", "routes", "names", "verify"}

DualTypes ==
  /\ DualTypeOK
  /\ \A j \in Jobs : job[j].pc \in Enabling \cup {"approve"} => job[j].ip \in Internets

\* Every step of a child goes on to the next command, or ends it.
LEMMA ProceedType ==
  ASSUME DualTypeOK, NEW j \in Jobs, job[j].pc \in DOMAIN After, Proceed(j)
  PROVE  /\ job' \in [Jobs -> JobType]
         /\ job'[j] = [job[j] EXCEPT !.pc = After[job[j].pc]]
         /\ \A i \in Jobs : i # j => job'[i] = job[i]
<1>. DEFINE r == [job[j] EXCEPT !.pc = After[@]]
<1>1. r \in JobType
  BY JobTypes DEF DualTypeOK
<1>2. job' = [job EXCEPT ![j] = r]
  BY DEF Proceed, DualTypeOK
<1>. HIDE DEF r
<1>3. job' \in [Jobs -> JobType] /\ job'[j] = r /\ \A i \in Jobs : i # j => job'[i] = job[i]
  BY <1>1, <1>2 DEF DualTypeOK
<1>. QED  BY <1>3 DEF r

LEMMA MishapType ==
  ASSUME mishaps \in 0..MaxMishaps, NEW P, Mishap(P)
  PROVE  mishaps' \in 0..MaxMishaps /\ (mishaps' = 0 => mishaps = 0 /\ ~P)
BY DualAssumption DEF Mishap

\* The flags of the window, and what no command touches.
LEMMA FlagsType ==
  ASSUME DualTypeOK, DNext
  PROVE  dualActive' \in BOOLEAN /\ routeActive' \in BOOLEAN /\ admin' \in BOOLEAN
<1>. DEFINE Seen == /\ admin' = admin
                    /\ \/ dualActive' = dualActive
                       \/ dualActive' = FALSE
                       \/ \E ip \in Internets \cup {store.active} : dualActive' = Held(ip)
                    /\ \/ routeActive' = routeActive
                       \/ routeActive' = ~routeActive
                       \/ routeActive' = Routed({"intranet"})
<1>1. Seen
  <2>1. CASE \E j \in Jobs : Child(j)
    BY <2>1 DEF Child, ToStatic, DropOld, Bind, AddRoutes, SetNames, Verify, window
  <2>2. CASE \E j \in Jobs, ip \in Internets : StartEnable(j, ip) \/ StartDisable(j, ip)
    BY <2>2 DEF StartEnable, StartDisable
  <2>3. CASE \E j \in Jobs : Raise(j) \/ Approve(j)
    BY <2>3 DEF Raise, Approve, window
  <2>4. CASE \E delivered \in BOOLEAN : CheckStatus(delivered)
    BY <2>4 DEF CheckStatus
  <2>5. CASE ToggleRoute \/ \E p \in Profiles : ApplyProfile(p)
    BY <2>5 DEF ToggleRoute, ApplyProfile, window
  <2>6. CASE \E reboot \in BOOLEAN : Restart(reboot)
    BY <2>6 DEF Restart
  <2>. QED  BY <2>1, <2>2, <2>3, <2>4, <2>5, <2>6 DEF DNext
<1>2. dualActive' \in BOOLEAN
  <2>1. CASE dualActive' = dualActive
    BY <2>1 DEF DualTypeOK
  <2>2. CASE dualActive' = FALSE
    BY <2>2, Zenon
  <2>3. ASSUME NEW ip \in Internets \cup {store.active}, dualActive' = Held(ip)
        PROVE  dualActive' \in BOOLEAN
    <3>1. CASE ip \in adapter.addrs
      BY <2>3, <3>1 DEF Held
    <3>2. CASE ip \notin adapter.addrs
      BY <2>3, <3>2 DEF Held
    <3>. QED  BY <3>1, <3>2
  <2>. QED  BY <1>1, <2>1, <2>2, <2>3
<1>3. routeActive' \in BOOLEAN
  <2>1. CASE routeActive' = routeActive
    BY <2>1 DEF DualTypeOK
  <2>2. CASE routeActive' = ~routeActive
    BY <2>2, Zenon
  <2>3. CASE routeActive' = Routed({"intranet"})
    BY <2>3, Zenon DEF Routed
  <2>. QED  BY <1>1, <2>1, <2>2, <2>3
<1>. QED  BY <1>1, <1>2, <1>3 DEF DualTypeOK

LEMMA JobsType ==
  ASSUME DualTypes, DNext
  PROVE  /\ job' \in [Jobs -> JobType]
         /\ \A j \in Jobs : job'[j].pc \in Enabling \cup {"approve"} => job'[j].ip \in Internets
<1>. USE DEF DualTypes
<1>. DEFINE Good(r) == r \in JobType /\ (r.pc \in Enabling \cup {"approve"} => r.ip \in Internets)
<1>1. \A j \in Jobs : Good(job[j])
  BY DEF DualTypeOK
<1>2. Good(Idle)
  BY JobTypes DEF Enabling
<1>3. ASSUME NEW j \in Jobs, NEW r, Good(r), job' = [job EXCEPT ![j] = r]
      PROVE  job' \in [Jobs -> JobType] /\ \A i \in Jobs : Good(job'[i])
  BY <1>1, <1>3 DEF DualTypeOK
<1>4. ASSUME NEW j \in Jobs, job[j].pc \in DOMAIN After, Proceed(j)
      PROVE  job' \in [Jobs -> JobType] /\ \A i \in Jobs : Good(job'[i])
  <2>1. /\ job' \in [Jobs -> JobType]
        /\ job'[j] = [job[j] EXCEPT !.pc = After[job[j].pc]]
        /\ \A i \in Jobs : i # j => job'[i] = job[i]
    BY <1>4, ProceedType
  <2>2. job[j] \in JobType
    BY DEF DualTypeOK
  <2>3. job'[j].pc = After[job[j].pc] /\ job'[j].ip = job[j].ip
    BY <2>1, <2>2 DEF JobType
  <2>4. After[job[j].pc] \in Enabling => job[j].pc \in Enabling
    BY <1>4 DEF After, Enabling
  <2>5. After[job[j].pc] # "approve"
    BY <1>4 DEF After
  <2>. QED  BY <1>1, <2>1, <2>3, <2>4, <2>5
<1>5. ASSUME NEW j \in Jobs, NEW ip \in Internets, StartEnable(j, ip)
      PROVE  job' \in [Jobs -> JobType] /\ \A i \in Jobs : Good(job'[i])
  <2>. DEFINE r == [kind |-> "enable", pc |-> IF admin THEN "raising" ELSE "approve", live |-> TRUE,
                    ip |-> ip, old |-> store.active, was |-> adapter]
  <2>1. r \in JobType
    <3>1. TRUE \in BOOLEAN /\ store.active \in Internets \cup {NoIp} /\ adapter \in Setups
      BY DEF DualTypeOK
    <3>. QED  BY <3>1 DEF JobType, Pcs
  <2>2. job' = [job EXCEPT ![j] = r] /\ r.ip = ip
    BY <1>5 DEF StartEnable, Launch
  <2>. HIDE DEF r
  <2>. QED  BY <1>3, <2>1, <2>2
<1>6. ASSUME NEW j \in Jobs, NEW ip \in Internets, StartDisable(j, ip)
      PROVE  job' \in [Jobs -> JobType] /\ \A i \in Jobs : Good(job'[i])
  <2>. DEFINE r == [Idle EXCEPT !.kind = "disable", !.pc = "raising", !.live = TRUE,
                                !.ip = IF store.active # NoIp THEN store.active ELSE ip]
  <2>1. r \in JobType /\ r.pc = "raising"
    <3>1. TRUE \in BOOLEAN /\ store.active \in Internets \cup {NoIp}
      BY DEF DualTypeOK
    <3>. QED  BY <3>1, JobTypes DEF JobType, Pcs
  <2>2. job' = [job EXCEPT ![j] = r]
    BY <1>6 DEF StartDisable, Launch
  <2>. HIDE DEF r
  <2>. QED  BY <1>3, <2>1, <2>2 DEF Enabling
<1>8. ASSUME NEW j \in Jobs, Approve(j)
      PROVE  job' \in [Jobs -> JobType] /\ \A i \in Jobs : Good(job'[i])
  <2>. DEFINE r == [job[j] EXCEPT !.pc = "static"]
  <2>1. r \in JobType /\ r.ip \in Internets
    BY <1>1, <1>8 DEF Approve, JobType, Pcs, After
  <2>2. job' = [job EXCEPT ![j] = r] \/ job' = [job EXCEPT ![j] = Idle]
    BY <1>8 DEF Approve
  <2>. HIDE DEF r
  <2>. QED  BY <1>2, <1>3, <2>1, <2>2
<1>9. ASSUME NEW j \in Jobs, Child(j)
      PROVE  job' \in [Jobs -> JobType] /\ \A i \in Jobs : Good(job'[i])
  <2>1. \/ job' = [job EXCEPT ![j] = Idle]
        \/ job[j].pc \in DOMAIN After /\ Proceed(j)
    BY <1>9 DEF Child, ToStatic, DropOld, Bind, AddRoutes, SetNames, Verify, After
  <2>. QED  BY <1>2, <1>3, <1>4, <2>1
<1>10. ASSUME NEW reboot \in BOOLEAN, Restart(reboot)
       PROVE  job' \in [Jobs -> JobType] /\ \A i \in Jobs : Good(job'[i])
  <2>1. \A i \in Jobs : [job[i] EXCEPT !.live = FALSE] \in JobType
                        /\ [job[i] EXCEPT !.live = FALSE].ip = job[i].ip
                        /\ [job[i] EXCEPT !.live = FALSE].pc = job[i].pc
    <3>1. FALSE \in BOOLEAN
      OBVIOUS
    <3>. QED  BY <1>1, <3>1 DEF JobType
  <2>2. /\ job' = [i \in Jobs |-> job'[i]]
        /\ \A i \in Jobs : job'[i] = Idle \/ job'[i] = [job[i] EXCEPT !.live = FALSE]
    BY <1>10 DEF Restart
  <2>. QED  BY <1>1, <1>2, <2>1, <2>2
<1>11. ASSUME NEW j \in Jobs, Raise(j)
       PROVE  job' \in [Jobs -> JobType] /\ \A i \in Jobs : Good(job'[i])
  BY <1>2, <1>3, <1>11 DEF Raise
<1>12. ASSUME job' = job
       PROVE  job' \in [Jobs -> JobType] /\ \A i \in Jobs : Good(job'[i])
  BY <1>1, <1>12 DEF DualTypeOK
<1>. HIDE DEF Good
<1>13. job' \in [Jobs -> JobType] /\ \A i \in Jobs : Good(job'[i])
  BY <1>5, <1>6, <1>8, <1>9, <1>10, <1>11, <1>12
     DEF DNext, CheckStatus, ApplyProfile, ToggleRoute
<1>. QED  BY <1>13 DEF Good

\* What a child does to the machine.
LEMMA ChildType ==
  ASSUME DualTypes, NEW j \in Jobs, Child(j)
  PROVE  MachineTypeOK'
<1>. USE DualAssumption DEF DualTypes
<1>1. /\ job[j].was \in Setups /\ job[j].ip \in Internets \cup {NoIp} /\ adapter \in Setups
      /\ job[j].pc \in Enabling => job[j].ip \in Internets
      /\ store \in [active : Internets \cup {NoIp}, prev : Setups]
      /\ routes \subseteq Internets \cup {"intranet", Corp, Public} /\ nrpt \subseteq {Corp, Public}
      /\ mishaps \in 0..MaxMishaps
  BY DEF DualTypeOK, JobType, Enabling
<1>2. /\ job[j].was.mode \in {"dhcp", "static"} /\ job[j].was.dnsMode \in {"dhcp", "static"}
      /\ job[j].was.addrs \in SUBSET (Internets \cup {Lan}) /\ job[j].was.dns \in SUBSET {Corp, Public}
      /\ adapter.addrs \in SUBSET (Internets \cup {Lan})
  BY <1>1 DEF Setups
<1>3. mishaps' \in 0..MaxMishaps
  BY <1>1, MishapType DEF Child, ToStatic, DropOld, Bind, AddRoutes, SetNames, Verify, Windows
<1>4. before' = before
  BY DEF Child, ToStatic, DropOld, Bind, AddRoutes, SetNames, Verify
<1>5. ASSUME NEW done \in BOOLEAN,
             \/ ToStatic(j, done) \/ DropOld(j, done) \/ Bind(j, done) \/ SetNames(j, done)
      PROVE  /\ store' = store /\ routes' \subseteq routes /\ nrpt' \subseteq {Corp, Public}
             /\ adapter' \in Setups
  <2>1. store' = store /\ routes' \subseteq routes
    BY <1>5 DEF ToStatic, DropOld, Bind, SetNames
  <2>2. nrpt' \in {nrpt, {}, job[j].was.dns}
    BY <1>5 DEF ToStatic, DropOld, Bind, SetNames
  <2>3. adapter' \in Setups
    <3>1. CASE ToStatic(j, done)
      BY <1>1, <3>1, SetupEdits DEF ToStatic
    <3>2. CASE DropOld(j, done)
      <4>1. adapter.addrs \ {job[j].old} \in SUBSET (Internets \cup {Lan})
        BY <1>2
      <4>2. [adapter EXCEPT !.addrs = @ \ {job[j].old}] \in Setups
        BY <1>1, <4>1, SetupEdits
      <4>. QED  BY <1>1, <3>2, <4>2 DEF DropOld
    <3>3. CASE Bind(j, done)
      <4>1. job[j].ip \in Internets
        BY <1>1, <3>3 DEF Bind, Enabling
      <4>2. (IF adapter.mode = "dhcp" THEN {} ELSE adapter.addrs) \cup {job[j].ip}
              \in SUBSET (Internets \cup {Lan})
        BY <1>2, <4>1
      <4>. QED  BY <1>1, <3>3, <4>2, SetupEdits DEF Bind
    <3>4. CASE SetNames(j, done)
      <4>1. {Public} \cup job[j].was.dns \in SUBSET {Corp, Public}
        BY <1>2
      <4>. QED  BY <1>1, <3>4, <4>1, SetupEdits DEF SetNames
    <3>. QED  BY <1>5, <3>1, <3>2, <3>3, <3>4
  <2>. QED  BY <1>1, <1>2, <2>1, <2>2, <2>3
<1>6. ASSUME NEW refused \in SUBSET {job[j].ip, "intranet"}, AddRoutes(j, refused)
      PROVE  /\ UNCHANGED <<adapter, nrpt, store>>
             /\ routes' \subseteq Internets \cup {"intranet", Corp, Public}
  <2>1. job[j].ip \in Internets
    BY <1>1, <1>6 DEF AddRoutes, Enabling
  <2>. QED  BY <1>1, <1>2, <1>6, <2>1 DEF AddRoutes
<1>7. ASSUME Verify(j)
      PROVE  UNCHANGED <<adapter, routes, nrpt>> /\ store' \in [active : Internets \cup {NoIp}, prev : Setups]
  BY <1>1, <1>7 DEF Verify
<1>8. before' \in Setups
  BY <1>4 DEF DualTypeOK
<1>. QED  BY <1>1, <1>3, <1>5, <1>6, <1>7, <1>8 DEF Child, MachineTypeOK

LEMMA DualTypesStep == DualTypes /\ [DNext]_vars => DualTypes'
<1>1. ASSUME DualTypes, DNext PROVE DualTypes'
  <2>. USE <1>1, DualAssumption
  <2>1. /\ dualActive' \in BOOLEAN /\ routeActive' \in BOOLEAN /\ admin' \in BOOLEAN
        /\ job' \in [Jobs -> JobType]
        /\ \A j \in Jobs : job'[j].pc \in Enabling \cup {"approve"} => job'[j].ip \in Internets
    BY FlagsType, JobsType DEF DualTypes
  <2>2. MachineTypeOK'
    <3>. USE DEF DualTypes, DualTypeOK, MachineTypeOK
    <3>1. CASE \E j \in Jobs : Child(j)
      BY <3>1, ChildType
    <3>2. ASSUME NEW j \in Jobs, NEW ip \in Internets, StartEnable(j, ip) PROVE MachineTypeOK'
      <4>1. store' \in [active : Internets \cup {NoIp}, prev : Setups]
        BY <3>2, SetupEdits DEF StartEnable, Capture
      <4>2. mishaps' \in 0..MaxMishaps
        BY <3>2, MishapType DEF StartEnable, Launch
      <4>. QED  BY <3>2, <4>1, <4>2 DEF StartEnable
    <3>3. ASSUME NEW j \in Jobs, NEW ip \in Internets, StartDisable(j, ip) PROVE MachineTypeOK'
      <4>1. mishaps' \in 0..MaxMishaps
        BY <3>3, MishapType DEF StartDisable, Launch
      <4>. QED  BY <3>3, <4>1 DEF StartDisable
    <3>4. CASE \E j \in Jobs : Raise(j) \/ Approve(j)
      BY <3>4 DEF Raise, Approve
    <3>5. ASSUME NEW p \in Profiles, ApplyProfile(p) PROVE MachineTypeOK'
      <4>1. mishaps' \in 0..MaxMishaps
        BY <3>5, MishapType DEF ApplyProfile
      <4>. QED  BY <3>5, <4>1, SetupTypes DEF ApplyProfile
    <3>6. CASE ToggleRoute
      <4>1. mishaps' \in 0..MaxMishaps
        BY <3>6, MishapType DEF ToggleRoute
      <4>2. routes' \subseteq routes \cup {"intranet"}
        BY <3>6 DEF ToggleRoute, AddRoute, DelRoute
      <4>. QED  BY <3>6, <4>1, <4>2 DEF ToggleRoute
    <3>7. ASSUME NEW reboot \in BOOLEAN, Restart(reboot) PROVE MachineTypeOK'
      <4>1. mishaps' \in 0..MaxMishaps
        BY <3>7, MishapType DEF Restart
      <4>2. routes' \subseteq routes
        BY <3>7 DEF Restart
      <4>. QED  BY <3>7, <4>1, <4>2 DEF Restart
    <3>8. CASE \E delivered \in BOOLEAN : CheckStatus(delivered)
      BY <3>8 DEF CheckStatus
    <3>. QED  BY <3>1, <3>2, <3>3, <3>4, <3>5, <3>6, <3>7, <3>8 DEF DNext
  <2>. QED  BY <2>1, <2>2 DEF DualTypes, DualTypeOK, MachineTypeOK
<1>2. ASSUME DualTypes, UNCHANGED vars PROVE DualTypes'
  BY <1>2 DEF vars, DualTypes, DualTypeOK
<1>. QED  BY <1>1, <1>2

-----------------------------------------------------------------------------
(* Dual access: what holds while Windows refuses nothing and nothing comes *)
(* on top.                                                                 *)

Quiet(j) == job[j].pc \in {"none", "approve", "raising"}

\* Of the internet addresses only x is bound and routed.
Only(x) == adapter.addrs \subseteq {Lan, x} /\ routes \cap Internets \subseteq {x}

\* There is one job at a time.
Alone == \A i, j \in Jobs : job[i].pc # "none" /\ job[j].pc # "none" => i = j

\* The user's setup is a profile; once dual access is active it is the one with
\* the intranet address that was captured.
Captured == before.addrs = {Lan} /\ store.prev = before
Kept == before \in Profiles /\ (store.active # NoIp => Captured)

\* Between the children the machine is as the registry says.
Settled ==
  IF store.active = NoIp
  THEN adapter = before /\ routes \cap Internets = {} /\ nrpt = {}
  ELSE Only(store.active)

\* How far the child that enables has come.
EnableStage(j) ==
  /\ job[j].pc \in Enabling \cup {"approve"} =>
       job[j].live /\ job[j].old = store.active /\ Captured
  /\ job[j].pc \in {"static", "drop"} => Only(job[j].old)
  /\ job[j].pc \in {"bind", "routes", "names", "verify"} => Only(job[j].ip)
  /\ job[j].pc \in {"routes", "names", "verify"} => job[j].ip \in adapter.addrs
  /\ job[j].pc \in {"names", "verify"} => {job[j].ip, "intranet"} \subseteq routes

Unharmed ==
  /\ Alone
  /\ Kept
  /\ (\A j \in Jobs : Quiet(j)) => Settled
  /\ \A j \in Jobs : EnableStage(j)

\* The inductive invariant.
DualInv == DualTypes /\ (mishaps = 0 => Unharmed)

LEMMA DualStarts == DInit => DualInv
<1>. USE DualAssumption
<1>. SUFFICES ASSUME DInit PROVE DualInv
  OBVIOUS
<1>1. adapter \in Profiles /\ adapter \in Setups /\ before = adapter
  <2>1. Automatic \in Profiles /\ Manual(Lan) \in Profiles
    BY DEF Profiles
  <2>. QED  BY <2>1, SetupTypes DEF DInit
<1>2. job \in [Jobs -> JobType] /\ \A j \in Jobs : job[j].pc = "none"
  BY JobTypes DEF DInit
<1>3. store \in [active : Internets \cup {NoIp}, prev : Setups] /\ store.active = NoIp
  <2>1. Automatic \in Setups
    BY DEF Automatic, Setup, Setups
  <2>. QED  BY <2>1 DEF DInit
<1>4. dualActive \in BOOLEAN /\ routeActive \in BOOLEAN /\ admin \in BOOLEAN
  <2>1. dualActive \in BOOLEAN
    BY DEF DInit
  <2>2. admin \in BOOLEAN
    BY DEF DInit
  <2>3. routeActive \in BOOLEAN
    <3>1. CASE "intranet" \in routes
      BY <3>1 DEF DInit
    <3>2. CASE "intranet" \notin routes
      BY <3>2 DEF DInit
    <3>. QED  BY <3>1, <3>2
  <2>. QED  BY <2>1, <2>2, <2>3, Zenon
<1>5. DualTypes
  BY <1>1, <1>2, <1>3, <1>4 DEF DInit, DualTypes, DualTypeOK, Enabling
<1>6. Unharmed
  <2>1. Alone /\ Kept
    BY <1>1, <1>2, <1>3 DEF Alone, Kept
  <2>2. Settled
    BY <1>1, <1>3 DEF Settled, DInit
  <2>3. \A j \in Jobs : EnableStage(j)
    BY <1>2 DEF EnableStage, Enabling
  <2>. QED  BY <2>1, <2>2, <2>3 DEF Unharmed
<1>. QED  BY <1>5, <1>6 DEF DualInv

\* When one job moves, the others are idle and stay so.
LEMMA OneMoves ==
  ASSUME Alone, NEW j \in Jobs, job[j].pc # "none" \/ Busy = {},
         \A i \in Jobs : i # j => job'[i] = job[i],
         Kept', EnableStage(j)', Quiet(j)' => Settled'
  PROVE  Unharmed'
<1>1. \A i \in Jobs : i # j => job'[i].pc = "none"
  BY DEF Alone, Busy
<1>2. Alone'
  BY <1>1 DEF Alone
<1>3. \A i \in Jobs : EnableStage(i)'
  BY <1>1 DEF EnableStage, Enabling
<1>. QED  BY <1>2, <1>3 DEF Unharmed

\* A command that was carried out leads to the next with the same arguments.
LEMMA ProceedKeeps ==
  ASSUME DualTypeOK, NEW j \in Jobs, job[j].pc \in DOMAIN After, Proceed(j)
  PROVE  /\ job'[j].pc = After[job[j].pc] /\ job'[j].ip = job[j].ip /\ job'[j].old = job[j].old
         /\ job'[j].was = job[j].was /\ job'[j].live = job[j].live
         /\ \A i \in Jobs : i # j => job'[i] = job[i]
<1>1. job[j] \in JobType
  BY DEF DualTypeOK
<1>. QED  BY <1>1, ProceedType DEF JobType

\* Nothing changes for the setup while the registry and the history stand still.
LEMMA KeptStays ==
  ASSUME Kept, before' = before, store' = store
  PROVE  Kept'
BY DEF Kept, Captured

LEMMA IdleAfter ==
  ASSUME NEW j \in Jobs, DualTypeOK, job' = [job EXCEPT ![j] = Idle]
  PROVE  /\ job'[j].pc = "none" /\ \A i \in Jobs : i # j => job'[i] = job[i]
         /\ EnableStage(j)'
<1>1. job'[j].pc = "none" /\ \A i \in Jobs : i # j => job'[i] = job[i]
  BY DEF DualTypeOK, Idle
<1>. QED  BY <1>1 DEF EnableStage, Enabling

\* What the commands of the child that enables do, when they are carried out.
LEMMA EnableSteps ==
  ASSUME DualTypes, Unharmed, NEW j \in Jobs,
         \/ ToStatic(j, TRUE) \/ DropOld(j, TRUE) \/ Bind(j, TRUE)
         \/ AddRoutes(j, {}) \/ SetNames(j, TRUE)
  PROVE  Unharmed'
<1>. USE DualAssumption DEF DualTypes
<1>1. job[j].pc \in {"static", "drop", "bind", "routes", "names"} /\ Proceed(j)
      /\ before' = before /\ store' = store
  BY DEF ToStatic, DropOld, Bind, AddRoutes, SetNames
<1>2. /\ job'[j].pc = After[job[j].pc] /\ job'[j].ip = job[j].ip /\ job'[j].old = job[j].old
      /\ job'[j].was = job[j].was /\ job'[j].live = job[j].live
      /\ \A i \in Jobs : i # j => job'[i] = job[i]
  BY <1>1, ProceedKeeps DEF After
<1>3. job[j].ip \in Internets /\ job[j].was.dns \subseteq {Corp, Public}
      /\ adapter \in Setups /\ adapter.addrs \subseteq Internets \cup {Lan}
  BY <1>1 DEF DualTypeOK, JobType, Setups, Enabling
<1>4. job[j].live /\ job[j].old = store.active /\ Captured /\ Kept /\ Alone
  BY <1>1 DEF Unharmed, EnableStage, Enabling
<1>5. job'[j].pc \in {"drop", "bind", "routes", "names", "verify"}
  BY <1>1, <1>2 DEF After
<1>6. Captured' /\ Kept' /\ ~Quiet(j)'
  BY <1>1, <1>4, <1>5 DEF Captured, Kept, Quiet
<1>7. EnableStage(j)'
  <2>1. CASE ToStatic(j, TRUE)
    <3>1. Only(job[j].old)
      BY <2>1 DEF ToStatic, Unharmed, EnableStage
    <3>2. job'[j].pc = "drop"
      BY <1>2, <2>1 DEF ToStatic, After
    <3>3. adapter'.addrs \subseteq {Lan, job[j].old} /\ routes' = routes
      BY <1>3, <2>1, <3>1 DEF ToStatic, Only, Setups
    <3>. QED  BY <1>1, <1>2, <1>4, <1>6, <3>1, <3>2, <3>3 DEF EnableStage, Enabling, Only
  <2>2. CASE DropOld(j, TRUE)
    <3>1. Only(job[j].old)
      BY <2>2 DEF DropOld, Unharmed, EnableStage
    <3>2. job'[j].pc = "bind"
      BY <1>2, <2>2 DEF DropOld, After
    <3>3. adapter'.addrs \subseteq {Lan, job[j].ip} /\ routes' \cap Internets \subseteq {job[j].ip}
      BY <1>3, <2>2, <3>1 DEF DropOld, Only, Setups
    <3>. QED  BY <1>1, <1>2, <1>4, <1>6, <3>2, <3>3 DEF EnableStage, Enabling, Only
  <2>3. CASE Bind(j, TRUE)
    <3>1. Only(job[j].ip)
      BY <2>3 DEF Bind, Unharmed, EnableStage
    <3>2. job'[j].pc = "routes"
      BY <1>2, <2>3 DEF Bind, After
    <3>3. adapter'.addrs \subseteq {Lan, job[j].ip} /\ job[j].ip \in adapter'.addrs /\ routes' = routes
      BY <1>3, <2>3, <3>1 DEF Bind, Only, Setups
    <3>. QED  BY <1>1, <1>2, <1>4, <1>6, <3>1, <3>2, <3>3 DEF EnableStage, Enabling, Only
  <2>4. CASE AddRoutes(j, {})
    <3>1. Only(job[j].ip) /\ job[j].ip \in adapter.addrs
      BY <2>4 DEF AddRoutes, Unharmed, EnableStage
    <3>2. job'[j].pc = "names"
      BY <1>2, <2>4 DEF AddRoutes, After
    <3>3. /\ adapter' = adapter /\ {job[j].ip, "intranet"} \subseteq routes'
          /\ routes' \cap Internets \subseteq {job[j].ip}
      BY <1>3, <2>4, <3>1 DEF AddRoutes, Only
    <3>. QED  BY <1>1, <1>2, <1>4, <1>6, <3>1, <3>2, <3>3 DEF EnableStage, Enabling, Only
  <2>5. CASE SetNames(j, TRUE)
    <3>1. Only(job[j].ip) /\ job[j].ip \in adapter.addrs /\ {job[j].ip, "intranet"} \subseteq routes
      BY <2>5 DEF SetNames, Unharmed, EnableStage
    <3>2. job'[j].pc = "verify"
      BY <1>2, <2>5 DEF SetNames, After
    <3>3. adapter'.addrs = adapter.addrs /\ routes' = routes
      BY <1>3, <2>5 DEF SetNames, Setups
    <3>. QED  BY <1>1, <1>2, <1>4, <1>6, <3>1, <3>2, <3>3 DEF EnableStage, Enabling, Only
  <2>. QED  BY <2>1, <2>2, <2>3, <2>4, <2>5
<1>. QED  BY <1>1, <1>2, <1>4, <1>6, <1>7, OneMoves

\* The child finds the address bound and routed, and the program keeps it.
LEMMA VerifyStep ==
  ASSUME DualTypes, Unharmed, NEW j \in Jobs, Verify(j)
  PROVE  Unharmed'
<1>. USE DEF DualTypes
<1>1. job[j].pc = "verify" /\ job' = [job EXCEPT ![j] = Idle] /\ UNCHANGED <<adapter, routes, nrpt, before>>
  BY DEF Verify
<1>2. /\ job[j].ip \in Internets /\ job[j].live /\ Captured /\ Kept /\ Alone
      /\ Only(job[j].ip) /\ Held(job[j].ip) /\ Routed({job[j].ip, "intranet"})
  BY <1>1 DEF Unharmed, EnableStage, Enabling, Held, Routed
<1>3. store' = [store EXCEPT !.active = job[j].ip]
  BY <1>2 DEF Verify
<1>4. store'.active = job[j].ip /\ store'.prev = store.prev
  BY <1>3 DEF DualTypeOK
<1>5. Kept'
  BY <1>1, <1>2, <1>4 DEF Kept, Captured
<1>6. Settled'
  BY <1>1, <1>2, <1>4, DualAssumption DEF Settled, Only
<1>. QED  BY <1>1, <1>2, <1>5, <1>6, IdleAfter, OneMoves

\* While Windows refuses nothing, a child's step is one of the above.
LEMMA ChildStep ==
  ASSUME DualTypes, mishaps = 0, Unharmed, NEW j \in Jobs, Child(j), mishaps' = 0
  PROVE  Unharmed'
<1>1. mishaps \in 0..MaxMishaps
  BY DEF DualTypes, DualTypeOK
<1>2. ASSUME NEW done \in BOOLEAN, Windows(done) PROVE done = TRUE
  BY <1>1, <1>2, MishapType DEF Windows
<1>3. ASSUME NEW done \in BOOLEAN,
             \/ ToStatic(j, done) \/ DropOld(j, done) \/ Bind(j, done) \/ SetNames(j, done)
      PROVE  Unharmed'
  <2>1. Windows(done)
    BY <1>3 DEF ToStatic, DropOld, Bind, SetNames
  <2>2. done = TRUE
    BY <1>2, <2>1
  <2>. QED  BY <1>3, <2>2, EnableSteps
<1>4. ASSUME NEW refused \in SUBSET {job[j].ip, "intranet"}, AddRoutes(j, refused)
      PROVE  Unharmed'
  <2>1. Windows(refused = {})
    BY <1>4 DEF AddRoutes
  <2>2. refused = {}
    BY <1>1, <2>1, MishapType DEF Windows
  <2>. QED  BY <1>4, <2>2, EnableSteps
<1>. QED  BY <1>3, <1>4, VerifyStep DEF Child

\* A worker alone is given what the registry and the adapter say.
LEMMA LaunchStep ==
  ASSUME DualTypes, mishaps = 0, Unharmed, mishaps' = 0, NEW j \in Jobs, NEW ip \in Internets,
         StartEnable(j, ip) \/ StartDisable(j, ip)
  PROVE  Unharmed'
<1>. USE DEF DualTypes
<1>1. /\ Mishap(Busy # {}) /\ job[j].pc = "none"
      /\ UNCHANGED <<adapter, routes, nrpt, before>>
  BY DEF StartEnable, StartDisable, Launch
<1>2. Busy = {}
  BY <1>1, MishapType DEF DualTypeOK
<1>3. Alone /\ Kept /\ Settled
  BY <1>2 DEF Unharmed, Quiet, Busy
<1>4. CASE StartEnable(j, ip)
  <2>. DEFINE r == [kind |-> "enable", pc |-> IF admin THEN "raising" ELSE "approve", live |-> TRUE,
                    ip |-> ip, old |-> store.active, was |-> adapter]
  <2>1. r.pc \in {"approve", "raising"} /\ r.live /\ r.old = store.active
    OBVIOUS
  <2>2. job' = [job EXCEPT ![j] = r]
    BY <1>4 DEF StartEnable, Launch
  <2>. HIDE DEF r
  <2>3. job'[j] = r /\ \A i \in Jobs : i # j => job'[i] = job[i]
    BY <2>2 DEF DualTypeOK
  <2>4. store'.active = store.active /\ (store.active # NoIp => store' = store)
    BY <1>4 DEF StartEnable, Capture, DualTypeOK
  <2>5. Captured'
    <3>1. CASE store.active # NoIp
      BY <1>1, <1>3, <2>4, <3>1 DEF Kept, Captured
    <3>2. CASE store.active = NoIp
      <4>1. adapter = before /\ before.addrs = {Lan} /\ before \in Setups
        BY <1>3, <1>4, <3>2, SetupTypes DEF Settled, Kept, StartEnable, Held, DualTypeOK
      <4>2. store'.prev = [adapter EXCEPT !.addrs = {Lan}]
        BY <1>4, <3>2 DEF StartEnable, Capture, DualTypeOK
      <4>. QED  BY <1>1, <4>1, <4>2 DEF Captured, Setups
    <3>. QED  BY <3>1, <3>2
  <2>6. Kept'
    BY <1>1, <1>3, <2>5 DEF Kept
  <2>7. Settled'
    BY <1>1, <1>3, <2>4 DEF Settled, Only
  <2>8. EnableStage(j)'
    BY <2>1, <2>3, <2>4, <2>5 DEF EnableStage, Enabling
  <2>. QED  BY <1>2, <1>3, <2>3, <2>6, <2>7, <2>8, OneMoves
<1>5. CASE StartDisable(j, ip)
  <2>. DEFINE r == [Idle EXCEPT !.kind = "disable", !.pc = "raising", !.live = TRUE,
                                !.ip = IF store.active # NoIp THEN store.active ELSE ip]
  <2>1. r.pc = "raising"
    BY DEF Idle
  <2>2. job' = [job EXCEPT ![j] = r] /\ store' = store
    BY <1>5 DEF StartDisable, Launch
  <2>. HIDE DEF r
  <2>3. job'[j] = r /\ \A i \in Jobs : i # j => job'[i] = job[i]
    BY <2>2 DEF DualTypeOK
  <2>4. Kept' /\ Settled'
    BY <1>1, <1>3, <2>2, KeptStays DEF Settled, Only
  <2>5. EnableStage(j)'
    BY <2>1, <2>3 DEF EnableStage, Enabling
  <2>. QED  BY <1>2, <1>3, <2>3, <2>4, <2>5, OneMoves
<1>. QED  BY <1>4, <1>5

\* The rest of the program and its end.
LEMMA OtherStep ==
  ASSUME DualTypes, mishaps = 0, Unharmed, mishaps' = 0,
         \/ \E delivered \in BOOLEAN : CheckStatus(delivered)
         \/ \E j \in Jobs : Raise(j) \/ Approve(j)
         \/ \E p \in Profiles : ApplyProfile(p)
         \/ ToggleRoute
         \/ \E reboot \in BOOLEAN : Restart(reboot)
  PROVE  Unharmed'
<1>. USE DualAssumption DEF DualTypes
<1>0. mishaps \in 0..MaxMishaps
  BY DEF DualTypeOK
<1>1. CASE \E delivered \in BOOLEAN : CheckStatus(delivered)
  <2>1. UNCHANGED <<adapter, routes, nrpt, store, job, before>>
    BY <1>1 DEF CheckStatus
  <2>. QED  BY <2>1 DEF Unharmed, Alone, Kept, Captured, Settled, Only, Quiet, EnableStage
<1>2. ASSUME NEW j \in Jobs, Raise(j)
      PROVE  Unharmed'
  <2>1. /\ job[j].pc = "raising" /\ job' = [job EXCEPT ![j] = Idle]
        /\ UNCHANGED <<adapter, routes, nrpt, store, before>>
    BY <1>2 DEF Raise
  <2>2. Alone /\ Kept /\ Settled
    BY <2>1 DEF Unharmed, Alone, Quiet
  <2>3. Kept' /\ Settled'
    BY <2>1, <2>2, KeptStays DEF Settled, Only
  <2>. QED  BY <2>1, <2>2, <2>3, IdleAfter, OneMoves
<1>3. ASSUME NEW j \in Jobs, Approve(j)
      PROVE  Unharmed'
  <2>1. job[j].pc = "approve" /\ UNCHANGED <<adapter, routes, nrpt, store, before>>
    BY <1>3 DEF Approve
  <2>2. Alone /\ Kept /\ Settled /\ Captured /\ job[j].live /\ job[j].old = store.active
    BY <2>1 DEF Unharmed, Alone, Quiet, EnableStage
  <2>3. Kept' /\ Settled' /\ Captured'
    BY <2>1, <2>2, KeptStays DEF Settled, Only, Captured
  <2>4. CASE job' = [job EXCEPT ![j] = Idle]
    BY <2>1, <2>2, <2>3, <2>4, IdleAfter, OneMoves
  <2>5. CASE job' = [job EXCEPT ![j].pc = "static"]
    <3>1. /\ job'[j].pc = "static" /\ job'[j].live = job[j].live /\ job'[j].old = job[j].old
          /\ \A i \in Jobs : i # j => job'[i] = job[i]
      BY <2>5 DEF DualTypeOK, JobType
    <3>2. Only(job[j].old)
      BY <2>2 DEF Settled, Only, Captured
    <3>3. EnableStage(j)'
      BY <2>1, <2>2, <2>3, <3>1, <3>2 DEF EnableStage, Enabling, Only
    <3>. QED  BY <2>1, <2>2, <2>3, <3>1, <3>3, OneMoves
  <2>. QED  BY <1>3, <2>4, <2>5 DEF Approve
<1>4. ASSUME NEW p \in Profiles, ApplyProfile(p)
      PROVE  Unharmed'
  <2>1. store.active = NoIp /\ Busy = {}
    BY <1>0, <1>4, MishapType DEF ApplyProfile
  <2>2. /\ adapter' = p /\ before' = p /\ UNCHANGED <<routes, nrpt, store, job>>
        /\ \A j \in Jobs : job[j].pc = "none"
    BY <1>4, <2>1 DEF ApplyProfile, Busy
  <2>3. Kept' /\ Settled'
    BY <2>1, <2>2 DEF Unharmed, Kept, Settled, Quiet
  <2>. QED  BY <2>2, <2>3 DEF Unharmed, Alone, EnableStage, Enabling
<1>5. CASE ToggleRoute
  <2>1. Mishap(Busy # {})
    BY <1>5 DEF ToggleRoute
  <2>2. Busy = {}
    BY <1>0, <2>1, MishapType
  <2>3. UNCHANGED <<adapter, nrpt, store, job, before>> /\ \A j \in Jobs : job[j].pc = "none"
    BY <1>5, <2>2 DEF ToggleRoute, Busy
  <2>4. routes' \cap Internets \subseteq routes \cap Internets
    BY <1>5 DEF ToggleRoute, AddRoute, DelRoute
  <2>5. Kept' /\ Settled'
    BY <2>3, <2>4, KeptStays DEF Unharmed, Kept, Settled, Quiet, Only
  <2>. QED  BY <2>3, <2>5 DEF Unharmed, Alone, EnableStage, Enabling
<1>6. ASSUME NEW reboot \in BOOLEAN, Restart(reboot)
      PROVE  Unharmed'
  <2>1. Mishap(\E j \in Jobs : job[j].pc \notin {"none", "approve"})
    BY <1>6 DEF Restart
  <2>2. \A j \in Jobs : job[j].pc \in {"none", "approve"}
    BY <1>0, <2>1, MishapType
  <2>3. \A j \in Jobs : job'[j] = Idle
    BY <1>6, <2>2 DEF Restart, InChild
  <2>4. UNCHANGED <<adapter, nrpt, store, before>> /\ routes' \subseteq routes
    BY <1>6 DEF Restart
  <2>5. Kept' /\ Settled'
    BY <2>2, <2>4, KeptStays DEF Unharmed, Kept, Settled, Quiet, Only
  <2>6. \A j \in Jobs : job'[j].pc = "none"
    BY <2>3 DEF Idle
  <2>. QED  BY <2>5, <2>6 DEF Unharmed, Alone, EnableStage, Enabling
<1>. QED  BY <1>1, <1>2, <1>3, <1>4, <1>5, <1>6

\* A mishap is not forgotten.
LEMMA MishapsStay ==
  ASSUME DualTypeOK, DNext, mishaps' = 0
  PROVE  mishaps = 0
<1>. USE MishapType DEF DualTypeOK
<1>1. CASE \E delivered \in BOOLEAN : CheckStatus(delivered)
  BY <1>1 DEF CheckStatus
<1>2. CASE \E j \in Jobs, ip \in Internets : StartEnable(j, ip) \/ StartDisable(j, ip)
  BY <1>2 DEF StartEnable, StartDisable, Launch
<1>3. CASE \E j \in Jobs : Raise(j) \/ Approve(j)
  BY <1>3 DEF Raise, Approve
<1>4. CASE \E j \in Jobs : Child(j)
  BY <1>4 DEF Child, ToStatic, DropOld, Bind, AddRoutes, SetNames, Verify, Windows
<1>5. CASE \E p \in Profiles : ApplyProfile(p)
  BY <1>5 DEF ApplyProfile
<1>6. CASE ToggleRoute
  BY <1>6 DEF ToggleRoute
<1>7. CASE \E reboot \in BOOLEAN : Restart(reboot)
  BY <1>7 DEF Restart
<1>. QED  BY <1>1, <1>2, <1>3, <1>4, <1>5, <1>6, <1>7 DEF DNext

LEMMA DualStep == DualInv /\ [DNext]_vars => DualInv'
<1>2. ASSUME DualInv, DNext PROVE DualInv'
  <2>1. DualTypes'
    BY <1>2, DualTypesStep DEF DualInv
  <2>2. ASSUME mishaps' = 0 PROVE Unharmed'
    <3>1. mishaps = 0 /\ DualTypes /\ Unharmed
      BY <1>2, <2>2, MishapsStay DEF DualInv, DualTypes
    <3>2. CASE \E j \in Jobs : Child(j)
      BY <2>2, <3>1, <3>2, ChildStep
    <3>3. ASSUME NEW j \in Jobs, NEW ip \in Internets, StartEnable(j, ip) \/ StartDisable(j, ip)
          PROVE  Unharmed'
      BY <2>2, <3>1, <3>3, LaunchStep
    <3>5. CASE \/ \E delivered \in BOOLEAN : CheckStatus(delivered)
               \/ \E j \in Jobs : Raise(j) \/ Approve(j)
               \/ \E p \in Profiles : ApplyProfile(p)
               \/ ToggleRoute
               \/ \E reboot \in BOOLEAN : Restart(reboot)
      BY <2>2, <3>1, <3>5, OtherStep
    <3>. QED  BY <1>2, <3>2, <3>3, <3>5 DEF DNext
  <2>. QED  BY <2>1, <2>2 DEF DualInv
<1>3. ASSUME DualInv, UNCHANGED vars PROVE DualInv'
  <2>1. DualTypes'
    BY <1>3, DualTypesStep DEF DualInv
  <2>. QED  BY <1>3, <2>1 DEF DualInv, vars, Unharmed, Alone, Kept, Captured, Settled, Only, Quiet,
                              EnableStage
<1>. QED  BY <1>2, <1>3

LEMMA DualInductive == DSpec => []DualInv
BY DualStarts, DualStep, PTL DEF DSpec

-----------------------------------------------------------------------------
(* Dual access: the theorems.                                              *)

\* The adapter, the registry and the workers hold what their types say.
THEOREM DualTypeCorrect == DSpec => []DualTypeOK
<1>1. DualInv => DualTypeOK
  BY DEF DualInv, DualTypes
<1>. QED  BY <1>1, DualInductive, PTL

\* Whatever addresses are enabled one after the other, cancelled and
\* rebooted, at most one internet address is bound: the drop of the old address
\* comes before the bind of the new, and the old one is the registry's.
THEOREM AddressesDoNotStackUp == DSpec => []NoStaleAddress
<1>1. ASSUME DualInv PROVE NoStaleAddress
  <2>1. SUFFICES ASSUME mishaps = 0 PROVE Cardinality(adapter.addrs \ {Lan}) <= 1
    BY <1>1, DualAssumption DEF NoStaleAddress, DualInv, DualTypes, DualTypeOK
  <2>2. Unharmed /\ DualTypeOK
    BY <1>1, <2>1 DEF DualInv, DualTypes
  <2>3. PICK x : adapter.addrs \ {Lan} \subseteq {x}
    <3>1. CASE \A j \in Jobs : Quiet(j)
      <4>1. Settled /\ before \in Profiles
        BY <2>2, <3>1 DEF Unharmed, Kept
      <4>2. CASE store.active = NoIp
        <5>1. PICK a \in Internets \cup {Lan} : adapter.addrs = {a}
          BY <4>1, <4>2, SetupTypes DEF Settled
        <5>. QED  BY <5>1
      <4>3. CASE store.active # NoIp
        BY <4>1, <4>3 DEF Settled, Only
      <4>. QED  BY <4>2, <4>3
    <3>2. CASE \E j \in Jobs : ~Quiet(j)
      <4>1. PICK j \in Jobs : ~Quiet(j)
        BY <3>2
      <4>2. job[j].pc \in Pcs /\ EnableStage(j)
        BY <2>2 DEF Unharmed, DualTypeOK, JobType
      <4>3. \/ job[j].pc \in {"static", "drop"}
            \/ job[j].pc \in {"bind", "routes", "names", "verify"}
        BY <4>1, <4>2 DEF Pcs, After, Quiet
      <4>4. Only(job[j].old) \/ Only(job[j].ip)
        BY <4>2, <4>3 DEF EnableStage
      <4>. QED  BY <4>4 DEF Only
    <3>. QED  BY <3>1, <3>2
  <2>4. IsFiniteSet({x}) /\ Cardinality({x}) = 1
    BY FS_Singleton
  <2>5. Cardinality(adapter.addrs \ {Lan}) <= Cardinality({x})
    BY <2>3, <2>4, FS_Subset
  <2>. QED  BY <2>4, <2>5
<1>. QED  BY <1>1, DualInductive, PTL

\* While dual access is active the registry holds the setup that the user had
\* chosen: it was captured before the first enabling touched the adapter, and
\* no later one captures what an earlier one made of it.
THEOREM CaptureIsKept == DSpec => []CaptureIsTheUsers
<1>1. ASSUME DualInv PROVE CaptureIsTheUsers
  <2>1. SUFFICES ASSUME mishaps = 0, store.active # NoIp
                 PROVE  store.prev = [before EXCEPT !.addrs = {Lan}]
    BY <1>1, DualAssumption DEF CaptureIsTheUsers, DualInv, DualTypes, DualTypeOK
  <2>2. before \in Setups /\ Captured
    BY <1>1, <2>1 DEF DualInv, DualTypes, DualTypeOK, Unharmed, Kept
  <2>. QED  BY <2>2 DEF Captured, Setups
<1>. QED  BY <1>1, DualInductive, PTL
=============================================================================
