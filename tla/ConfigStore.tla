----------------------------- MODULE ConfigStore -----------------------------
(***************************************************************************)
(* The configuration: one value of the registry and its copy in _CACHE,    *)
(* read and written by many threads.  Names do not share anything but the  *)
(* lock, so one of them stands for all.                                    *)
(*                                                                         *)
(* The lock covers only the copy.  A read that misses goes to the registry *)
(* without it and fills the copy afterwards; a write changes the registry  *)
(* first and the copy after.  A read that fails fills the copy too, with   *)
(* the default; nothing but a save or a restart replaces what is there.    *)
(***************************************************************************)
EXTENDS Naturals, FiniteSets

CONSTANTS Threads,   \* threads that load and save
          Values,    \* values the name can have
          Default,   \* the value when the registry has none
          Miss       \* the name is not in the cache

ASSUME StoreAssumption == Default \in Values /\ \A v \in Values : v # Miss

VARIABLES
  stored,      \* the registry's value
  cached,      \* _CACHE[name]
  access,      \* each thread's load or save: where it is and the value it holds
  settled      \* history: a save has finished in this run while no thread was reading the registry

storeVars == <<stored, cached, access, settled>>

StoreType ==
  /\ stored \in Values
  /\ cached = Miss \/ cached \in Values
  /\ access \in [Threads -> [pc : {"idle", "missed", "read", "known", "written"}, val : Values]]
  /\ settled \in BOOLEAN

Rest == [pc |-> "idle", val |-> Default]

\* A program that starts has nothing cached.
Cold == /\ cached = Miss
        /\ access = [t \in Threads |-> Rest]
        /\ settled = FALSE
Restarted == /\ cached' = Miss
             /\ access' = [t \in Threads |-> Rest]
             /\ settled' = FALSE
             /\ UNCHANGED stored

Goes(t, pc, v) == access' = [access EXCEPT ![t] = [pc |-> pc, val |-> v]]

\* A load looks into the cache; what it finds is its result.
Look(t) ==
  /\ IF cached # Miss THEN Goes(t, "known", cached) ELSE Goes(t, "missed", Default)
  /\ UNCHANGED <<stored, cached, settled>>

\* After a miss it reads the registry, outside the lock; if that fails it has the default,
ReadRegistry(t) ==
  /\ access[t].pc = "missed"
  /\ \E v \in {stored, Default} : Goes(t, "read", v)
  /\ UNCHANGED <<stored, cached, settled>>

\* and puts what it read into the cache, whatever is there by now.
Fill(t) ==
  /\ access[t].pc = "read"
  /\ cached' = access[t].val
  /\ Goes(t, "known", access[t].val)
  /\ UNCHANGED <<stored, settled>>

\* A save sets the registry's value, or fails and changes nothing;
WriteRegistry(t, v, done) ==
  /\ stored' = IF done THEN v ELSE stored
  /\ IF done THEN Goes(t, "written", v) ELSE Goes(t, "idle", Default)
  /\ UNCHANGED <<cached, settled>>

NobodyReads == \A u \in Threads : access[u].pc \notin {"missed", "read"}

\* Mutant: a save leaves the cached value.
SaveKeepsCache(t) ==
  /\ access[t].pc = "written"
  /\ Goes(t, "idle", Default)
  /\ settled' = NobodyReads
  /\ UNCHANGED <<stored, cached>>

\* then it replaces the cached one.
WriteCache(t) ==
  /\ access[t].pc = "written"
  /\ cached' = access[t].val
  /\ Goes(t, "idle", Default)
  /\ settled' = NobodyReads
  /\ UNCHANGED stored

StoreSteps(t) == ReadRegistry(t) \/ Fill(t) \/ WriteCache(t)
=============================================================================
