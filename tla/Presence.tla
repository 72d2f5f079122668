------------------------------ MODULE Presence ------------------------------
(***************************************************************************)
(* Who is online, as one ChatService (nst/chat.py) sees it: beacons over   *)
(* UDP, TCP probes from a small pool for those whose beacon went stale,    *)
(* the reaper, manual peers, and the roster's hidden set                   *)
(* (nst/qt/chat_window.py).                                                *)
(*                                                                         *)
(* Time is counted in beacon intervals.  A unit ends only when the sweep   *)
(* is not overdue and the pool has done its share: the code's timeouts.    *)
(* Names, devices and "away" are left out, as are peers with two addresses.*)
(***************************************************************************)
EXTENDS Naturals, Sequences, SequencesExt

CONSTANTS
  Peers,
  Local,         \* those on our subnet: their beacons reach us, or get lost
  ProbeAfter, Timeout, Drop,   \* CHAT_PROBE_AFTER, CHAT_PEER_TIMEOUT, CHAT_PEER_DROP
  SweepEvery,    \* units from one sweep of _liveness_loop to the next
  Workers,       \* size of the probe pool
  PerUnit,       \* probes the pool ends in a unit, if there are as many
  MaxTurns       \* bound: times peers change their mode and the user acts

ASSUME PresenceAssumption ==
  /\ Local \subseteq Peers
  /\ {ProbeAfter, Timeout, Drop, SweepEvery, Workers, PerUnit, MaxTurns} \subseteq Nat
  /\ 0 < ProbeAfter /\ ProbeAfter < Timeout /\ Timeout < Drop
  /\ 0 < SweepEvery /\ 0 < Workers /\ 0 < PerUnit

VARIABLES
  mode,      \* mode[p]: what p's program does
  known,     \* _peers
  age,       \* age[p]: units since last_seen, up to Drop + 1
  manual,    \* _manual
  hidden,    \* the window's _hidden
  cands,     \* what a sweep has found and not yet submitted
  pool,      \* probes that wait for a worker or try to connect, in order
  answered,  \* probes that connected and have yet to touch the peer
  swept,     \* units since the last sweep began
  ended,     \* probes that ended in this unit
  turns,
  steady,    \* history: units since p was switched on or off, or entered unseen
  dropped    \* history: deleted, and since then not heard of, added or named in a group

pvars == <<mode, known, age, manual, hidden, cands, pool, answered, swept, ended,
           turns, steady, dropped>>

Modes   == {"off", "visible", "invisible"}
Old     == Drop + 1
Longer(n, most) == IF n < most THEN n + 1 ELSE n
Patience == IF Timeout > SweepEvery THEN Timeout + 1 ELSE SweepEvery + 2

\* _probing.
Probing == ToSet(pool) \cup answered

PresenceTypeOK ==
  /\ mode \in [Peers -> Modes]
  /\ known \subseteq Peers /\ manual \subseteq known
  /\ age \in [Peers -> 0..Old]
  /\ hidden \subseteq Peers /\ dropped \subseteq hidden
  /\ cands \subseteq Peers /\ answered \subseteq Peers
  /\ pool \in Seq(Peers) /\ IsInjective(pool) /\ answered \cap ToSet(pool) = {}
  /\ swept \in 0..SweepEvery /\ ended \in 0..PerUnit /\ turns \in 0..MaxTurns
  /\ steady \in [Peers -> 0..Patience]

PInit ==
  /\ mode \in [Peers -> Modes]
  /\ known = {} /\ age = [p \in Peers |-> Old]
  /\ manual = {} /\ hidden = {} /\ cands = {} /\ pool = <<>> /\ answered = {}
  /\ swept = 0 /\ ended = 0 /\ turns = 0
  /\ steady = [p \in Peers |-> 0] /\ dropped = {}

Online(p) == p \in known /\ age[p] <= Timeout

\* _visible_peers; who has a conversation only is left out.
Listed == known \ hidden

-----------------------------------------------------------------------------
(* Contact.                                                                *)

Turn == turns < MaxTurns /\ turns' = turns + 1

\* _touch_peer, under the lock.
Touch(p) ==
  /\ known' = known \cup {p}
  /\ age' = [age EXCEPT ![p] = 0]

PeerTurns(p, m) ==
  /\ Turn
  /\ m # mode[p]
  /\ mode' = [mode EXCEPT ![p] = m]
  /\ steady' = IF "off" \in {m, mode[p]} THEN [steady EXCEPT ![p] = 0] ELSE steady
  /\ UNCHANGED <<known, age, manual, hidden, cands, pool, answered, swept, ended, dropped>>

\* _broadcast_loop there, _presence_loop here.
Beacon(p) ==
  /\ mode[p] = "visible" /\ p \in Local
  /\ Touch(p)
  /\ UNCHANGED <<mode, manual, hidden, cands, pool, answered, swept, ended, turns, steady, dropped>>

\* A text or an offer: the window lists the peer again.  One from another
\* subnet that was never approved is a request: the peer is not touched.
Message(p) ==
  /\ Turn
  /\ mode[p] # "off"
  /\ hidden' = hidden \ {p} /\ dropped' = dropped \ {p}
  /\ IF p \in Local \cup manual THEN Touch(p) ELSE UNCHANGED <<known, age>>
  /\ UNCHANGED <<mode, manual, cands, pool, answered, swept, ended, steady>>

-----------------------------------------------------------------------------
(* Probes.                                                                 *)

\* Mutant: what is in the pool is not looked at.
SubmitAgain(p) == pool' = Append(pool, p)

\* _submit_probe: one at a time for a peer.
Submit(p) == pool' = IF p \in Probing THEN pool ELSE Append(pool, p)

\* Mutant: only manual peers are probed.
LookManual ==
  /\ cands = {} /\ swept > 0
  /\ cands' = manual
  /\ swept' = 0
  /\ UNCHANGED <<mode, known, age, manual, hidden, pool, answered, ended, turns, steady, dropped>>

\* _liveness_loop collects under the lock ...
Look ==
  /\ cands = {} /\ swept > 0
  /\ cands' = manual \cup {p \in known : age[p] >= ProbeAfter}
  /\ swept' = 0
  /\ UNCHANGED <<mode, known, age, manual, hidden, pool, answered, ended, turns, steady, dropped>>

\* ... and submits outside of it, one by one.
SweepSubmits(p) ==
  /\ p \in cands
  /\ cands' = cands \ {p}
  /\ Submit(p)
  /\ UNCHANGED <<mode, known, age, manual, hidden, answered, swept, ended, turns, steady, dropped>>

\* A worker has tried p: whoever runs accepts the connection.
Try(i) ==
  /\ i \in DOMAIN pool /\ i + (IF answered = {} THEN 0 ELSE 1) <= Workers
  /\ pool' = RemoveAt(pool, i)
  /\ answered' = IF mode[pool[i]] = "off" THEN answered ELSE answered \cup {pool[i]}
  /\ ended' = IF mode[pool[i]] = "off" THEN Longer(ended, PerUnit) ELSE ended
  /\ UNCHANGED <<mode, known, age, manual, hidden, cands, swept, turns, steady, dropped>>

\* _probe_one_manual, connected: p is touched, in the list or not.
ProbeTouches(p) ==
  /\ p \in answered
  /\ answered' = answered \ {p} /\ ended' = Longer(ended, PerUnit)
  /\ Touch(p)
  /\ UNCHANGED <<mode, manual, hidden, cands, pool, swept, turns, steady, dropped>>

\* _reaper_loop.
Reap ==
  /\ \E p \in known \ manual : age[p] > Drop
  /\ known' = {p \in known : age[p] <= Drop \/ p \in manual}
  /\ UNCHANGED <<mode, age, manual, hidden, cands, pool, answered, swept, ended, turns, steady, dropped>>

-----------------------------------------------------------------------------
(* The user.                                                               *)

\* add_manual_peer: entered as never seen, and probed at once.
AddManual(p) ==
  /\ manual' = manual \cup {p}
  /\ known' = known \cup {p}
  /\ age' = IF p \in known THEN age ELSE [age EXCEPT ![p] = Old]
  /\ steady' = IF p \in known THEN steady ELSE [steady EXCEPT ![p] = 0]
  /\ Submit(p)

\* _connect_manual_ip, or a request that is accepted.
Connect(p) ==
  /\ Turn
  /\ AddManual(p)
  /\ hidden' = hidden \ {p} /\ dropped' = dropped \ {p}
  /\ UNCHANGED <<mode, cands, answered, swept, ended>>

\* A group's roster, received or read from its history, names p: it is added
\* though the user may have deleted it, and stays out of the list.
GroupMember(p) ==
  /\ Turn
  /\ p \notin manual
  /\ AddManual(p)
  /\ dropped' = dropped \ {p}
  /\ UNCHANGED <<mode, hidden, cands, answered, swept, ended>>

\* Mutant: the peer stays a manual one.
DeleteEntry(p) ==
  /\ Turn
  /\ p \in Listed
  /\ known' = known \ {p}
  /\ hidden' = hidden \cup {p}
  /\ dropped' = dropped \cup {p}
  /\ UNCHANGED <<mode, age, manual, cands, pool, answered, swept, ended, steady>>

\* _delete_peer with remove_peer.
Delete(p) ==
  /\ Turn
  /\ p \in Listed
  /\ known' = known \ {p} /\ manual' = manual \ {p}
  /\ hidden' = hidden \cup {p}
  /\ dropped' = dropped \cup {p}
  /\ UNCHANGED <<mode, age, cands, pool, answered, swept, ended, steady>>

-----------------------------------------------------------------------------
\* The sweep comes round in time, a probe takes its second and no longer.
Tick ==
  /\ swept < SweepEvery /\ cands = {} /\ answered = {}
  /\ pool = <<>> \/ ended = PerUnit
  /\ age' = [p \in Peers |-> Longer(age[p], Old)]
  /\ steady' = [p \in Peers |-> Longer(steady[p], Patience)]
  /\ swept' = swept + 1 /\ ended' = 0
  /\ UNCHANGED <<mode, known, manual, hidden, cands, pool, answered, turns, dropped>>

Contact == \E p \in Peers : Message(p) \/ Beacon(p) \/ \E m \in Modes : PeerTurns(p, m)
User    == \E p \in Peers : Connect(p) \/ GroupMember(p) \/ Delete(p)
Probe   == Look \/ (\E p \in Peers : SweepSubmits(p) \/ ProbeTouches(p)) \/ \E i \in DOMAIN pool : Try(i)

PNext == Contact \/ User \/ Probe \/ Reap \/ Tick

\* Time passes, and the loops and workers run.
PSpec == PInit /\ [][PNext]_pvars /\ WF_pvars(Tick) /\ WF_pvars(Probe) /\ WF_pvars(Reap)

-----------------------------------------------------------------------------
\* A known peer that runs and does not hide is online though every beacon is lost.
RunningIsOnline ==
  \A p \in known : mode[p] = "visible" /\ steady[p] > SweepEvery + 1 => Online(p)

\* One that has gone is offline after the timeout, however late its last probe
\* came back.
GoneIsOffline ==
  \A p \in known : mode[p] = "off" /\ steady[p] > Timeout => ~Online(p)

\* constants.py, "we fall back to a direct TCP liveness probe": the roster
\* follows what the peers' programs do, by the probes if not by the beacons.
\* Who appears offline is left out: the documents say offline, a probe says online.
StatusIsTimely == RunningIsOnline /\ GoneIsOffline

\* remove_peer, "Forget a peer entirely: stop probing it": a sweep or a probe
\* under way can bring a deleted peer back, but not as a manual one, and once its
\* program ends the peer is in the end neither known nor probed, unless it was
\* heard of, added or named in a group after the deletion.
DeletedIsLetGo ==
  \A p \in Peers : <>[](p \in dropped /\ mode[p] = "off")
                     => <>[](p \notin known \cup cands \cup Probing)
=============================================================================
