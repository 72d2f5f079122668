# A verification project for Net Split Tunnel (py_proxy)

The program is a Windows desktop application (PyQt) for a local network: a
serverless LAN chat with offline delivery, groups, channels, file transfer and
remote screen viewing, beside network utilities (a second address for internet
access next to the intranet, a shared HTTP proxy, IP profiles) and a self-updater.
There is no server and no database: peers talk over UDP beacons and short TCP
connections, and everything that makes the program hard lives in threads, timers
and Qt signals. There are no tests in the repository.

This directory holds TLA+ models of its core, TLC runs that check them on small
instances, and TLAPS proofs, for every value of the constants, of what the modules
promise. `PROJECT.json` is the index: which module stands for which lines (`map`), what each run checks (`runs`),
a plausible bug for every property (`mutants`), what can go wrong and where
(`hazards`), what disagrees with the documents (`findings`), what is proved
(`theorems`).

Run a check: `tlc -workers 2 -config MCOutbox_queue.cfg MCOutbox`.
Check the proofs: `tlapm OutboxProofs.tla`, and likewise `ContactGateProofs`,
`RemoteScreenProofs`, `FileTransferProofs`, `RosterProofs`, `HistoryProofs`,
`MachineProofs` and `ProxyHostProofs`.

## 1. The system

Threads. The GUI thread owns `ChatWindow` and everything in `nst/qt`. Services
(`ChatService`, `FileTransferService`, `RemoteScreenService`, `ProxyServer`, the
beacons, the updater) start daemon threads of their own and call back; the
callbacks are Qt signals, queued to the GUI thread (`nst/qt/signals.py`,
`nst/qt/app.py`). The GUI calls services directly and starts a worker thread for
whatever may block on a socket.

| component | state | operations and threads | what makes it hard | what makes it correct |
|---|---|---|---|---|
| Outgoing queue (`nst/chat.py` 830-1130) | `_outbox` per peer under `_lock` | `send`, `send_edit`, `send_group`, `send_group_kick` in worker threads; `_outbox_loop`; `block_ip`, `remove_peer` | delivery outside the lock from a copy; purge and enqueue in two lock sections; removal by key | nothing lost, nothing twice, in order, one entry per key, delivered when the peer is back |
| Conversation (`nst/qt/chat_window.py` 2400-2930) | `_conversations`, `_mid_index`, ticks, tombstones, `_read_sent` | post, edit, delete for everyone, read; signals `queued`, `queue_flushed`, `receipt`, `edit`, `delete` | two threads post signals about one message; the recipient handles each connection in a thread of its own; receipts and deletions are tried once | a tick never regresses and says no more than is so, a tombstone is final, a message that waits shows the clock |
| First-contact gate (`nst/chat.py` 671-830, `chat_window.py` 1655-1700, 4330-4560) | `_approved_ips`, `_blocked_ips`, `_manual`, `_pending_requests`, rate table; the window's `_chat_req_states`; history files; the registry's list | handler threads; accept, block, unblock, delete, manual connect; load at start | unlocked reads before locked writes; two records of one answer; three places for one block; restarts | a blocked peer stays out, the card tells the truth, nothing waits behind a question that was never put |
| Remote screen (`nst/remotescreen.py`, `nst/qt/remote_window.py`) | `_sessions`, `_running`, sockets, send lock, approval events, banners | server, handler/capture, input and GUI threads; settings | three threads may end a session; a viewer that does not read; a switch that is moved twice | nobody is viewed without a banner, Stop stops, who was allowed is served |
| File transfer (`nst/filetransfer.py`, `chat_window.py` 3950-4330) | `_pending_sends`, `_cancel_events`, timers; the bubbles' `_offer_states` | offer worker, scan, timer, a serving thread per connection, a receiving thread | every party can end a transfer at any moment; a group shares one entry | whole files or none, unless Windows refuses to remove a part, every transfer and offer ends |
| Groups and channels (`chat_window.py` 2635-2800, 3339-3750) | `_groups`, `_channels`: members, admins | create, add, remove, promote, rename, leave, delete; metadata broadcast as ordinary payloads | replicated state with no version and no coordinator; queued metadata | the right to manage passes only from one who has it, and somebody always has it |
| Chat lock and history files (`nst/chatlock.py`, `chat_window.py` 4440-4763) | `_save_queue`, `_save_lock`, `_locked_files`, keys; files | debounced writer thread, flush from the GUI, lock, unlock, reset, load | two writers; a lock taken while saves wait; a crash between two registry writes | at rest the file has what the window has and is sealed if the chat is locked; no save is left behind |
| Presence (`nst/chat.py` 440-660) | `_peers`, `_last_seen`, `_manual`, `_probing` | beacons in and out, probe pool, liveness loop, reaper | unlocked gaps between reading and touching a peer | a peer that shows itself and answers is online, one that ended is not, a deleted one that ended is let go, one probe per peer |
| Updater (`nst/updater.py`) | staged version and path | check, stage, apply after 5 s, apply on launch | timers against the chat window; an installer that fails silently | never installs an older version, however stops and checks fall between its writes |
| Dual access, routing, IP profiles (`nst/dual_access.py`, `routing.py`, `ipswitch.py`) | adapter settings; saved previous settings | enable, disable, elevated helpers | partial failures, elevation refused, enabling twice | what is captured is the user's setup, addresses do not stack up |
| Proxy, registry, beacon (`nst/proxy_server.py`, `proxy_registry.py`, `beacon.py`) | socket, `running`, client table | start, stop, accept loop, handler threads | stop and start within the accept timeout; counters shared by handlers | what is announced is served, counts balance, a list that was saved is obeyed |
| Configuration store (`nst/config.py`) | registry and `_CACHE` | read through, write through, from any thread | unlocked read, then a cache fill | a save that nobody's read overlaps is what every later load takes |
| Settings dialog, UI shell, tray, toasts, sound, theme, screen capture, antivirus, Windows helpers, build scripts | - | drawing and calls into Windows | - | not worth a state machine; see section 9 |

How they interact: `ChatService` calls `ChatWindow` through signals for every
payload kind; `ChatWindow` calls `ChatService` (send, approve, block, remove),
`FileTransferService` (offer, receive, cancel) and `config`. File offers,
acceptances and rejections are chat payloads; the bytes go over a second port.
`RemoteHostController` sits between `RemoteScreenService` and the GUI.
`ChatWindow` persists approvals and blocks with the history that the gate loads
at the next start. Closing the chat window triggers the updater.

## 2. Plan

Ordered by how much of the program rests on the component.

| step | modules | state |
|---|---|---|
| 1 | `Outbox`, abstract specification `Retention`, `OutboxProofs` | done |
| 2 | `Conversation` (EXTENDS `Outbox`: the window above the queue, the recipient beyond it), in `OutboxProofs` | done |
| 3 | `ContactGate`, `ContactGateProofs` | done |
| 4 | `RemoteScreen`: the host; `RemoteScreenProofs` | done |
| 5 | `FileTransfer`, `FileTransferProofs` | done |
| 6 | `Rooms`: a group or a channel, replicated over late and lost payloads; `RosterProofs` | done |
| 7 | `History`: save queue, writer, lock, reset, load; `HistoryProofs` | done |
| 8 | `Presence`: touch, probe, reaper, remove; in `RosterProofs` | done |
| 9 | `DualAccess`: enabling, each command a step; `MachineProofs` | done |
| 10 | `ConfigStore` and `ProxyHost` (EXTENDS it: handlers and the dashboard are the threads that load and save), `ProxyHostProofs` | done |
| 11 | `Updater`, in `MachineProofs` | done |
| 12 | proofs of every safety property the runs check, for every component | done |
| 13 | the viewer of a remote screen, the client of the proxy | open |

One passing run per component, and one run for a disagreement with the documents
that takes three users to see. The narrower disagreements, each visible in a
step or two of a model, are in section 7.

What is left to prove is liveness, which stays with TLC (section 6). All modules
are written for proofs: no RECURSIVE operator, constants with named assumptions, one
action per operation.

## 3. Modules and how they correspond to the code

Each definition that stands for code is in `PROJECT.json` under `map` with its
lines. Every module has its *mutants* beside the definitions they replace: the
same definition with one plausible bug, marked "Mutant:". `Next` never uses them.

**Outbox** - `ChatService`'s sending half. `work` is the set of worker threads
between two lock sections; `outbox[p]` the queue, its order kept as arrival
numbers (`ticket`); `loop` the outbox thread's local variables (the peers left in
this sweep, the copied items, the item just delivered); `arrived[p]` what the
peer's TCP stack took. A payload is a kind, an id and a version; its key is the
queue's deduplication key. `WorkerDeliver` is `_deliver`, `WorkerPurge` and
`WorkerEnqueue` are the two lock sections of `send_edit`, `LoopTake`,
`LoopTry`, `LoopRemove` and `LoopFlush` the sections of `_outbox_loop`,
`DropQueue` what `block_ip` and `remove_peer` do to a queue. `up` is the network.

**Retention** - what a sender-retained queue promises, without threads: what is
issued is owed until it is taken or recalled, or until another payload of its key
was sent. `Accounted` is what that comes to. `Outbox` implements it: `owed` is everything a worker, the queue or the
loop's copy holds that the peer has not taken.

**Conversation** - `Outbox` with the window above and the recipient beyond.
`status` are the ticks, `events` the queued Qt signals in the order threads posted
them, `tomb` the sender's tombstones, `editing` the composer's edit mode,
`deletes` and `receipts` the payloads that are tried once. `Handle` is the
recipient's handler thread, for any payload its stack took, in any order. For a 1:1
text `_dispatch_msg` starts the thread that sends the delivered receipt before it
emits the text, so the two are apart: `HandleText` issues the receipt and puts the
text into `toShow`, `Show` is the window that handles it. `PeerLeaves` may lose what
the recipient's threads and its window had not come to.

**ContactGate** - `_handle_conn` one read or lock section at a time (`conns`), the
service's four sets, the window's `answer` and `card`, the writer's pending
snapshot `unsaved`, the history `file`, the registry's `listed`. `Restart` ends
the program, with or without a snapshot unsaved, and loads what the files say.
`ClearHistory` is the chat's own clearing and that of all histories: it takes the card
and leaves what was asked and buffered.
`shut` is a history variable: messages that came in while their sender was blocked,
from senders blocked ever since.

**RemoteScreen** - `at[v]` holds the program counters of the threads a session
has: the handler that becomes the capture loop, the input loop and the GUI
thread when it runs `stop()`. The send lock is held while `at[v]["host"]` is
"sending"; a thread at "bye" waits for it or has it. `binding` and `listening` are the server
threads. A request box runs a nested event loop: signals are handled, the other
windows are not reachable. The peer connects, stalls, recovers and leaves.

**FileTransfer** - one offer to a peer or to a group: the sender's worker, scan,
timer and bubble, a serving thread and a receiving thread per receiver, and the
connection between the two as a number of pieces sent and read and the way it
ended. `rstate` is the receiver's bubble, `file` its download folder. A receiver's
thread ends at "done", or at "stuck" if the removal of the part it wrote failed.

**Rooms** - one group or channel. `roster[n]` is what node n has stored in
`_groups` or `_channels` (its own address is not in the creator's list; `Meta` is
`_group_meta`, which adds it), `holders` who has the room at all, `dialog[n]` the
list in an open manage dialog: it exists if n was an administrator when the dialog
opened, and signals are handled behind it. `net` holds payloads from the worker
that sends them to the window that handles them, unordered, since workers,
queue and handler threads of two payloads run independently. `Join`, `Learn` and
`Kicked` are the three ways a window takes one. Member lists are sets, so "the
first member" is any member. `Quit` ends a program: what it had not sent or not
handled may be lost, its rosters are in the history. `crowned` is a history
variable: the creator and whoever one of the crowned has sent round as
an administrator. Groups and channels differ in what each function does
(`GroupSetAdmin` and `ChannelSetAdmin`, `DeleteGroup` and `DeleteChannel`, ...):
a channel's administrators are checked again when the button is pressed, and its
removals and departures tell nobody.

**History** - one conversation. `queue` is its entry in `_save_queue`, `event` and
`running` are the writer's flags, `job[t]` what a thread that flushes has swapped
out and how far it is (is the chat locked? are there keys? write), `gui` the
operation the GUI thread is in the middle of: setting a password stores the salt
(`SetSalt`), the verifier (`SetVerifier`) and the scope (`SetScope`), after which
the conversations are queued again; a reset flushes in the GUI thread; the end of
the program flushes in the GUI thread even if the writer did not join.
`deferred` says that the file was encrypted at the start and has not been read.
Every write may fail. `mishaps` is a history variable: what `FileAtRest` excepts.

**Presence** - one node's view of its peers. Time is counted in beacon intervals;
`Tick` ends a unit once the sweep is not overdue and the pool has done its share.
`Look` and `SweepSubmits` are the two halves of `_liveness_loop`'s sweep, `Try`
and `ProbeTouches` the two of a probe (the connection; the touch under the lock),
`Reap` the reaper, `GroupMember` a group's roster that names a peer.
`hidden` is the window's set of deleted peers, which only contact from the peer
or the user empties. `steady` (how long a peer's program has been as it is) and
`dropped` (who was deleted and neither made contact nor was added or named in a group
since) are history variables.

**DualAccess** - `adapter`, `routes` and `nrpt` are what Windows has, `store` what
the registry keeps, `job[j]` a worker together with the elevated child it asked
for: approval, then one command after the other. A child outlives a program that
ends. `ApplyProfile` is the IP switch, `ToggleRoute` the route button,
`CheckStatus` the background check whose result decides what the button does.
`StartDisable` leads to `Raise` only (section 7): the worker ends before it asks for a
child, so `_do_disable` is code that the program never runs, and is not modelled.
`mishaps` counts what the properties except or are measured against: a command that
Windows refuses, a program that ends before its child, two jobs at once, a profile on top.

**ConfigStore** - one registry value and its copy in `_CACHE`, with a load and a
save of any thread cut where the lock is not held; a read of the registry may fail,
and then the default is cached. `settled` is a history variable: in this run of the
program a save has finished while no thread was between a miss and its fill.

**ProxyHost** - `loops` counts the accept loops alive, `stale` those that still
wait on a socket that was closed; a start sets the flag they look at, too.
`beacons` are the same of the beacon. A handler looks the list of blocked clients
up through `ConfigStore`, is counted in and serves, or is sent away; the dashboard
loads and saves the list in the GUI thread. `conn[k].late` is a history variable:
the client came when it was in the saved list and `settled` held.

**Updater** - `fetch` are the checks' downloads, `file` what the temporary
directory has of each version, `ready` the signals, `timers` the five seconds
that run, `staged` the two registry values, written one after the other (`Torn`
is a kill in between). `Fire` is the end of the five seconds, after which nobody looks
at the chat again. `Install` is the installer, which replaces the program
when it is gone; starts of the program exclude a pending installer.

## 4. Runs

| run | instance | distinct states | checks |
|---|---|---|---|
| `MCOutbox_queue` | one peer, one text with two edits, one group with one kick | 131,630 | `TypeOK`, `OneEntryPerKey`, `RetainedUntilTaken`, `TakenAtMostOnce`, `OldestFirst`, `KeepsContract`, `DeliveredOnReturn` |
| `MCConversation_private` | a 1:1 text, one edit, one deletion | 208,074 | `ConversationTypeOK`, `DeliveredTickIsTrue`, `NothingComesBack`, `QueuedTickWhileWaiting` |
| `MCContactGate_gate` | one peer, two messages, rate limit 1, one restart | 567,392 | `GateTypeOK`, `BlockedStaysOut`, `CardTellsTheTruth`, `AcceptedGetsThrough` |
| `MCRemoteScreen_host` | one viewer that may know the secret, two saves of the settings | 51,214 | `RemoteTypeOK`, `NeverSilent`, `StopReturns`, `AllowedIsServed` |
| `MCFileTransfer_transfer` | a private offer over a network that fails, and a group of two; header and one chunk | 265,803 | `FileTypeOK`, `WholeOrGone`, `TransferEnds` |
| `MCRooms_rooms` | three users, a group or a channel, three acts, up to symmetry | 1,014,459 | `RoomsTypeOK`, `AuthorityIsHandedDown` |
| `MCRooms_adminless` | three users, a group nobody leaves, two acts, no losses | - | finding: `NeverAdminless` |
| `MCHistory_history` | two messages, two passwords, two starts, writes that may fail | 518,873 | `HistoryTypeOK`, `FileAtRest`, `CiphertextIsSafe`, `SavesLand` |
| `MCPresence_seen` | a peer on our subnet and one beyond, a pool of one, three turns | 1,163,595 | `PresenceTypeOK`, `StatusIsTimely`, `DeletedIsLetGo` |
| `MCDualAccess_dual` | three internet addresses, two jobs, two mishaps, up to symmetry | 515,011 | `DualTypeOK`, `NoStaleAddress`, `CaptureIsTheUsers`, `OneAddressPerMishap` |
| `MCProxyHost_host` | one client, two handlers, two loops of a kind | 100,950 | `HostTypeOK`, `AdvertisedIsServed`, `SavedListIsObeyed` |
| `MCUpdater_update` | four versions, two checks, two kills | 347,241 | `UpdaterTypeOK`, `NeverOlder` |

Why these bounds are enough for the hazards they are aimed at.

- *Outbox.* Queues of different peers share only the loop, which handles one at a
  time; whatever happens between the copy and the removal happens to one peer's
  queue. One peer with a text, two edits of it and a kick has all three payload
  kinds, two payloads of one key (the purge, the deduplication, the removal by
  key) and payloads of different keys (order). What two peers add - one that is
  away while the other is served - is in the proofs, which hold for any number.
- *Conversation.* A tick depends on the signals of its own message only. One text
  has every pair of signals in either order; one edit and one deletion give the
  tombstone something to withstand.
- *ContactGate.* No state is shared by two peers. Two messages are needed for one
  to be buffered while the other is asked about, dispatched or counted; a rate
  limit of one is reached by the second. One restart separates what is saved from
  what is not.
- *RemoteScreen.* Sessions share the listener, the switch and the GUI thread. Two
  saves are an off and an on, or the reverse; the sessions' own races are between
  the threads of one session. Nothing here shows what two viewers do to each
  other beyond the request boxes.
- *FileTransfer.* Two receivers are what a group needs to share an entry. The
  network fails only for the private offer, which already has every point of
  failure; for the group the interesting part is the sharing. One chunk after the
  header is a partial file.

- *Rooms.* Three users are the one who acts, the one acted upon, and one whose
  roster may lag behind. Three acts after the creation let a promoted member act
  and a removed one answer late. The nodes are alike, so symmetry is sound (no
  liveness is checked).
- *History.* Conversations share only the queue, which keeps one entry of each;
  `mixed` mishaps aside, what one file holds depends on its own saves. Two messages
  tell an older snapshot from a newer one, two passwords a file sealed with the old
  one, two starts what a stop leaves behind. `mishaps` excepts what the code does
  not protect (section 7), so the exceptions are as much a result as the property.
- *Presence.* The constants of the code are kept in proportion: a probe after two
  intervals, offline after five, dropped after six, a sweep every two. A pool of
  one is the narrowest that still makes one peer wait for the other. Three turns
  are a peer that goes, comes back, and one act of the user, or the reverse.
- *DualAccess.* Two jobs are a worker of this session and a child of the last, or two
  clicks. Two mishaps (a refused command, a kill, an overlap, a profile on top) can
  meet, one in the child of another. `NoStaleAddress` and `CaptureIsTheUsers` hold
  until the first; `OneAddressPerMishap` says what each costs, and with three
  addresses two mishaps can cost all they may: three addresses bound.
- *ProxyHost.* One client is enough for a list to be old or new; two handlers can
  load before and after a save; two loops are an old and a new one. For any
  number of each the properties are proved.
- *Updater.* With four versions an entry for one can be left while a second is
  installed and two more are out; two checks may fetch different versions or write
  the same file. Two kills tear one entry and stop the start that meets it. For
  any number the properties are proved.

`CHECK_DEADLOCK FALSE` stands in the RemoteScreen, FileTransfer, Rooms and History
runs because they follow a bounded number of connections, saves, offers, acts and
starts and really end. The others never stop.

Bounds in guards: `MaxEdits`, `MaxKicks` (payload versions), `MaxStarts`
(restarts), `MaxSaves` (saves of the settings), `RateLimit` (a constant of the
code, made small), `Pieces`, `MaxActs` (what users do to a room), `MaxMsgs`, `MaxKeys`, `MaxRuns`
(History), `MaxTurns` (Presence), `MaxMishaps` (DualAccess), `MaxLoops` (ProxyHost),
`MaxVersion`, `MaxCrashes` (Updater); messages and texts are sent once each.

## 5. Fairness

Threads that can run do run: the operating system schedules them, connecting,
accepting and the receiver's reads have timeouts of 1 to 8 s, a serving thread blocked on a
machine that vanished gets an error from TCP in the end, and the GUI's event loop
takes the next signal. So weak fairness holds for workers, the outbox loop,
handlers, serving and receiving threads, the server thread, the timer, the
history writer, and the signal queue; in `Presence` for the clock, the probe
pool with the sweep, and the reaper. Users, peers and networks owe nothing: no fairness for posting,
answering a request, coming back, receipts or deletions arriving. Two
consequences: `DeliveredOnReturn` assumes that the peer stays in the end
(`<>[]up[p]`), and a send to a viewer that stopped reading may
take for ever (`Flowing`), so `StopReturns` assumes that the viewer does not
stall for good. That condition is not decoration: without it the GUI thread
itself can hang in `stop()`, waiting for the send lock the capture loop holds.

## 6. Proofs

Eight modules hold the proofs, one per component or, where components are small, per
pair. Every safety property and action property of a passing run is a theorem of the
specification that the run checks, for every value of the constants that the named
assumptions allow, but for two: of `StatusIsTimely` only the half that no pool can
spoil is proved, and `OneAddressPerMishap` is model-checked only. TLC agrees with the
inductive invariants on the instances of the runs.

**`OutboxProofs`.** For any peers, texts, groups and bounds, from `OutboxAssumption` (`To` gives each
text a set of peers, the bounds are naturals):

- `TypeCorrect`: `Spec => []TypeOK`;
- `Inductive`: `Spec => []IInv`;
- `NothingIsLost`, `NothingIsTakenTwice`, `QueueIsDeduplicated`:
  `RetainedUntilTaken`, `TakenAtMostOnce` and `OneEntryPerKey` hold always.

None of the three is inductive alone. That the peer takes nothing twice depends on
an item in the loop's copy not being with a worker and not having been taken, even
when the queue was emptied behind the loop; that nothing is lost depends on
removal by key taking away only what was delivered or shares its key. `IInv`
therefore adds where a payload can be: `WorkersApart` (a worker's payload is
nowhere else), `QueueAndCopy` (queue and copy hold the same entry for the same
payload, and one already taken is the one being removed), `NowInHand` (what is
about to be removed has been taken) and `ArrivedWasIssued` (so a new payload is new
everywhere). One lemma per action (`StartInv`, `DropQueueInv`, `NetworkInv`,
`WorkerPurgeInv`, `WorkerDeliverInv`, `WorkerEnqueueInv`, `LoopDeliverInv`,
`LoopRemoveInv`, and `MoveLoopInv` for the steps that only move the loop) shows
that each part survives; two lemmas about sequences say what `Append` does to the
range and to distinctness.

Three more theorems build on `IInv`.

- `DeliveredInOrder`: `Spec => OldestFirst`. It needs one part more, `CopyIsOlder`:
  what is in a queue and not in the loop's copy of it has a later ticket than all of
  the copy. A new entry gets the next ticket, a copy is made of the whole queue, and
  what leaves the copy has left the queue.
- `ThreadsKeepTheContract`: `Spec => KeepsContract`, the refinement, step by step.
  The abstract `owed` is what a worker, the queue or the copy holds and the peer has
  not taken. A send is a promise to all its recipients, a delivery by a worker or by
  the loop an arrival, whatever a purge, the deduplication, a removal by key or a broken copy lets go is
  given up for another payload of its key (`GivingUp`: by `RetainedUntilTaken` nothing
  else can be let go), `DropQueue` is a recall, and the loop's other steps are stutters.
- `QueueBeneath`: `CSpec => Spec`. No action of `Conversation` does anything to the
  queue that `Outbox` does not, so all of the above holds of the composition. The run
  of `Conversation` is small; this is what says that nothing was lost in composing.

For the conversation, from `ConversationAssumption` as well: `ConversationTypes`,
`TicksAreTrue` (`DeliveredTickIsTrue`) and `NothingIsUndone` (`NothingComesBack`).
`ConvInv` traces a tick back: a signal or a receipt under way is about a text that the
service of somebody passed on (`ReceiptsAreTrue`), a window has or is about to have
only texts whose handler ran (`ShownWasHandled`), and a text goes only to those it is
addressed to (`Addressed`). That "delivered" promises no more is the code's order: its
receipt may be back before the recipient's window has handled the text, or may be all
that is ever seen of it. For "read" the proof needs `OpenedWasShown`: only a text that
a window has is opened there.
That a deleted text is not revived would be false without the queue: the recipient's
window shows a text that comes in whatever it has under its id, so one that arrived
twice could be shown again. The proof uses `TakenAtMostOnce` for just this step.

Four theorems say what this comes to for the users at the two ends. `ShownIsTrue` and
`ReadTickIsTrue` are stated in `OutboxProofs`, `Accounted` in `Retention`; no run lists
them, but TLC agrees with them on the instance of `MCConversation_private`.

- `WindowsShowWhatWasSent` (`ShownIsTrue`): a window shows a text only to those it is
  addressed to, a version only if our user made that edit for that peer, a tombstone only
  if our user deleted the text for everyone. `WindowsAreFounded` is the invariant: what a
  window shows was taken by its machine, and a delete request under way has a tombstone
  at the sender (`TombstonesStay`).
- `ReadTicksAreTrue` (`ReadTickIsTrue`): a bubble shows read only if one of those it is
  addressed to has opened the text. The invariant follows the read receipt backwards:
  `ReceiptSources` says where receipts and the signals made of them come from, for every
  action, and `OpenedStays` that only `_mark_read` opens, for a text the window has.
- `WhatTheContractMeans`: `KeepsContract => []Contract!Accounted`. The refinement would
  be worth little if `Retention` allowed too much. This theorem uses nothing of the
  threads, only that their state keeps the contract: every payload is owed or was taken,
  and not both, unless it was recalled or another of its key was sent.
- `ConversationKeepsTheContract`: `CSpec => KeepsContract /\ []Contract!Accounted`, the
  refinement of the composition, through `QueueBeneath`. It says more than
  `RetainedUntilTaken`, which is silent on payloads whose key was used again.

**`ContactGateProofs`.** For any peers, messages, rate limit and number of restarts,
from `GateAssumption` (each message has a sender): `GateTypeCorrect`,
`BlockedIsKeptOut` and `CardIsTrue`, that is `GateTypeOK`, `BlockedStaysOut` and
`CardTellsTheTruth`, from `GateInv`. `BlockedStaysOut` speaks of the window and the
pending requests only; for it to be inductive, a message that came in under a block may
not be on its way there either (`ShutIsNowhere`: its handler has not read the block
list yet, and no signal carries it), and handlers, signals and requests hold only what
was sent, filed under its sender (`InHandWasSent`). What is buffered is tied to the
window's answer and not to its card, which clearing the chat takes away. The queue of signals enters as the set of what waits in it; two
lemmas say what emitting and handling do to that set.

**`RemoteScreenProofs`.** For any viewers, any of them trusted, and any number of
saves, from `RemoteAssumption`: `RemoteTypeCorrect` and `SessionsAreSeen`
(`NeverSilent`), from `ScreenInv`. `Session(v)` says, for one session, what its three
threads and the queued signals have to do with its socket: a thread at "end", a
finished `stop()` in the GUI thread and a queued "stopped" all come after the close,
and an announced session whose socket is open has its banner or a queued "started".
The type of `binding` is not inductive by itself: it is bounded by the saves made so
far, since each starts at most one server thread.

**`FileTransferProofs`.** For any receivers, groups, networks and files of any number
of pieces, from `FileAssumption`: `FileTypeCorrect` and `FileIsWholeOrGone`
(`WholeOrGone`), from `TransferInv`. `InStep(r)` keeps a receiver's bubble, its thread,
the serving thread, the connection and the file at matching places: nobody reads more
than was sent, nothing is sent before the header, a scan has a whole file before it.
A part that stays is left by a thread that is "stuck", whose bubble has already said
failed. `OneOffer` is what makes it inductive for a group: a receiver that the offer has not
reached has no bubble, so no second thread can be started for it.

**`RosterProofs`, rooms.** For any users and acts, from `RoomsAssumption`:
`RoomsTypeCorrect` and `NobodyCrownsHimself` (`AuthorityIsHandedDown`), from
`CrownInv`. `RostersAreCrowned` speaks not of the stored list but of `Meta`, what
`_group_meta` would send of it, fallback included. The fallback makes somebody an
administrator whom no one promoted, so the proof has to show that no holder stores a
roster it applies to: `PayloadsAreCrowned` says that every roster under way names an
administrator who is a member, and so does what a newcomer stores. `DialogsAreCrowned`
covers the dialog whose user has lost the right meanwhile.

**`RosterProofs`, peers.** For any peers, timeouts, sweep period and pool, from
`PresenceAssumption`: `PresenceTypeCorrect`, from `PresenceInv`. The type is worth its
proof here: it says that `_submit_probe` keeps one probe of a peer, which rests on a
lemma about taking an element out of a sequence without repetitions. The invariant adds
that manual peers are known.

`WhoLeftIsOffline` is one half of `StatusIsTimely`, for every value of the constants:
`Aged` says that a peer that is off was last seen no later than it was switched off, and
that a probe which connected before that is still to touch it only within the same unit.
The other half, that who runs visibly is online though every beacon is lost, depends on
the sweep and the pool being fast enough for the peers there are, which the code does not
guarantee; the run checks it where they are (8 workers with a timeout of one second take
24 probes in the unit of three seconds), and TLC finds it violated with `PerUnit` 1 or
`SweepEvery` 4.

**`HistoryProofs`.** For any number of messages, passwords and starts, a disk that fails
or not, from `HistoryAssumption`: `HistoryTypeCorrect`, `FileIsAsItShould`
(`FileAtRest`) and `CiphertextIsKept` (`CiphertextIsSafe`), from `HistoryInv`. The
property speaks of rest; the invariant has to speak of what is on its way. `Busy` and
`Due` are that something is queued or being saved and what the last of it will leave in
the file; `Current` says that memory is what is due, or else what the file has;
`Unknown` the same of a chat the window does not have; `InHand` that what a flushing
thread asked of the lock still holds when it writes, or a later save is in the queue;
`Sealed` what follows for the file. `Shut` gives the action property: while nobody has
given the password no thread is about to write. `LockOK` and `Resets` are the order of
the registry writes and of a reset. Each part holds up to the exceptions `FileAtRest`
names (`Clean`, `Landed`), and the proof shows that these are all there are.

**`ProxyHostProofs`.** For any clients, handlers and bounds, from `StoreAssumption`
and `HostAssumption` (the threads are the handlers, finitely many, and the GUI
thread; the values are the sets of clients): `HostTypes`, `HostIsServed` and
`ListIsObeyed`, that is `HostTypeOK`, `AdvertisedIsServed` and
`SavedListIsObeyed`, from the invariant `HostInv`. Its parts: `Shape` (types);
`Counted` (a client is counted exactly as often as it is served, without which
the table's bound is not inductive: cardinalities of the set of its
connections); `LoopsKept` (a running server has a loop on its own socket, and
the beacon runs only with the server); `Late` (only the GUI thread is ever
between the halves of a save, and the client of a late connection is in the
registry); and, once `settled`, `ListKnown` (nobody misses the cache or is about to
fill it, it has the registry's value unless the GUI thread is about to replace it, and
a late connection's thread has a list with its client). `ListKnown` is where the two
weaknesses of `_read_value` show: a fill over a newer save and a failed read put a
wrong value into the cache. Either needs a thread between a miss and its fill. A save
that finishes while there is none puts the registry's value there, after which no
load misses until the program ends.

**`MachineProofs`, the update.** For any number of checks, versions and kills, from
`UpdaterAssumption` (bounds are naturals): `UpdaterTypes` and `NoDowngrade`
(`NeverOlder`), from the invariant `UpdInv`. `NeverOlder` is far from inductive: a torn entry with the version of
one update and the path of an older one may be met again after another update
was installed. `Heir(p)` says that the entry, if it would still be applied once p
is installed, has no path behind p; `Session` says this of all that checks,
signals and timers hold, which works because a torn entry is met only by a later
session, whose checks find nothing older than what was out when it was torn;
`Entries` says it of the program's version and of a pending installer.

**`MachineProofs`, dual access.** For any finite set of internet addresses, any workers
and mishaps, from `DualAssumption` (an internet address is none of the addresses the
program itself names): `DualTypeCorrect`, `AddressesDoNotStackUp` (`NoStaleAddress`) and
`CaptureIsKept` (`CaptureIsTheUsers`), from `DualInv`: types always, and until the first
mishap `Unharmed`. Its parts: `Alone` (one job at a time, or it would be a mishap);
`Kept` (the captured setup is the user's as long as an address is active, which is what
the test of `active` before the capture is for); `Settled` (between children the machine
is what the registry says); `EnableStage` (what the adapter and the routes are by the
time a child comes to each command). Without the stages neither theorem is inductive:
the captured setup is right only if nothing of an enabling that ended is left when no
address is active.

Only model-checked:

- liveness, since the prover does not do fairness or ENABLED: `DeliveredOnReturn`,
  `QueuedTickWhileWaiting`, `AcceptedGetsThrough`, `StopReturns`, `AllowedIsServed`,
  `TransferEnds`, `SavesLand`, `DeletedIsLetGo`;
- `OneAddressPerMishap`, and of `StatusIsTimely` the half `RunningIsOnline`;
- `NeverAdminless` is violated (section 7).

Induction over data and RECURSIVE operators are out of the prover's reach as well; the
modules use neither.

## 7. What the checks show

What holds: the queue keeps its promise under every interleaving; ticks say no
more than what a recipient's service or window has done, and tombstones are final,
whatever the order of signals and handlers; the gate keeps blocked peers out, and an
accepted one gets through; a served session has its banner, Stop closes the socket and
switching off ends the sending; a transfer leaves a whole file or none where Windows
lets it remove a part, and everything that was started ends; the right to manage a room
only passes from one who has it; a save is never left behind, ciphertext is not
replaced by plaintext, and at rest, some stops and overlaps aside, a file is current and
sealed; the status of a peer that does not hide follows its program within the timeout,
and a deleted peer is let go when its program has ended; until something goes wrong
enabling dual access leaves one address and captures the user's setup, and each mishap
costs one address at most; what the proxy announces is served, and a list saved in this
run of the program, while nobody read the old one, is obeyed; an update never installs an
older version.

What does not, as a finding with the counterexample of a run:

`NeverAdminless`: the creator promotes n2, and `_ensure_group_admin`, which
looks for admins in a member list that never holds the local user, drops the
creator's own right. The dialog is still open, and the creator removes n2 from
it. n3 has learned that only n2 is an admin and ignores the creator's roster that
makes n3 one. All payloads handled, in order: n2 is out, the creator says n3, n3
says n2.

Known gaps: what the models also show, and no property forbids. Each is an action
or an exception of the module named. Where a document or a comment says otherwise it is
quoted: these are disagreements of the code with what is written about it, shown here
without a counterexample of their own because each is a step or two of the action named.
No property demands the opposite of what the document says.

- *Edits may not land* (`Conversation`): edits carry no version and handlers run in
  any order, so an edit handled before its text is dropped and an older one may be
  handled last (`chat_window.py:2449`); of two edits to a peer that is away
  `_enqueue` may keep the older, or `_outbox_loop` remove the newer by its key
  (`chat.py:887`, `913`), although `send_edit` says that a later edit
  "supersedes any still-queued one (we never deliver a stale text)" (`chat.py:999-1001`): `DeliveredOnReturn` speaks
  only of a payload that is alone of its key in workers, queue and copy. A deletion for everyone is tried once and does nothing if
  it overtakes its text.
- *Delivered may be all there ever is* (`Conversation`, `HandleText` and `Show`): the
  receipt is started before the text is emitted (`chat.py:823-827`), so the sender can see
  "delivered" before any window has the text, and for good if the recipient quits then.
- *A cleared chat hides an open request* (`ContactGate`, `ClearHistory`): clearing the
  chat or all histories removes the card (`chat_window.py:3845-3877`, `1641-1660`) and
  leaves the request pending in the window and in the service; later requests return early
  (`chat_window.py:4372-4375`), so what the peer sends is buffered behind a card that
  nobody sees, until the peer is added by hand, deleted or the program restarted.
- *A block does not survive a restart* (`ContactGate`): `block_user` writes the
  registry's list, which nothing loads, and not the history file, which is loaded
  (`chat_window.py:1664`).
- *A part can stay* (`FileTransfer`, `Clean`): when another program has the partial file
  open `os.remove` fails, which is swallowed (`filetransfer.py:338-341`), although
  `README.md:151` says that "cancelling a transfer removes the partial file".
- *One member's rejection withdraws a group's file for all* (`FileTransfer`,
  `chat_window.py:4329`).
- *A banner can stay* (`RemoteScreen`): when SF_ACCEPT cannot be sent the session
  stays registered and the banner up (`remotescreen.py:204`).
- *Off and on again* within the accept timeout leaves nobody listening while the
  setting says enabled (`remotescreen.py:358`).
- *Invisible peers read as online* (`Presence`): they stop their beacon, but answer the
  probes of everyone who knew them (`chat.py:505`), although `README.md:219` and `237`
  say that they appear offline, `update.md:130` that they "should not appear in online
  lists", and so does the comment at `chat.py:515`. `StatusIsTimely` leaves them out.
- *A deleted peer comes back* (`Presence`, `ProbeTouches`, `GroupMember`): a probe or a
  sweep that was under way touches the peer after `remove_peer`, whose docstring says
  "Forget a peer entirely: stop probing it (if manual)" and that deletion is permanent
  for manual peers (`chat.py:276-280`). From then on every
  sweep finds and probes it, as long as its program runs; so does a group's roster that
  names it, received from anybody. `DeletedIsLetGo` is what is left of the promise.
- *A message that arrives for a conversation still locked* is kept in memory only,
  and replaced when the password is given and the file is read; given within the
  debounce, the waiting snapshot overwrites the file instead (`History`,
  exceptions `lost` and `mixed`; `chat_window.py:4458`, `4686`). A selective lock
  never asks when its conversation is opened, although `chatlock.py:25` says so.
- *Stops while the lock changes* (`History`, exception `unclean`): between scope or
  removal and the files' being saved again a file is plain under a lock or sealed
  without one; between salt and verifier no password opens anything.
- *Two threads flush at once* (`History`, exception `overlap`): the older snapshot
  can land last.
- *Disabling dual access always raises* (`DualAccess`, `Raise`): `load_dual_prev_ip`
  has no return statement (`config.py:764`), so that unpacking its result ends
  `disable_dual_access` at `dual_access.py:529`, before anything is undone, although
  `README.md:99` says that Disable reverses everything and restores the setup.
- *After a mishap* - a refused command, a program that ends before its child, two
  workers, a profile on top - (`DualAccess`) the active address is not what is bound, an
  address may stay for good, and the next enable takes our own settings for the previous
  ones, which the capture under `active` is meant to prevent (comment at
  `dual_access.py:460-462`). Host routes are never removed. On a program that runs as
  administrator enabling stops at a name that is not defined.
- *The cache may have the wrong value* (`ConfigStore`, `ReadRegistry` and `Fill`): a
  save between a read of the registry and its fill leaves the older value cached, and a
  read that fails leaves the default (`config.py:97-102`), either until the next save.
  For the proxy's host that is a list without the blocked client, which is served; and
  blocking another then saves a list of only that one. `SavedListIsObeyed` says when
  this ends.
- *An error of accept* ends the loop and leaves `running` set: nobody is served or
  told (`ProxyHost`, exception `broken`).
- *A chat opened again* within the five seconds is interrupted (`Updater`, `Fire`):
  `updater.py:314` does not look at the chat again, although `README.md:238`,
  `app.py:163-165` and `updater.py:6-8` say that an open chat is never interrupted. A
  second download of a version truncates the staged installer, one that breaks
  off leaves a part that may be run, and a start clears its entry though the
  installer may fail.

## 8. Abstractions

- Time is order: the two- and three-minute windows for edits and deletions are
  left open (an edit or a deletion may come at any time), the rate window passes
  at any time, timers fire at any time while armed. Presence (15 s old at most) is
  a peer that may be taken for present though it is gone.
- The turns of one group worker overlap, since they touch different queues; the
  same for the GUI thread stopping several sessions.
- The versions of a kick are the same bytes; the number only tells calls apart.
- In `Conversation` what reaches a recipient's window is a version of the text,
  absent or deleted. Each message is counted as received once.
- In `FileTransfer` a signal takes effect when it is emitted; the scan is an
  outcome; the receivers' approvals travel as part of the connection (they change
  a label only).
- In `ContactGate` a message is one that the rate limit counts; file offers, which pass
  the gate too, are exempt from it (`chat.py:723`).
- In `Rooms` a channel's dialog asks whether its user is an administrator when it
  opens a nested dialog, whose choice is made without asking again; the question, the
  choice and the change are one step. A room's texts and name are left out (a post or a
  rename is its roster), the first-contact gate between strangers in one room only delays a payload, and
  a crash loses no roster (the writer's delay belongs to the history files).
- Forwards never show the clock (`_forward` does not mark them queued); they are
  the mutant of `QueuedTickWhileWaiting` rather than an action.
- In `History` a password and its salt are one number, the temporary file is part
  of the write, and the retention limit is not modelled (it drops old messages on
  load and save).
- In `Presence` a peer has one address: merging several by device id and the status
  "away", which probes overwrite, are left out, as is a pool that many
  unreachable peers starve (`PerUnit` is the share the timeouts leave).
- In `DualAccess` the address a user types is none of those the program names (the
  intranet's and the name servers' own): nothing in the code keeps one from typing
  8.8.8.8, and then the host route of the server and the address could not be told
  apart. Masks, gateways, interface indices and simulation mode are left
  out; the PowerShell fallback of an elevation reports success whatever the child
  did, like the main one reports nothing of its commands.
- In `ConfigStore` one name stands for all: names share nothing but the lock. In
  `ProxyHost` the list of allowed clients and the rules for domains are read by the
  same mechanism as the list of blocked ones and are left out; forwarding is a
  connection that is served and ends. A restart is one action.
- In `Updater` releases are numbered and never withdrawn.

## 9. Not modelled

The client's side of the proxy (the scanner of beacons, the system proxy setting,
the health checks and their counter), of dual access the ping tests and the
lookup of adapters, of the remote screen the viewer's window (a peer here) and
the clipboard, of the conversation forwards, replies, reactions, typing
notices, inline images and search. The settings dialog is a thin layer over
`config` and the services; its saves appear where a service reads them
(`RemoteScreen`, `History`).

Left out for good: drawing, themes, tray, toasts and sounds; screen capture and
input injection (calls into GDI and SendInput); the antivirus scan (an external
process, an outcome in `FileTransfer`); Windows queries in `win_utils.py` and
`netinfo.py`; the build and release scripts.
