---------------------------- MODULE FileTransfer ----------------------------
(***************************************************************************)
(* One file offered to a peer or to the members of a group, seen from both *)
(* ends: FileTransferService (nst/filetransfer.py) with its worker, timer, *)
(* serving and receiving threads, and the file bubbles of ChatWindow       *)
(* (nst/qt/chat_window.py).                                                *)
(*                                                                         *)
(* What travels is a number of pieces, the header first.  A connection is  *)
(* how many pieces were sent, how many were read and how it ended; the     *)
(* antivirus scan is an outcome; the clock is the moment the timer fires.  *)
(* A signal to a GUI thread takes effect when it is emitted: no thread     *)
(* reads the bubbles, so that a signal queued longer shows the user        *)
(* nothing an emission at a later time does not show.                      *)
(***************************************************************************)
EXTENDS Naturals, Sequences, FiniteSets

CONSTANTS
  Receivers,   \* the peers a file can be offered to
  Recipients,  \* the sets of peers one offer can go to
  Flaky,       \* those of them the network can fail
  Pieces       \* the header and the chunks of the file

ASSUME FileAssumption ==
  /\ Pieces \in Nat \ {0}
  /\ Recipients \subseteq SUBSET Receivers \ {{}} /\ Flaky \subseteq Recipients

VARIABLES
  group,     \* offered to a group
  to,        \* the recipients the offer goes to
  state,     \* the sender's _offer_states[tid]
  worker,    \* the offer worker: none, start, offer, done
  todo,      \* recipients the offer has still to be sent to
  reached,   \* recipients the offer was sent to
  entry,     \* tid is in _pending_sends
  listed,    \* tid is in _cancel_events
  cancel,    \* that event is set
  timer,     \* the expiry timer: off, armed, fired
  serve,     \* serve[r]: the thread that serves r
  sent,      \* sent[r]: pieces handed to r's connection
  conn,      \* conn[r]: none, open, or how it ended
  rstate,    \* rstate[r]: r's _offer_states[tid]
  got,       \* got[r]: pieces r has read
  recv,      \* recv[r]: r's receiving thread
  rcancel,   \* rcancel[r]: its cancel event: none, clear, set
  file       \* file[r]: what is in r's download folder

offer   == <<group, to, worker, todo, reached>>
pending == <<entry, listed, cancel, timer>>
sender  == <<offer, state, pending>>
serving == <<serve, sent, conn>>
rthread == <<got, recv, rcancel, file>>
fvars   == <<sender, serving, rstate, rthread>>

Failures == {"blocked", "failed", "cancelled", "rejected"}
Ends     == {"sender", "receiver", "broken", "closed"}

FileTypeOK ==
  /\ group \in BOOLEAN /\ to \subseteq Receivers
  /\ state \in {"none", "scanning", "pending", "done"} \cup Failures
  /\ worker \in {"none", "start", "offer", "done"}
  /\ reached \subseteq to /\ todo \subseteq to
  /\ entry \in BOOLEAN /\ listed \in BOOLEAN /\ cancel \in BOOLEAN
  /\ entry => listed
  /\ timer \in {"off", "armed", "fired"}
  /\ serve \in [Receivers -> {"none", "lookup", "header", "send", "tell", "done"}]
  /\ sent \in [Receivers -> 0..Pieces]
  /\ conn \in [Receivers -> {"none", "open"} \cup Ends]
  /\ rstate \in [Receivers -> {"none", "pending", "accepted", "done"} \cup Failures]
  /\ \A r \in Receivers : got[r] \in 0..sent[r]
  /\ recv \in [Receivers -> {"none", "accept", "connect", "test", "read", "scan", "clean",
                             "done", "stuck"}]
  /\ rcancel \in [Receivers -> {"none", "clear", "set"}]
  /\ file \in [Receivers -> {"none", "partial", "whole"}]

FInit ==
  /\ group \in BOOLEAN
  /\ to \in Recipients /\ (group = (Cardinality(to) > 1))
  /\ state = "none" /\ worker = "none" /\ todo = {} /\ reached = {}
  /\ entry = FALSE /\ listed = FALSE /\ cancel = FALSE /\ timer = "off"
  /\ serve = [r \in Receivers |-> "none"] /\ sent = [r \in Receivers |-> 0]
  /\ conn = [r \in Receivers |-> "none"]
  /\ rstate = [r \in Receivers |-> "none"]
  /\ got = [r \in Receivers |-> 0] /\ recv = [r \in Receivers |-> "none"]
  /\ rcancel = [r \in Receivers |-> "none"] /\ file = [r \in Receivers |-> "none"]

-----------------------------------------------------------------------------
(* The sender's window.                                                    *)

\* _attach_file_path: scan first, unless the user has switched that off.
Attach ==
  /\ state = "none"
  /\ \/ state' = "scanning" /\ UNCHANGED worker
     \/ state' = "pending" /\ worker' = "start"
  /\ UNCHANGED <<group, to, todo, reached, pending, serving, rstate, rthread>>

\* _on_scan_done finds nothing to do when the transfer was cancelled meanwhile.
ScanAwaited == state = "scanning"

ScanDone ==
  /\ ScanAwaited
  /\ \/ state' = "pending" /\ worker' = "start"
     \/ state' = "blocked" /\ UNCHANGED worker
  /\ UNCHANGED <<group, to, todo, reached, pending, serving, rstate, rthread>>

Disarmed == IF timer = "armed" THEN "off" ELSE timer

\* cancel_offer: the entry goes and its timer stops.
Withdraw ==
  /\ entry' = FALSE
  /\ timer' = IF entry THEN Disarmed ELSE timer

\* _cancel_file with cancel_transfer, while the bubble has no result.  Until
\* the worker has registered the offer there is no event to set.
CancelOut ==
  /\ state \in {"scanning", "pending"}
  /\ state' = "cancelled"
  /\ cancel' = (cancel \/ listed)
  /\ Withdraw
  /\ UNCHANGED <<offer, listed, serving, rstate, rthread>>

\* _on_xfer_finished, whatever the bubble showed before.
Report(res) == state' = res

-----------------------------------------------------------------------------
(* The offer worker (offer_file) and the expiry timer.                     *)

\* Without the file there is nothing to register.
RegisterOffer ==
  /\ worker = "start"
  /\ \/ /\ entry' = TRUE /\ listed' = TRUE /\ timer' = "armed"
        /\ worker' = "offer" /\ todo' = to
        /\ UNCHANGED state
     \/ worker' = "done" /\ Report("failed") /\ UNCHANGED <<entry, listed, timer, todo>>
  /\ UNCHANGED <<group, to, reached, cancel, serving, rstate, rthread>>

\* Each recipient is tried once; the bubble appears on its side.
OfferTo(r) ==
  /\ worker = "offer" /\ r \in todo
  /\ todo' = todo \ {r}
  /\ \/ to \in Flaky /\ UNCHANGED <<reached, rstate>>
     \/ reached' = reached \cup {r} /\ rstate' = [rstate EXCEPT ![r] = "pending"]
  /\ UNCHANGED <<group, to, worker, state, pending, serving, rthread>>

OfferEnds ==
  /\ worker = "offer" /\ todo = {}
  /\ worker' = "done"
  /\ \/ reached # {} /\ UNCHANGED <<state, pending>>
     \/ /\ reached = {}
        /\ timer' = Disarmed /\ entry' = FALSE /\ listed' = FALSE
        /\ Report("failed")
        /\ UNCHANGED cancel
  /\ UNCHANGED <<group, to, todo, reached, serving, rstate, rthread>>

\* The expiry window is over: from here the timer cannot be cancelled.
Fire ==
  /\ timer = "armed"
  /\ timer' = "fired"
  /\ UNCHANGED <<offer, state, entry, listed, cancel, serving, rstate, rthread>>

\* _on_expire reports whether or not there was something to remove.
Expire ==
  /\ timer = "fired"
  /\ timer' = "off" /\ entry' = FALSE /\ listed' = FALSE
  /\ Report("failed")
  /\ UNCHANGED <<offer, cancel, serving, rstate, rthread>>

-----------------------------------------------------------------------------
(* A serving thread (_serve_one).                                          *)

Serve(r, from, next) == serve[r] = from /\ serve' = [serve EXCEPT ![r] = next]

CloseBy(r, end) ==
  conn' = [conn EXCEPT ![r] = CASE @ = "open" -> end [] @ = "none" -> @ [] OTHER -> "closed"]

\* What an end sees of a connection it has not closed itself.
Lost(r) == conn[r] \in {"broken", "closed"}

\* No entry, or the file is gone meanwhile: the thread closes and says nothing.
LookUp(r) ==
  /\ \/ entry /\ Serve(r, "lookup", "header") /\ UNCHANGED conn
     \/ Serve(r, "lookup", "done") /\ CloseBy(r, "sender")
  /\ UNCHANGED <<sender, sent, rstate, rthread>>

\* A private offer does not expire while it is served.
StopTimer == timer' = IF group THEN timer ELSE Disarmed

SendHeader(r) ==
  /\ Serve(r, "header", "send")
  /\ StopTimer
  /\ sent' = [sent EXCEPT ![r] = 1]
  /\ UNCHANGED <<offer, state, entry, listed, cancel, conn, rstate, rthread>>

\* The other end may be gone: what is written then stays in a buffer.
SendChunk(r) ==
  /\ ~cancel
  /\ IF sent[r] < Pieces
     THEN serve[r] = "send" /\ sent' = [sent EXCEPT ![r] = @ + 1] /\ UNCHANGED serve
     ELSE Serve(r, "send", "tell") /\ UNCHANGED sent
  /\ UNCHANGED <<sender, conn, rstate, rthread>>

\* Mutant: the entry is kept when the transfer is over.
RetireEvent == UNCHANGED entry /\ listed' = (group /\ listed)

\* The offer to a group stays for the other members.
Retire == IF group THEN UNCHANGED <<entry, listed>> ELSE entry' = FALSE /\ listed' = FALSE

AllSent(r) ==
  /\ Serve(r, "tell", "done")
  /\ Retire /\ Report("done") /\ CloseBy(r, "sender")
  /\ UNCHANGED <<offer, cancel, timer, sent, rstate, rthread>>

\* InterruptedError: the user has cancelled.
SendCancelled(r) ==
  /\ cancel
  /\ Serve(r, "send", "done")
  /\ Retire /\ Report("failed") /\ CloseBy(r, "sender")
  /\ UNCHANGED <<offer, cancel, timer, sent, rstate, rthread>>

\* The connection is gone, or the file cannot be opened after its header: reported
\* if the offer still stood.
SendFails(r) ==
  /\ conn[r] = "receiver" \/ Lost(r) \/ sent[r] = 1
  /\ Serve(r, "send", "done")
  /\ Retire /\ CloseBy(r, "sender")
  /\ IF entry THEN Report("failed") /\ StopTimer ELSE UNCHANGED <<state, timer>>
  /\ UNCHANGED <<offer, cancel, sent, rstate, rthread>>

-----------------------------------------------------------------------------
(* The receiver's window.                                                  *)

Show(r, from, next) == rstate[r] \in from /\ rstate' = [rstate EXCEPT ![r] = next]

AcceptFile(r) ==
  /\ Show(r, {"pending"}, "accepted")
  /\ recv' = [recv EXCEPT ![r] = "accept"]
  /\ UNCHANGED <<sender, serving, got, rcancel, file>>

\* _reject_file; send_reject is tried once and ends in on_file_rejected.
RejectFile(r) ==
  /\ Show(r, {"pending"}, "rejected")
  /\ \/ to \in Flaky /\ UNCHANGED <<state, entry, timer>>
     \/ Report("rejected") /\ Withdraw
  /\ UNCHANGED <<offer, listed, cancel, serving, rthread>>

\* _cancel_file: an expired offer's bubble has the button as well.
CancelIn(r) ==
  /\ Show(r, {"pending", "accepted"}, "cancelled")
  /\ rcancel' = [rcancel EXCEPT ![r] = IF @ = "clear" THEN "set" ELSE @]
  /\ UNCHANGED <<sender, serving, got, recv, file>>

-----------------------------------------------------------------------------
(* The receiving thread (receive_file, _receive_one).                      *)

Recv(r, from, next) == recv[r] = from /\ recv' = [recv EXCEPT ![r] = next]

Post(r, res) == rstate' = [rstate EXCEPT ![r] = res]

\* ferr; the cleaning up follows.
Fail(r, from) == Recv(r, from, "clean") /\ Post(r, "failed") /\ CloseBy(r, "receiver")

\* file_accept is sent once and changes a label only; then the event exists.
ReceiveFile(r) ==
  /\ Recv(r, "accept", "connect")
  /\ rcancel' = [rcancel EXCEPT ![r] = "clear"]
  /\ UNCHANGED <<sender, serving, rstate, got, file>>

Connect(r) ==
  /\ \/ /\ rcancel[r] # "set"
        /\ Recv(r, "connect", "read")
        /\ conn' = [conn EXCEPT ![r] = "open"]
        /\ serve' = [serve EXCEPT ![r] = "lookup"]
        /\ UNCHANGED rstate
     \/ (rcancel[r] = "set" \/ to \in Flaky) /\ Fail(r, "connect") /\ UNCHANGED serve
  /\ UNCHANGED <<sender, sent, got, rcancel, file>>

\* Between two pieces the thread looks at its event; while it waits it does not.
Test(r) ==
  /\ IF rcancel[r] = "set"
     THEN Fail(r, "test")
     ELSE Recv(r, "test", "read") /\ UNCHANGED <<rstate, conn>>
  /\ UNCHANGED <<sender, serve, sent, got, rcancel, file>>

\* The header names the file; `received < total` ends the loop.
Read(r) ==
  /\ got[r] < sent[r] /\ ~Lost(r)
  /\ got' = [got EXCEPT ![r] = @ + 1]
  /\ IF got'[r] = Pieces
     THEN /\ Recv(r, "read", "scan") /\ CloseBy(r, "receiver")
          /\ file' = [file EXCEPT ![r] = "whole"]
     ELSE /\ Recv(r, "read", "test") /\ UNCHANGED conn
          /\ file' = [file EXCEPT ![r] = "partial"]
  /\ UNCHANGED <<sender, serve, sent, rstate, rcancel>>

\* The sender has closed, the connection broke, or nothing came in six seconds.
NothingComes(r) == got[r] = sent[r] \/ Lost(r)

\* Mutant: a read that failed is tried again on the same socket.
ReadFailsRetried(r) ==
  /\ NothingComes(r)
  /\ Recv(r, "read", "test")
  /\ UNCHANGED <<sender, serving, rstate, got, rcancel, file>>

ReadFails(r) ==
  /\ NothingComes(r)
  /\ Fail(r, "read")
  /\ UNCHANGED <<sender, serve, sent, got, rcancel, file>>

Finish(r) ==
  /\ rcancel' = [rcancel EXCEPT ![r] = "none"]
  /\ got' = [got EXCEPT ![r] = 0]

\* fdone: what is flagged is removed, if that works, or kept if the user only
\* wants a warning, and then the bubble has its path.
Scan(r) ==
  /\ Recv(r, "scan", "done") /\ Finish(r)
  /\ \/ Post(r, "done") /\ UNCHANGED file
     \/ Post(r, "failed") /\ file' \in {file, [file EXCEPT ![r] = "none"]}
  /\ UNCHANGED <<sender, serving>>

\* Mutant: only an interrupted transfer is cleaned up.
CleanCancelledOnly(r) ==
  /\ Recv(r, "clean", "done") /\ Finish(r)
  /\ file' = IF rcancel[r] = "set" THEN [file EXCEPT ![r] = "none"] ELSE file
  /\ UNCHANGED <<sender, serving, rstate>>

\* Whatever ended the transfer, its file is removed.  os.remove fails if another
\* program has the file open; that is swallowed, and what was written stays.
Clean(r) ==
  /\ \/ Recv(r, "clean", "done") /\ file' = [file EXCEPT ![r] = "none"]
     \/ Recv(r, "clean", "stuck") /\ file[r] = "partial" /\ UNCHANGED file
  /\ Finish(r)
  /\ UNCHANGED <<sender, serving, rstate>>

\* The network fails.
Break(r) ==
  /\ to \in Flaky /\ conn[r] = "open"
  /\ conn' = [conn EXCEPT ![r] = "broken"]
  /\ UNCHANGED <<sender, serve, sent, rstate, rthread>>

-----------------------------------------------------------------------------
Offering == RegisterOffer \/ OfferEnds \/ \E r \in Receivers : OfferTo(r)

Timer == Fire \/ Expire

Serving(r) ==
  LookUp(r) \/ SendHeader(r) \/ SendChunk(r) \/ AllSent(r) \/ SendCancelled(r) \/ SendFails(r)

Receiving(r) ==
  ReceiveFile(r) \/ Connect(r) \/ Test(r) \/ Read(r) \/ ReadFails(r) \/ Scan(r) \/ Clean(r)

User(r) == AcceptFile(r) \/ RejectFile(r) \/ CancelIn(r)

FNext ==
  \/ Attach \/ ScanDone \/ CancelOut
  \/ Offering \/ Timer
  \/ \E r \in Receivers : Serving(r) \/ Receiving(r) \/ User(r) \/ Break(r)

FSpec == FInit /\ [][FNext]_fvars

\* Threads and GUI loops run on and the timer fires; users and the network
\* need not do anything.
FairFSpec ==
  /\ FSpec
  /\ WF_fvars(Offering) /\ WF_fvars(Timer)
  /\ \A r \in Receivers :
       WF_fvars(Serving(r)) /\ WF_fvars(Receiving(r))

-----------------------------------------------------------------------------
(* Properties.                                                             *)

\* A bubble that says "Saved" stands for a complete file, and "Cancelling a
\* transfer removes the partial file" (README): a connection the sender closes
\* early is not the end of the file, and whatever ended the thread it leaves a
\* whole file or none.  A part stays only if removing it failed, and then the
\* bubble says that the transfer failed.
WholeOrGone ==
  \A r \in Receivers :
    /\ rstate[r] = "done" => file[r] = "whole"
    /\ recv[r] \in {"none", "done"} => file[r] # "partial"
    /\ recv[r] = "stuck" => rstate[r] = "failed"

\* An accepted file does not stay at "Connecting...", and the sender's bubble
\* does not wait for ever: the transfer ends and nothing stays in _pending_sends,
\* with every combination of cancels, expiry and lost connections at both ends,
\* though serving an offer disarms its timer.
TransferEnds ==
  /\ \A r \in Receivers : rstate[r] = "accepted" ~> rstate[r] # "accepted"
  /\ (state = "pending" \/ entry) ~> (state # "pending" /\ ~entry)
=============================================================================
