------------------------- MODULE FileTransferProofs -------------------------
(* Theorems about FileTransfer: for any receivers, any sets of recipients, any *)
(* of them flaky, and files of any number of pieces.                           *)
EXTENDS FileTransfer, TLAPS

-----------------------------------------------------------------------------
(* The inductive invariant.                                                *)

\* FileTypeOK, the sender's part and the receivers' part.
SenderTypeOK ==
  /\ group \in BOOLEAN /\ to \subseteq Receivers
  /\ state \in {"none", "scanning", "pending", "done"} \cup Failures
  /\ worker \in {"none", "start", "offer", "done"}
  /\ reached \subseteq to /\ todo \subseteq to
  /\ timer \in {"off", "armed", "fired"}

EntryTypeOK ==
  /\ entry \in BOOLEAN /\ listed \in BOOLEAN /\ cancel \in BOOLEAN
  /\ entry => listed

EndsTypeOK ==
  /\ serve \in [Receivers -> {"none", "lookup", "header", "send", "tell", "done"}]
  /\ sent \in [Receivers -> 0..Pieces]
  /\ conn \in [Receivers -> {"none", "open"} \cup Ends]
  /\ rstate \in [Receivers -> {"none", "pending", "accepted", "done"} \cup Failures]
  /\ got \in [Receivers -> Nat]
  /\ recv \in [Receivers -> {"none", "accept", "connect", "test", "read", "scan", "clean",
                             "done", "stuck"}]
  /\ rcancel \in [Receivers -> {"none", "clear", "set"}]
  /\ file \in [Receivers -> {"none", "partial", "whole"}]

\* One offer, and until it is made no receiver knows of the file.
OneOffer ==
  /\ worker # "none" => state \notin {"none", "scanning"}
  /\ worker \in {"none", "start"} => \A r \in Receivers : rstate[r] = "none"
  /\ \A r \in todo : rstate[r] = "none"

\* r's thread, its bubble, the connection and the file go forward together: one
\* thread reads and one serves, once, and nothing is sent before the header.
InStep(r) ==
  /\ got[r] <= sent[r]
  /\ rstate[r] \in {"none", "pending"} => recv[r] = "none"
  /\ recv[r] \in {"none", "accept", "connect"} => serve[r] = "none" /\ file[r] = "none"
  /\ serve[r] \in {"none", "lookup", "header"} => sent[r] = 0
  /\ recv[r] = "scan" => file[r] = "whole"
  /\ recv[r] = "done" => file[r] # "partial"
  /\ recv[r] \in {"clean", "stuck"} => rstate[r] = "failed"
  /\ rstate[r] = "done" => recv[r] = "done" /\ file[r] = "whole"

TransferInv ==
  /\ SenderTypeOK
  /\ EntryTypeOK
  /\ EndsTypeOK
  /\ OneOffer
  /\ \A r \in Receivers : InStep(r)

LEMMA TransferInvImplies == TransferInv => FileTypeOK /\ WholeOrGone
<1>. SUFFICES ASSUME TransferInv PROVE FileTypeOK /\ WholeOrGone
  OBVIOUS
<1>1. \A r \in Receivers : got[r] \in 0..sent[r]
  BY DEF TransferInv, EndsTypeOK, InStep
<1>2. FileTypeOK
  BY <1>1, Zenon DEF TransferInv, SenderTypeOK, EntryTypeOK, EndsTypeOK, FileTypeOK
<1>3. WholeOrGone
  BY DEF TransferInv, InStep, WholeOrGone
<1>. QED  BY <1>2, <1>3

-----------------------------------------------------------------------------
(* One lemma per thread.                                                   *)

\* What the sender's window, worker and timer do reaches no receiver.
LEMMA SenderStep ==
  ASSUME TransferInv, Attach \/ ScanDone \/ CancelOut \/ RegisterOffer \/ OfferEnds \/ Timer
  PROVE  TransferInv'
<1>. USE DEF TransferInv
<1>1. UNCHANGED <<serve, sent, conn, rstate, got, recv, rcancel, file>>
  BY DEF Attach, ScanDone, CancelOut, RegisterOffer, OfferEnds, Timer, Fire, Expire, serving, rthread
<1>2. EndsTypeOK' /\ \A r \in Receivers : InStep(r)'
  BY <1>1 DEF EndsTypeOK, InStep
<1>3. SenderTypeOK'
  BY DEF SenderTypeOK, Failures, Attach, ScanDone, ScanAwaited, CancelOut, Withdraw, Disarmed,
         RegisterOffer, OfferEnds, Report, Timer, Fire, Expire, offer, pending
<1>4. EntryTypeOK'
  <2>1. CASE Attach \/ ScanDone \/ Fire
    <3>1. UNCHANGED <<entry, listed, cancel>>
      BY <2>1 DEF Attach, ScanDone, Fire, pending
    <3>. QED  BY <3>1 DEF EntryTypeOK
  <2>2. CASE CancelOut
    BY <2>2, Zenon DEF CancelOut, Withdraw, EntryTypeOK
  <2>3. CASE RegisterOffer
    <3>1. cancel' = cancel
      BY <2>3 DEF RegisterOffer
    <3>2. (entry' = TRUE /\ listed' = TRUE) \/ UNCHANGED <<entry, listed>>
      BY <2>3 DEF RegisterOffer
    <3>3. CASE entry' = TRUE /\ listed' = TRUE
      BY <3>1, <3>3, Zenon DEF EntryTypeOK
    <3>4. CASE UNCHANGED <<entry, listed>>
      BY <3>1, <3>4 DEF EntryTypeOK
    <3>. QED  BY <3>2, <3>3, <3>4
  <2>4. CASE OfferEnds
    <3>1. cancel' = cancel
      BY <2>4 DEF OfferEnds, pending
    <3>2. (entry' = FALSE /\ listed' = FALSE) \/ UNCHANGED <<entry, listed>>
      BY <2>4 DEF OfferEnds, pending
    <3>3. CASE entry' = FALSE /\ listed' = FALSE
      BY <3>1, <3>3, Zenon DEF EntryTypeOK
    <3>4. CASE UNCHANGED <<entry, listed>>
      BY <3>1, <3>4 DEF EntryTypeOK
    <3>. QED  BY <3>2, <3>3, <3>4
  <2>5. CASE Expire
    BY <2>5, Zenon DEF Expire, EntryTypeOK
  <2>. QED  BY <2>1, <2>2, <2>3, <2>4, <2>5 DEF Timer
<1>5. OneOffer'
  BY <1>1 DEF OneOffer, SenderTypeOK, Attach, ScanDone, ScanAwaited, CancelOut, RegisterOffer,
         OfferEnds, Report, Timer, Fire, Expire, offer
<1>. QED  BY <1>2, <1>3, <1>4, <1>5

\* A recipient is offered the file once: the bubble of an earlier offer would
\* have been shown before this one.
LEMMA OfferToStep ==
  ASSUME TransferInv, NEW r \in Receivers, OfferTo(r)
  PROVE  TransferInv'
<1>. USE DEF TransferInv
<1>1. /\ UNCHANGED <<group, to, worker, state, entry, listed, cancel, timer>>
      /\ UNCHANGED <<serve, sent, conn, got, recv, rcancel, file>>
      /\ worker = "offer" /\ r \in todo /\ todo' = todo \ {r}
      /\ reached' = reached \/ reached' = reached \cup {r}
      /\ rstate' = rstate \/ rstate' = [rstate EXCEPT ![r] = "pending"]
  BY DEF OfferTo, pending, serving, rthread
<1>2. SenderTypeOK' /\ EntryTypeOK'
  BY <1>1 DEF SenderTypeOK, EntryTypeOK
<1>3. EndsTypeOK'
  BY <1>1 DEF EndsTypeOK
<1>4. \A q \in Receivers : rstate'[q] = rstate[q] \/ (q = r /\ rstate'[q] = "pending")
  BY <1>1 DEF EndsTypeOK
<1>5. OneOffer'
  BY <1>1, <1>4 DEF OneOffer, SenderTypeOK
<1>6. \A q \in Receivers : InStep(q)'
  <2>1. rstate[r] = "none"
    BY <1>1 DEF OneOffer
  <2>. QED  BY <1>1, <1>4, <2>1 DEF InStep
<1>. QED  BY <1>2, <1>3, <1>5, <1>6

\* Steps of one connection leave the others' alone.
LEMMA Elsewhere ==
  ASSUME NEW r \in Receivers, NEW q \in Receivers, q # r, InStep(q),
         serve'[q] = serve[q], sent'[q] = sent[q], rstate'[q] = rstate[q], got'[q] = got[q],
         recv'[q] = recv[q], file'[q] = file[q]
  PROVE  InStep(q)'
BY DEF InStep

LEMMA ServingStep ==
  ASSUME TransferInv, NEW r \in Receivers, Serving(r)
  PROVE  TransferInv'
<1>. USE FileAssumption DEF TransferInv
<1>1. /\ UNCHANGED <<group, to, worker, todo, reached, cancel>>
      /\ UNCHANGED <<rstate, got, recv, rcancel, file>>
  BY DEF Serving, LookUp, SendHeader, SendChunk, AllSent, SendCancelled, SendFails, sender, offer,
         pending, rthread
<1>2. state' \in {state, "done", "failed"} /\ timer' \in {timer, Disarmed}
  BY DEF Serving, LookUp, SendHeader, SendChunk, AllSent, SendCancelled, SendFails, sender, pending,
         StopTimer, Report
<1>3. SenderTypeOK'
  BY <1>1, <1>2 DEF SenderTypeOK, Failures, Disarmed
<1>4. EntryTypeOK'
  <2>1. CASE UNCHANGED <<entry, listed>>
    BY <1>1, <2>1 DEF EntryTypeOK
  <2>2. CASE Retire
    BY <1>1, <2>2, Zenon DEF Retire, EntryTypeOK
  <2>. QED  BY <2>1, <2>2 DEF Serving, LookUp, SendHeader, SendChunk, AllSent, SendCancelled,
                             SendFails, sender, pending
<1>5. OneOffer'
  BY <1>1, <1>2 DEF OneOffer
<1>6. conn' = conn \/ CloseBy(r, "sender")
  BY DEF Serving, LookUp, SendHeader, SendChunk, AllSent, SendCancelled, SendFails
<1>7. conn' \in [Receivers -> {"none", "open"} \cup Ends]
  BY <1>6 DEF CloseBy, EndsTypeOK, Ends
<1>8. /\ serve[r] \notin {"none", "done"}
      /\ \/ /\ UNCHANGED sent
            /\ serve' = [serve EXCEPT ![r] = "header"] /\ serve[r] = "lookup"
         \/ /\ UNCHANGED sent
            /\ serve' = [serve EXCEPT ![r] = "tell"] /\ serve[r] = "send"
         \/ /\ UNCHANGED sent
            /\ serve' = [serve EXCEPT ![r] = "done"]
         \/ /\ sent' = [sent EXCEPT ![r] = 1] /\ serve[r] = "header"
            /\ serve' = [serve EXCEPT ![r] = "send"]
         \/ /\ sent' = [sent EXCEPT ![r] = @ + 1] /\ sent[r] < Pieces /\ serve[r] = "send"
            /\ UNCHANGED serve
  BY DEF Serving, LookUp, SendHeader, SendChunk, AllSent, SendCancelled, SendFails, Serve
<1>9. EndsTypeOK'
  BY <1>1, <1>7, <1>8 DEF EndsTypeOK
<1>10. InStep(r)'
  BY <1>1, <1>8 DEF InStep, EndsTypeOK
<1>11. \A q \in Receivers : q # r => InStep(q)'
  BY <1>1, <1>8 DEF InStep, EndsTypeOK
<1>. QED  BY <1>3, <1>4, <1>5, <1>9, <1>10, <1>11

\* The receiver's window and thread, and the network.
LEMMA ReceiverFrame ==
  ASSUME TransferInv, NEW r \in Receivers,
         UNCHANGED <<offer, listed, cancel, sent>>,
         state' \in {state, "rejected"}, timer' \in {timer, Disarmed},
         entry' = entry \/ entry' = FALSE,
         serve' \in {serve, [serve EXCEPT ![r] = "lookup"]},
         conn' \in {conn, [conn EXCEPT ![r] = "open"], [conn EXCEPT ![r] = "broken"]}
                    \/ CloseBy(r, "receiver"),
         \E x \in {"accepted", "done"} \cup Failures :
            rstate' = rstate \/ (rstate[r] # "none" /\ rstate' = [rstate EXCEPT ![r] = x]),
         \E x \in 0..Pieces : got' = got \/ got' = [got EXCEPT ![r] = x],
         \E x \in {"accept", "connect", "test", "read", "scan", "clean", "done", "stuck"} :
            recv' = recv \/ recv' = [recv EXCEPT ![r] = x],
         \E x \in {"none", "clear", "set"} :
            rcancel' = rcancel \/ rcancel' = [rcancel EXCEPT ![r] = x],
         \E x \in {"none", "partial", "whole"} :
            file' = file \/ file' = [file EXCEPT ![r] = x],
         InStep(r)'
  PROVE  TransferInv'
<1>. USE FileAssumption DEF TransferInv
<1>1. SenderTypeOK'
  BY DEF SenderTypeOK, Disarmed, Failures, offer
<1>2. EntryTypeOK'
  <2>1. CASE entry' = entry
    BY <2>1 DEF EntryTypeOK
  <2>2. CASE entry' = FALSE
    BY <2>2, Zenon DEF EntryTypeOK
  <2>. QED  BY <2>1, <2>2
<1>3. conn' \in [Receivers -> {"none", "open"} \cup Ends]
  BY DEF CloseBy, EndsTypeOK, Ends
<1>4. EndsTypeOK'
  <2>1. rstate' \in [Receivers -> {"none", "pending", "accepted", "done"} \cup Failures]
    BY DEF EndsTypeOK
  <2>2. got' \in [Receivers -> Nat]
    BY DEF EndsTypeOK
  <2>. QED  BY <1>3, <2>1, <2>2 DEF EndsTypeOK
<1>5. OneOffer'
  BY DEF OneOffer, EndsTypeOK, SenderTypeOK, offer
<1>6. ASSUME NEW q \in Receivers, q # r PROVE InStep(q)'
  BY <1>6, Elsewhere DEF EndsTypeOK
<1>. QED  BY <1>1, <1>2, <1>4, <1>5, <1>6

LEMMA ReceivingStep ==
  ASSUME TransferInv, NEW r \in Receivers, Receiving(r)
  PROVE  TransferInv'
<1>1. /\ UNCHANGED <<offer, state, entry, listed, cancel, timer, sent>>
      /\ serve' = serve \/ (recv[r] = "connect" /\ serve' = [serve EXCEPT ![r] = "lookup"])
  BY DEF Receiving, ReceiveFile, Connect, Test, Read, ReadFails, Scan, Clean, Recv, sender, pending,
         serving
<1>2. conn' = conn \/ conn' = [conn EXCEPT ![r] = "open"] \/ CloseBy(r, "receiver")
  BY DEF Receiving, ReceiveFile, Connect, Test, Read, ReadFails, Scan, Clean, Fail, serving
<1>3. recv[r] \notin {"none", "done", "stuck"}
  BY DEF Receiving, ReceiveFile, Connect, Test, Read, ReadFails, Scan, Clean, Fail, Recv
<1>4. rstate[r] \notin {"none", "pending"}
  BY <1>3 DEF TransferInv, InStep
<1>5. \E x \in {"accepted", "done"} \cup Failures :
         rstate' = rstate \/ rstate' = [rstate EXCEPT ![r] = x]
  BY DEF Receiving, ReceiveFile, Connect, Test, Read, ReadFails, Scan, Clean, Fail, Post, Failures
<1>6. got' = got \/ got' = [got EXCEPT ![r] = 0]
        \/ (got[r] < sent[r] /\ got' = [got EXCEPT ![r] = @ + 1])
  BY DEF Receiving, ReceiveFile, Connect, Test, Read, ReadFails, Scan, Clean, Finish, rthread
<1>7. \E x \in 0..Pieces : got' = got \/ got' = [got EXCEPT ![r] = x]
  BY <1>6, FileAssumption DEF TransferInv, EndsTypeOK
<1>8. \E x \in {"accept", "connect", "test", "read", "scan", "clean", "done", "stuck"} :
         recv' = recv \/ recv' = [recv EXCEPT ![r] = x]
  BY DEF Receiving, ReceiveFile, Connect, Test, Read, ReadFails, Scan, Clean, Fail, Recv
<1>9. \E x \in {"none", "clear", "set"} : rcancel' = rcancel \/ rcancel' = [rcancel EXCEPT ![r] = x]
  BY DEF Receiving, ReceiveFile, Connect, Test, Read, ReadFails, Scan, Clean, Finish
<1>10. \E x \in {"none", "partial", "whole"} : file' = file \/ file' = [file EXCEPT ![r] = x]
  BY DEF Receiving, ReceiveFile, Connect, Test, Read, ReadFails, Scan, Clean
<1>11. InStep(r)'
  <2>. USE <1>1, <1>3, <1>4, <1>6, FileAssumption DEF TransferInv, EndsTypeOK, InStep
  <2>1. CASE ReceiveFile(r)
    BY <2>1 DEF ReceiveFile, Recv, serving
  <2>2. CASE Connect(r)
    BY <2>2 DEF Connect, Recv, Fail, Post
  <2>3. CASE Test(r)
    BY <2>3 DEF Test, Recv, Fail, Post
  <2>4. CASE Read(r)
    BY <2>4 DEF Read, Recv
  <2>5. CASE ReadFails(r)
    BY <2>5 DEF ReadFails, Recv, Fail, Post
  <2>6. CASE Scan(r)
    BY <2>6 DEF Scan, Recv, Finish, Post, serving
  <2>7. CASE Clean(r)
    BY <2>7 DEF Clean, Recv, Finish, serving
  <2>. QED  BY <2>1, <2>2, <2>3, <2>4, <2>5, <2>6, <2>7 DEF Receiving
<1>. QED  BY <1>1, <1>2, <1>4, <1>5, <1>7, <1>8, <1>9, <1>10, <1>11, ReceiverFrame

LEMMA UserStep ==
  ASSUME TransferInv, NEW r \in Receivers, User(r) \/ Break(r)
  PROVE  TransferInv'
<1>1. /\ UNCHANGED <<offer, listed, cancel, sent, serve, got, file>>
      /\ state' \in {state, "rejected"} /\ timer' \in {timer, Disarmed}
      /\ entry' = entry \/ entry' = FALSE
  BY DEF User, AcceptFile, RejectFile, CancelIn, Break, Report, Withdraw, sender, pending, serving,
         rthread
<1>2. conn' = conn \/ conn' = [conn EXCEPT ![r] = "broken"]
  BY DEF User, AcceptFile, RejectFile, CancelIn, Break, serving
<1>3. /\ \/ rstate' = rstate /\ recv' = recv
         \/ /\ rstate[r] = "pending" /\ rstate' = [rstate EXCEPT ![r] = "accepted"]
            /\ recv' = [recv EXCEPT ![r] = "accept"]
         \/ /\ rstate[r] = "pending" /\ rstate' = [rstate EXCEPT ![r] = "rejected"]
            /\ recv' = recv
         \/ /\ rstate[r] \in {"pending", "accepted"} /\ rstate' = [rstate EXCEPT ![r] = "cancelled"]
            /\ recv' = recv
  BY DEF User, AcceptFile, RejectFile, CancelIn, Break, Show, rthread
<1>4. rcancel' = rcancel \/ rcancel' = [rcancel EXCEPT ![r] = "set"]
                         \/ rcancel' = [rcancel EXCEPT ![r] = rcancel[r]]
  BY DEF User, AcceptFile, RejectFile, CancelIn, Break, rthread
<1>5. InStep(r)'
  BY <1>1, <1>3 DEF TransferInv, EndsTypeOK, InStep
<1>6. \E x \in {"accepted", "done"} \cup Failures :
         rstate' = rstate \/ (rstate[r] # "none" /\ rstate' = [rstate EXCEPT ![r] = x])
  BY <1>3 DEF Failures
<1>7. \E x \in {"none", "clear", "set"} : rcancel' = rcancel \/ rcancel' = [rcancel EXCEPT ![r] = x]
  BY <1>4 DEF TransferInv, EndsTypeOK
<1>8. \E x \in 0..Pieces : got' = got \/ got' = [got EXCEPT ![r] = x]
  BY <1>1, FileAssumption
<1>9. \E x \in {"accept", "connect", "test", "read", "scan", "clean", "done", "stuck"} :
         recv' = recv \/ recv' = [recv EXCEPT ![r] = x]
  BY <1>3
<1>10. \E x \in {"none", "partial", "whole"} : file' = file \/ file' = [file EXCEPT ![r] = x]
  BY <1>1
<1>. QED  BY <1>1, <1>2, <1>5, <1>6, <1>7, <1>8, <1>9, <1>10, ReceiverFrame

-----------------------------------------------------------------------------
(* The theorems.                                                           *)

LEMMA TransferInvInit == FInit => TransferInv
<1>. SUFFICES ASSUME FInit PROVE TransferInv
  OBVIOUS
<1>. USE FileAssumption DEF FInit
<1>1. group \in BOOLEAN
  BY Zenon
<1>2. SenderTypeOK
  BY <1>1 DEF SenderTypeOK
<1>3. EntryTypeOK
  BY Zenon DEF EntryTypeOK
<1>4. EndsTypeOK
  BY DEF EndsTypeOK
<1>5. OneOffer /\ \A r \in Receivers : InStep(r)
  BY DEF OneOffer, InStep
<1>. QED  BY <1>2, <1>3, <1>4, <1>5 DEF TransferInv

LEMMA TransferInvStep == TransferInv /\ [FNext]_fvars => TransferInv'
<1>. SUFFICES ASSUME TransferInv, [FNext]_fvars PROVE TransferInv'
  OBVIOUS
<1>1. CASE Attach \/ ScanDone \/ CancelOut \/ RegisterOffer \/ OfferEnds \/ Timer
  BY <1>1, SenderStep
<1>2. ASSUME NEW r \in Receivers, OfferTo(r) PROVE TransferInv'
  BY <1>2, OfferToStep
<1>3. ASSUME NEW r \in Receivers, Serving(r) PROVE TransferInv'
  BY <1>3, ServingStep
<1>4. ASSUME NEW r \in Receivers, Receiving(r) PROVE TransferInv'
  BY <1>4, ReceivingStep
<1>5. ASSUME NEW r \in Receivers, User(r) \/ Break(r) PROVE TransferInv'
  BY <1>5, UserStep
<1>6. CASE UNCHANGED fvars
  BY <1>6 DEF fvars, sender, offer, pending, serving, rthread, TransferInv, SenderTypeOK,
              EntryTypeOK, EndsTypeOK, OneOffer, InStep
<1>. QED  BY <1>1, <1>2, <1>3, <1>4, <1>5, <1>6 DEF FNext, Offering

LEMMA TransferInvHolds == FSpec => []TransferInv
BY TransferInvInit, TransferInvStep, PTL DEF FSpec

\* Every variable of both ends keeps its type, a registered offer always has its
\* cancel event (offer_file makes both under one lock), and no end has read what
\* was not written to its connection.
THEOREM FileTypeCorrect == FSpec => []FileTypeOK
BY TransferInvHolds, TransferInvImplies, PTL

\* A bubble that says "Saved" stands for a complete file, and a thread that is
\* over has left no partial one (_receive_one), whatever the users, the other
\* end, the timer and the network did meanwhile; only where os.remove itself
\* failed a part is left, under a bubble that says "failed".
THEOREM FileIsWholeOrGone == FSpec => []WholeOrGone
BY TransferInvHolds, TransferInvImplies, PTL
=============================================================================
