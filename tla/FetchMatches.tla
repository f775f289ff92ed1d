---------------------------- MODULE FetchMatches ----------------------------
(***************************************************************************)
(* One FetchMatches call of the backend: the handler, which runs the match *)
(* function, and the goroutines synchronizeSend and synchronizeRecv on the *)
(* two directions of its Synchronize stream.  The synchronizer, the match  *)
(* function and the store are seen from here: a Synchronize call starts    *)
(* the match function, may cancel it, returns ids it was sent and ends.    *)
(***************************************************************************)
EXTENDS Naturals, FiniteSets

CONSTANTS
    Ids,            \* the match ids that the match function may use
    MaxProposals,   \* bound: proposals the match function makes
    Faults,         \* what may fail: "sync", "mmf", "store", "caller"
    None            \* no value

ASSUME FetchConstants ==
    /\ MaxProposals \in Nat /\ None \notin Ids
    /\ Faults \subseteq {"sync", "mmf", "store", "caller"}

VARIABLES
    kind,       \* the type of the request's FunctionConfig, or "none"
    backfilled, \* the ids whose matches have a backfill
    main,       \* the handler: open, select, dial, run, offer, join, ok, error
    mmfErr,     \* the match function's error: "none", "some", "never" (started)
    offer,      \* the proposal the handler offers on the channel, or None
    produced,   \* number of proposals made
    proposals,  \* the channel proposals: "open" or "closed"
    m,          \* the map of proposals, by id
    send,       \* synchronizeSend: select, step 1 or 2, done, failed
    holding,    \* the proposal it works on, or None
    sent,       \* ids handed to the Synchronize stream
    recv,       \* synchronizeRecv: loop, backfill, release, deliver, done, failed
    current,    \* the match it works on, or None
    startMmfs,  \* the channel startMmfs: "open", "closing" by a goroutine, "closed"
    mmfCtx,     \* "live", or "cancelled" by cancelMmfs
    sync,       \* what the synchronizer has sent: opened, started, ended
    accepted,   \* ids it returned
    delivered,  \* matches streamed to the caller
    dropped,    \* matches dropped because their backfill has changed
    caller      \* "here", or "gone" away

inputVars == <<kind, backfilled>>
mainVars == <<main, mmfErr, offer, produced, proposals>>
sendVars == <<m, send, holding, sent>>
recvVars == <<recv, current, accepted, delivered, dropped>>
signalVars == <<startMmfs, mmfCtx, sync>>
vars == <<inputVars, mainVars, sendVars, recvVars, signalVars, caller>>

Kinds == {"GRPC", "REST", "other", "none"}

Init ==
    /\ kind \in Kinds /\ backfilled \in SUBSET Ids
    /\ main = "open" /\ mmfErr = "none" /\ offer = None
    /\ produced = 0 /\ proposals = "open"
    /\ m = {} /\ send = "select" /\ holding = None /\ sent = {}
    /\ recv = "loop" /\ current = None
    /\ accepted = {} /\ delivered = {} /\ dropped = {}
    /\ startMmfs = "open" /\ mmfCtx = "live"
    /\ sync = "opened" /\ caller = "here"

Returned == main \in {"ok", "error"}

\* The context of the error group, and the match function's below it.
CtxDone == caller = "gone" \/ send = "failed" \/ recv = "failed"
MmfCtxDone == mmfCtx = "cancelled" \/ CtxDone
-----------------------------------------------------------------------------
(* The handler. *)

\* A request without a function, or a stream that cannot be opened, ends the
\* call at once.
Open ==
    /\ main = "open"
    /\ \/ kind # "none" /\ main' = "select"
       \/ (kind = "none" \/ "sync" \in Faults \/ caller = "gone") /\ main' = "error"
    /\ UNCHANGED <<inputVars, mmfErr, offer, produced, proposals, sendVars, recvVars,
                   signalVars, caller>>

\* The select: the match function is cancelled before it has been started ...
NeverStarted ==
    /\ main = "select" /\ MmfCtxDone
    /\ main' = "join" /\ mmfErr' = "never"
    /\ UNCHANGED <<inputVars, offer, produced, proposals, sendVars, recvVars,
                   signalVars, caller>>

\* ... or startMmfs is closed, and callMmf runs it.
Started ==
    /\ main = "select" /\ startMmfs = "closed"
    /\ main' = "dial"
    /\ UNCHANGED <<inputVars, mmfErr, offer, produced, proposals, sendVars, recvVars,
                   signalVars, caller>>

\* Mutant: callMmf returns without the deferred close.
LeftOpen == UNCHANGED proposals

\* callMmf's deferred close(proposals).
CloseProposals == proposals' = "closed"

MmfReturns(err) ==
    /\ main' = "join" /\ mmfErr' = err /\ CloseProposals
    /\ UNCHANGED <<inputVars, produced, sendVars, recvVars, signalVars, caller>>

\* callGrpcMmf or callHTTPMmf gets a client and sends its request.
Dial ==
    /\ main = "dial"
    /\ \/ /\ kind # "other" /\ main' = "run"
          /\ UNCHANGED <<inputVars, mmfErr, offer, produced, proposals, sendVars,
                         recvVars, signalVars, caller>>
       \/ /\ kind = "other" \/ "mmf" \in Faults \/ MmfCtxDone
          /\ MmfReturns("some") /\ UNCHANGED offer

\* A proposal arrives; the handler offers it on the channel.
MmfProposes(i) ==
    /\ main = "run" /\ produced < MaxProposals
    /\ main' = "offer" /\ offer' = i /\ produced' = produced + 1
    /\ UNCHANGED <<inputVars, mmfErr, proposals, sendVars, recvVars, signalVars, caller>>

\* EOF.
MmfEnds == main = "run" /\ MmfReturns("none") /\ UNCHANGED offer

\* Recv or Decode fails; it does once the context is done.
MmfFails ==
    /\ main = "run" /\ ("mmf" \in Faults \/ MmfCtxDone)
    /\ MmfReturns("some") /\ UNCHANGED offer

Withdrawn == offer' = None

\* The context is done while the handler offers a proposal.
OfferCancelled ==
    /\ main = "offer" /\ MmfCtxDone
    /\ MmfReturns("some") /\ Withdrawn

\* eg.Wait returns, and the call with it.
Join ==
    /\ main = "join" /\ send \in {"done", "failed"} /\ recv \in {"done", "failed"}
    /\ main' = IF send = "done" /\ recv = "done" /\ mmfErr = "none"
               THEN "ok" ELSE "error"
    /\ UNCHANGED <<inputVars, mmfErr, offer, produced, proposals, sendVars, recvVars,
                   signalVars, caller>>

Main == \/ Open \/ NeverStarted \/ Started \/ Dial \/ OfferCancelled \/ Join
        \/ (MmfCtxDone /\ MmfFails)
-----------------------------------------------------------------------------
(* synchronizeSend. *)

\* The two things done with a proposal, in order.
SendFirst == <<"send", "store">>
SendOrder == <<"store", "send">>

\* It takes the proposal the handler offers.
Take ==
    /\ main = "offer" /\ send = "select"
    /\ send' = SendOrder[1] /\ holding' = offer
    /\ main' = "run" /\ offer' = None
    /\ UNCHANGED <<inputVars, mmfErr, produced, proposals, m, sent, recvVars,
                   signalVars, caller>>

SendFrame == <<inputVars, mainVars, recvVars, signalVars, caller>>

NextStep(step) == IF step = SendOrder[1]
                  THEN send' = SendOrder[2] /\ UNCHANGED holding
                  ELSE send' = "select" /\ holding' = None

SendFailed == send' = "failed" /\ holding' = None

\* LoadOrStore.  An id that was used before is an error.
StoreProposal ==
    /\ send = "store"
    /\ \/ holding \notin m /\ m' = m \cup {holding} /\ NextStep("store")
       \/ holding \in m /\ SendFailed /\ UNCHANGED m
    /\ UNCHANGED <<sent, SendFrame>>

\* A proposal goes to the stream; on one that has ended it may be lost
\* without an error.
SendProposal ==
    /\ send = "send"
    /\ \/ sent' = sent \cup {holding} /\ NextStep("send")
       \/ /\ "sync" \in Faults \/ sync = "ended" \/ CtxDone
          /\ SendFailed /\ UNCHANGED sent
    /\ UNCHANGED <<m, SendFrame>>

\* The context is done, or the match function has ended: CloseSend.
EndSend ==
    /\ send = "select" /\ (CtxDone \/ proposals = "closed")
    /\ \/ send' = "done"
       \/ "sync" \in Faults /\ send' = "failed"
    /\ UNCHANGED <<m, holding, sent, SendFrame>>

Send == Take \/ StoreProposal \/ SendProposal \/ EndSend
-----------------------------------------------------------------------------
(* synchronizeRecv. *)

RecvFrame == <<inputVars, mainVars, sendVars, caller>>

\* A response with StartMmfs: a goroutine is to close startMmfs.
RecvStart ==
    /\ recv = "loop" /\ sync = "opened"
    /\ startMmfs' = "closing" /\ sync' = "started"
    /\ UNCHANGED <<recvVars, mmfCtx, RecvFrame>>

CloseStartMmfs ==
    /\ startMmfs = "closing" /\ startMmfs' = "closed"
    /\ UNCHANGED <<recvVars, mmfCtx, sync, RecvFrame>>

\* A response with CancelMmfs.
RecvCancel ==
    /\ recv = "loop" /\ sync = "started" /\ mmfCtx = "live"
    /\ mmfCtx' = "cancelled"
    /\ UNCHANGED <<recvVars, startMmfs, sync, RecvFrame>>

\* A response with a match id; one that is not in the map is passed over.
RecvMatch(i) ==
    /\ recv = "loop" /\ sync = "started" /\ i \in sent \ accepted
    /\ accepted' = accepted \cup {i}
    /\ current' = IF i \in m THEN i ELSE None
    /\ recv' = IF i \notin m THEN "loop"
               ELSE IF i \in backfilled THEN "backfill" ELSE "deliver"
    /\ UNCHANGED <<delivered, dropped, signalVars, RecvFrame>>

\* createOrUpdateBackfill.  The match is dropped when the backfill has another
\* generation by now or is gone.
UpdateBackfill ==
    /\ recv = "backfill"
    /\ \/ recv' \in {"deliver", "release"} /\ UNCHANGED current
       \/ ("store" \in Faults \/ CtxDone) /\ recv' = "failed" /\ current' = None
    /\ UNCHANGED <<accepted, delivered, dropped, signalVars, RecvFrame>>

Continue == recv' = "loop" /\ current' = None

\* doReleaseTickets; its error is only logged.
ReleaseTickets ==
    /\ recv = "release"
    /\ dropped' = dropped \cup {current} /\ Continue
    /\ UNCHANGED <<accepted, delivered, signalVars, RecvFrame>>

Deliver ==
    /\ recv = "deliver" /\ current' = None
    /\ \/ recv' = "loop" /\ delivered' = delivered \cup {current}
       \/ caller = "gone" /\ recv' = "failed" /\ UNCHANGED delivered
    /\ UNCHANGED <<accepted, dropped, signalVars, RecvFrame>>

\* The Synchronize call has returned nil ...
RecvEOF ==
    /\ recv = "loop" /\ sync = "started"
    /\ recv' = "done" /\ sync' = "ended"
    /\ UNCHANGED <<current, accepted, delivered, dropped, startMmfs, mmfCtx,
                   RecvFrame>>

\* ... or an error, or the context is done.
RecvError ==
    /\ recv = "loop" /\ ("sync" \in Faults \/ CtxDone)
    /\ recv' = "failed" /\ sync' = "ended"
    /\ UNCHANGED <<current, accepted, delivered, dropped, startMmfs, mmfCtx,
                   RecvFrame>>

Recv == \/ RecvStart \/ RecvCancel \/ (\E i \in Ids : RecvMatch(i))
        \/ UpdateBackfill \/ ReleaseTickets \/ Deliver \/ RecvEOF \/ RecvError
-----------------------------------------------------------------------------
\* The goroutines of the Synchronize stream run from Open on.
Running == main # "open" /\ ~Returned

CallerGone ==
    /\ "caller" \in Faults /\ caller = "here" /\ ~Returned
    /\ caller' = "gone"
    /\ UNCHANGED <<inputVars, mainVars, sendVars, recvVars, signalVars>>

Next ==
    \/ Main \/ MmfEnds \/ MmfFails \/ \E i \in Ids : MmfProposes(i)
    \/ Running /\ (Send \/ Recv)
    \/ CloseStartMmfs \/ CallerGone

Spec == Init /\ [][Next]_vars

\* The goroutines run, and the synchronizer ends every call in the end.  Of a match
\* function nothing is assumed but that its call ends when its context does.
FairSpec ==
    /\ Spec
    /\ WF_vars(Main) /\ WF_vars(CloseStartMmfs)
    /\ WF_vars(Running /\ Send) /\ WF_vars(Running /\ Recv)
-----------------------------------------------------------------------------
(* Properties. *)

MainTypes ==
    /\ main \in {"open", "select", "dial", "run", "offer", "join", "ok", "error"}
    /\ mmfErr \in {"none", "some", "never"} /\ produced \in 0 .. MaxProposals
    /\ offer \in Ids \cup {None} /\ (offer # None) = (main = "offer")
    /\ proposals \in {"open", "closed"}

SendTypes ==
    /\ m \subseteq Ids /\ sent \subseteq Ids /\ holding \in Ids \cup {None}
    /\ send \in {"select", "store", "send", "done", "failed"}
    /\ (holding # None) = (send \in {"store", "send"})

RecvTypes ==
    /\ recv \in {"loop", "backfill", "release", "deliver", "done", "failed"}
    /\ current \in accepted \cup {None}
    /\ (current # None) = (recv \in {"backfill", "release", "deliver"})
    /\ accepted \subseteq sent /\ delivered \subseteq accepted
    /\ dropped \subseteq accepted

SignalTypes ==
    /\ kind \in Kinds /\ backfilled \subseteq Ids
    /\ startMmfs \in {"open", "closing", "closed"} /\ mmfCtx \in {"live", "cancelled"}
    /\ sync \in {"opened", "started", "ended"} /\ caller \in {"here", "gone"}

\* Every variable stays in its type, and the handler and synchronizeSend hold a
\* proposal exactly where they should.
TypeOK == MainTypes /\ SendTypes /\ RecvTypes /\ SignalTypes

\* A call that returns nil has handed every proposal of its match function to the
\* synchronizer, and has delivered every match the synchronizer returned, except
\* those dropped because of their backfill: synchronizeSend stores a proposal before
\* it sends it, so that its answer always finds it.
OkMeansComplete ==
    main = "ok" => /\ Cardinality(sent) = produced
                   /\ accepted = delivered \cup dropped

\* The tickets of a dropped match are released, so it must not reach the caller.
DroppedNotDelivered == delivered \cap dropped = {}

\* The match function was never started: nobody closes the proposals channel, and
\* nothing ends the context that synchronizeSend waits for.
Orphaned == mmfErr = "never" /\ send = "select" /\ recv = "done" /\ ~CtxDone

\* The match function runs on, and nobody has cancelled it.
MmfRuns == main = "run" /\ ~MmfCtxDone

\* The call returns, whichever goroutine fails and when, unless its match function
\* runs on uncancelled or was never started.
FetchReturns == (main = "select") ~> (Returned \/ []Orphaned \/ []MmfRuns)
=============================================================================
