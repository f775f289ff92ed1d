------------------------------ MODULE SyncCycle ------------------------------
(***************************************************************************)
(* One evaluation cycle of the synchronizer: runCycle, the goroutines it   *)
(* starts, and the Synchronize calls that register with it                 *)
(* (internal/app/synchronizer/synchronizer_service.go), with the gRPC      *)
(* evaluator client (evaluator_client.go) in the middle of the pipeline.   *)
(*                                                                         *)
(*   Synchronize -m1c-> cutoffSender -m2c-> fanInFanOut -m3c->             *)
(*   cacheMatchIDToTicketIDs -m4c-> buffer -> evaluate -m5c-> buffer ->    *)
(*   addMatchesToPendingRelease -m6c-> fanInFanOut -m7c-> buffer ->        *)
(*   Synchronize                                                           *)
(*                                                                         *)
(* An unbuffered Go channel is a rendezvous: the variable named after the  *)
(* channel holds what its sender is blocked on (at most one value, except  *)
(* m6c, which holds the rest of the slice being sent), and the receiver    *)
(* takes it in one step.  A bufferMatchChannel/bufferStringChannel         *)
(* goroutine always accepts, so a send into one never waits: the variables *)
(* batch4, batch5 and batch7 are the slices those goroutines hold.  Slices *)
(* are sets: no step looks at the order of the matches in one.             *)
(***************************************************************************)
EXTENDS FiniteSets

CONSTANTS
    Calls,      \* Synchronize calls, one per FetchMatches call of a backend
    Proposals,  \* the matches that the match functions may propose
    Ids,        \* match ids
    CallOf,     \* CallOf[p]: the call whose match function proposes p
    MatchId,    \* MatchId[p]: the match_id of proposal p
    Faults,     \* the kinds of failure that may happen
    None        \* an absent map entry

ASSUME CycleConstants ==
    /\ CallOf \in [Proposals -> Calls]
    /\ MatchId \in [Proposals -> Ids]
    /\ Faults \subseteq {"stream", "start", "evaluator", "store"}
    /\ None \notin Calls \cup Proposals

VARIABLES
    phase,         \* runCycle: idle, registering, waiting, cleanup, ended
    registered,    \* registrations: the calls of this cycle
    timer,         \* cancelProposalCollection: unset, armed, fired, stopped
    cycleErr,      \* the cycle's context has been cancelled (cancel(err))
    handler,       \* Synchronize, per call
    cancelMmfs,    \* the one-place channel registration.cancelMmfs, per call
    signal,        \* last control signal the backend was sent, per call
    returned,      \* match ids streamed back to the backend, per call
    gone,          \* the backend cancelled the stream's context, per call
    receiver,      \* the goroutine that receives proposals, per call
    proposed,      \* proposals received from the backends so far
    cutoffClosed,  \* cutoffSender.closed
    m1c, m2c, m3c, m4c, m6c,
    m2cClosed, m3cClosed,
    m7cClosed,     \* calls whose m7c is closed
    fan,           \* fanInFanOut and the loop that closes m7c after it
    m7cMap,        \* match id -> call
    matchTickets,  \* match id -> proposal whose ticket ids are cached
    batch4, batch5, batch7,
    evalPc,        \* wrapEvaluator: start, run, finish, closed
    evalSend,      \* the sending goroutine of evaluate
    toEval,        \* rest of the slice that goroutine is sending
    evalRecv,      \* the receiving goroutine of evaluate
    matchIDs,      \* match id -> absent, sent, returned
    pendingPc,     \* addMatchesToPendingRelease: range, finish, done
    succeeded,     \* successfulMatches > 0
    pended,        \* proposals whose tickets are in the pending release set
    unpended       \* proposals in a batch whose store call returned an error

runVars  == <<phase, registered, timer>>
callVars == <<handler, cancelMmfs, signal, returned, gone>>
inVars   == <<receiver, proposed, m1c, cutoffClosed, m2c, m2cClosed>>
fanVars  == <<fan, m7cMap, m3c, m3cClosed, m7cClosed>>
memoVars == <<matchTickets, m4c>>
evalVars == <<evalPc, evalSend, toEval, evalRecv, matchIDs>>
poolVars == <<pendingPc, succeeded, pended, unpended, m6c>>
batches  == <<batch4, batch5, batch7>>
outer    == <<runVars, callVars, cycleErr>>
pipe     == <<fanVars, memoVars, evalVars, poolVars, batches>>
vars     == <<outer, inVars, pipe>>

-----------------------------------------------------------------------------
(* Initial state: newSynchronizerService has put the token on startCycle.  *)

Init ==
    /\ phase = "idle" /\ registered = {} /\ timer = "unset"
    /\ cycleErr = FALSE
    /\ handler = [c \in Calls |-> "idle"]
    /\ cancelMmfs = [c \in Calls |-> FALSE]
    /\ signal = [c \in Calls |-> "none"]
    /\ returned = [c \in Calls |-> {}]
    /\ gone = [c \in Calls |-> FALSE]
    /\ receiver = [c \in Calls |-> "off"]
    /\ proposed = {} /\ cutoffClosed = FALSE
    /\ m1c = [c \in Calls |-> {}]
    /\ m2c = {} /\ m3c = {} /\ m4c = {} /\ m6c = {}
    /\ m2cClosed = FALSE /\ m3cClosed = FALSE /\ m7cClosed = {}
    /\ fan = "select"
    /\ m7cMap = [i \in Ids |-> None]
    /\ matchTickets = [i \in Ids |-> None]
    /\ batch4 = {} /\ batch5 = {} /\ batch7 = [c \in Calls |-> {}]
    /\ evalPc = "start" /\ evalSend = "range" /\ toEval = {}
    /\ evalRecv = "recv"
    /\ matchIDs = [i \in Ids |-> "absent"]
    /\ pendingPc = "range" /\ succeeded = FALSE
    /\ pended = {} /\ unpended = {}

HasReturned(c) == handler[c] \in {"ok", "error"}

\* A stream's context is done once the client has cancelled it or once the
\* handler has returned.
CtxDone(c) == gone[c] \/ HasReturned(c)

\* The goroutine that sends on a channel closes it when it is finished.
M4cClosed == m3cClosed /\ m3c = {} /\ m4c = {}
M5cClosed == evalPc = "closed"
M6cClosed == pendingPc = "done"

-----------------------------------------------------------------------------
(* runCycle.                                                               *)

\* register takes the token from startCycle and starts the cycle.
StartCycle(c) ==
    /\ handler[c] = "idle" /\ phase = "idle"
    /\ phase' = "registering"
    /\ UNCHANGED <<registered, timer, cycleErr, callVars, inVars, pipe>>

\* The request is accepted by the registration loop, which answers with a
\* registration; Synchronize starts the goroutine that receives proposals.
Register(c) ==
    /\ handler[c] = "idle" /\ phase = "registering"
    /\ registered' = registered \cup {c}
    /\ handler' = [handler EXCEPT ![c] = "registered"]
    /\ receiver' = [receiver EXCEPT ![c] = "recv"]
    /\ UNCHANGED <<phase, timer, cycleErr, cancelMmfs, signal, returned, gone,
                   proposed, m1c, cutoffClosed, m2c, m2cClosed, pipe>>

\* closeRegistration fires: no further registrations, and the proposal
\* collection timer is set.
CloseRegistration ==
    /\ phase = "registering"
    /\ phase' = "waiting" /\ timer' = "armed"
    /\ UNCHANGED <<registered, cycleErr, callVars, inVars, pipe>>

\* The goroutine waiting for every calling context to be done.
AllCallersDone ==
    /\ phase \notin {"idle", "registering"} /\ ~cycleErr
    /\ \A c \in registered : CtxDone(c)
    /\ cycleErr' = TRUE
    /\ UNCHANGED <<runVars, callVars, inVars, pipe>>

\* Mutant: the first call to finish is enough.
AnyM1cSent == \E c \in registered : receiver[c] = "done"

\* allM1cSent.Wait() returns: every call's receiver is done.
AllM1cSent == \A c \in registered : receiver[c] = "done"

\* The goroutine behind allM1cSent.Wait().
AllProposalsSent ==
    /\ phase \notin {"idle", "registering"} /\ ~cutoffClosed
    /\ AllM1cSent
    /\ cutoffClosed' = TRUE
    /\ UNCHANGED <<outer, receiver, proposed, m1c, m2c, m2cClosed, pipe>>

\* Mutant: the end of the interval cancels the match functions only.
NoCutoff == UNCHANGED cutoffClosed

\* cutoff closes cutoffSender.closed.
Cutoff == cutoffClosed' = TRUE

\* The proposal collection interval is over.
TimerFires ==
    /\ timer = "armed"
    /\ timer' = "fired"
    /\ Cutoff
    /\ cancelMmfs' = [c \in Calls |-> cancelMmfs[c] \/ c \in registered]
    /\ UNCHANGED <<phase, registered, cycleErr, handler, signal, returned, gone,
                   receiver, proposed, m1c, m2c, m2cClosed, pipe>>

\* Mutant: closedOnCycleEnd is closed with m5c.
ClosedWithM5c == M5cClosed

\* closedOnCycleEnd is closed after addMatchesToPendingRelease has returned.
ClosedOnCycleEnd == pendingPc = "done"

\* The cycle is over: the timer is stopped if it has not fired.
StopTimer ==
    /\ phase = "waiting" /\ ClosedOnCycleEnd
    /\ phase' = "cleanup"
    /\ timer' = IF timer = "armed" THEN "stopped" ELSE timer
    /\ UNCHANGED <<registered, cycleErr, callVars, inVars, pipe>>

\* CleanupBackfills returns and the token goes back on startCycle.
EndCycle ==
    /\ phase = "cleanup"
    /\ phase' = "ended"
    /\ UNCHANGED <<registered, timer, cycleErr, callVars, inVars, pipe>>

RunCycle == \/ CloseRegistration \/ AllCallersDone \/ AllProposalsSent
            \/ TimerFires \/ StopTimer \/ EndCycle

-----------------------------------------------------------------------------
(* Synchronize: the handler's own goroutine.                               *)

\* The deferred function drains m6cBuffer before the handler returns its
\* error, so an early return waits in state "drain" until m7c is closed.
LeaveLoop(c) == handler' = [handler EXCEPT ![c] = "drain"]

\* StartMmfs is sent; the send fails only when the stream is broken.
SendStartMmfs(c) ==
    /\ handler[c] = "registered"
    /\ \/ /\ handler' = [handler EXCEPT ![c] = "loop"]
          /\ signal' = [signal EXCEPT ![c] = "start"]
       \/ gone[c] /\ LeaveLoop(c) /\ UNCHANGED signal
    /\ UNCHANGED <<runVars, cycleErr, cancelMmfs, returned, gone, inVars, pipe>>

\* A slice of match ids from m6cBuffer is sent to the backend, the whole of it
\* or, on a broken stream, a part of it.
SendMatches(c) ==
    /\ handler[c] = "loop" /\ batch7[c] # {}
    /\ \/ /\ returned' = [returned EXCEPT ![c] = @ \cup batch7[c]]
          /\ UNCHANGED handler
       \/ /\ gone[c] /\ LeaveLoop(c)
          /\ \E sent \in SUBSET batch7[c] :
                returned' = [returned EXCEPT ![c] = @ \cup sent]
    /\ batch7' = [batch7 EXCEPT ![c] = {}]
    /\ UNCHANGED <<runVars, cycleErr, cancelMmfs, signal, gone, inVars, fanVars,
                   memoVars, evalVars, poolVars, batch4, batch5>>

\* Mutant: bufferStringChannel does not flush its slice when its input closes.
NoFlush(c) == c \in m7cClosed

\* m6cBuffer is closed: its input is, and it has passed on its last slice.
M6cBufferClosed(c) == c \in m7cClosed /\ batch7[c] = {}

\* The handler sees the close and returns the cycle's error, if any.
ResponsesClosed(c) ==
    /\ handler[c] = "loop" /\ M6cBufferClosed(c)
    /\ handler' = [handler EXCEPT ![c] = IF cycleErr THEN "error" ELSE "ok"]
    /\ UNCHANGED <<runVars, cycleErr, cancelMmfs, signal, returned, gone, inVars,
                   pipe>>

\* A value on cancelMmfs is passed on to the backend.
SendCancelMmfs(c) ==
    /\ handler[c] = "loop" /\ cancelMmfs[c]
    /\ cancelMmfs' = [cancelMmfs EXCEPT ![c] = FALSE]
    /\ \/ signal' = [signal EXCEPT ![c] = "cancel"] /\ UNCHANGED handler
       \/ gone[c] /\ LeaveLoop(c) /\ UNCHANGED signal
    /\ UNCHANGED <<runVars, cycleErr, returned, gone, inVars, pipe>>

\* stream.Context() or cycleCtx is done.
HandlerDone(c) ==
    /\ handler[c] = "loop" /\ (gone[c] \/ cycleErr)
    /\ LeaveLoop(c)
    /\ UNCHANGED <<runVars, cycleErr, cancelMmfs, signal, returned, gone, inVars,
                   pipe>>

\* The deferred drain ends when m7c is closed.
DrainReturn(c) ==
    /\ handler[c] = "drain" /\ c \in m7cClosed
    /\ handler' = [handler EXCEPT ![c] = "error"]
    /\ batch7' = [batch7 EXCEPT ![c] = {}]
    /\ UNCHANGED <<runVars, cycleErr, cancelMmfs, signal, returned, gone, inVars,
                   fanVars, memoVars, evalVars, poolVars, batch4, batch5>>

Handler(c) == \/ SendStartMmfs(c) \/ SendMatches(c) \/ ResponsesClosed(c)
              \/ SendCancelMmfs(c) \/ HandlerDone(c) \/ DrainReturn(c)

\* The caller of FetchMatches goes away, or the connection breaks.
CancelStream(c) ==
    /\ "stream" \in Faults
    /\ handler[c] \in {"registered", "loop", "drain"} /\ ~gone[c]
    /\ gone' = [gone EXCEPT ![c] = TRUE]
    /\ UNCHANGED <<runVars, cycleErr, handler, cancelMmfs, signal, returned,
                   inVars, pipe>>

-----------------------------------------------------------------------------
(* The receiving goroutine of Synchronize, and cutoffSender.               *)

\* stream.Recv returns a proposal; match functions only run once started.
RecvProposal(c, p) ==
    /\ receiver[c] = "recv" /\ m1c[c] = {}
    /\ CallOf[p] = c /\ p \notin proposed /\ signal[c] # "none"
    /\ proposed' = proposed \cup {p}
    /\ m1c' = [m1c EXCEPT ![c] = {p}]
    /\ UNCHANGED <<outer, receiver, cutoffClosed, m2c, m2cClosed, pipe>>

ReceiverDone(c) ==
    /\ receiver[c] = "recv" /\ m1c[c] = {}
    /\ receiver' = [receiver EXCEPT ![c] = "done"]
    /\ UNCHANGED <<outer, proposed, m1c, cutoffClosed, m2c, m2cClosed, pipe>>

\* stream.Recv returns EOF: the backend's match function has ended, and the
\* backend has closed its side of the stream.  allM1cSent.Done().
RecvEOF(c) == signal[c] # "none" /\ ReceiverDone(c)

\* stream.Recv returns an error: the stream is broken or the handler returned.
RecvError(c) == CtxDone(c) /\ ReceiverDone(c)

\* The cutoffSender goroutine is at its select, not blocked sending on m2c.
CutoffAtSelect == m2c = {} /\ ~m2cClosed

\* send: the cutoffSender goroutine takes the proposal ...
SendM1c(c) ==
    /\ m1c[c] # {} /\ CutoffAtSelect
    /\ m2c' = m2c \cup m1c[c]
    /\ m1c' = [m1c EXCEPT ![c] = {}]
    /\ UNCHANGED <<outer, receiver, proposed, cutoffClosed, m2cClosed, pipe>>

\* ... or, after cutoff, the proposal is ignored.
DropM1c(c) ==
    /\ m1c[c] # {} /\ cutoffClosed
    /\ m1c' = [m1c EXCEPT ![c] = {}]
    /\ UNCHANGED <<outer, receiver, proposed, cutoffClosed, m2c, m2cClosed, pipe>>

\* The goroutine of newCutoffSender sees closed and closes m2c.
CloseM2c ==
    /\ cutoffClosed /\ CutoffAtSelect
    /\ m2cClosed' = TRUE
    /\ UNCHANGED <<outer, receiver, proposed, m1c, cutoffClosed, m2c, pipe>>

Receiver(c) == RecvError(c) \/ SendM1c(c) \/ DropM1c(c)

-----------------------------------------------------------------------------
(* fanInFanOut; it is at its select when m3c is empty.                     *)

\* A proposal: remember its call and pass it on.
FanIn(p) ==
    /\ fan = "select" /\ m3c = {} /\ p \in m2c
    /\ m7cMap' = [m7cMap EXCEPT ![MatchId[p]] = CallOf[p]]
    /\ m3c' = {p} /\ m2c' = {}
    /\ UNCHANGED <<outer, receiver, proposed, m1c, cutoffClosed, m2cClosed, fan,
                   m3cClosed, m7cClosed, memoVars, evalVars, poolVars, batches>>

\* m2c is closed: close m3c and stop selecting on m2c.
FanInClosed ==
    /\ fan = "select" /\ m3c = {} /\ m2c = {} /\ m2cClosed /\ ~m3cClosed
    /\ m3cClosed' = TRUE
    /\ UNCHANGED <<outer, inVars, fan, m7cMap, m3c, m7cClosed, memoVars,
                   evalVars, poolVars, batches>>

\* The call, if any, that m7cMap holds for a match id.
Destination(i) == {m7cMap[i]} \cap Calls

\* An accepted match id is routed to the m7c of its call.
FanOut(i) ==
    /\ fan = "select" /\ m3c = {} /\ i \in m6c
    /\ m6c' = m6c \ {i}
    /\ batch7' = [c \in Calls |-> IF c \in Destination(i)
                                  THEN batch7[c] \cup {i} ELSE batch7[c]]
    /\ UNCHANGED <<outer, inVars, fanVars, memoVars, evalVars, pendingPc,
                   succeeded, pended, unpended, batch4, batch5>>

\* m6c is closed: fanInFanOut leaves its loop for the deferred drain of m2c.
FanOutClosed ==
    /\ fan = "select" /\ m3c = {} /\ m6c = {} /\ M6cClosed
    /\ fan' = "drain"
    /\ UNCHANGED <<outer, inVars, m7cMap, m3c, m3cClosed, m7cClosed, memoVars,
                   evalVars, poolVars, batches>>

FanDrain ==
    /\ fan = "drain" /\ m2c # {}
    /\ m2c' = {}
    /\ UNCHANGED <<outer, receiver, proposed, m1c, cutoffClosed, m2cClosed, pipe>>

\* The deferred loop over m2c ends when m2c is closed.
M2cDrained == m2c = {} /\ m2cClosed

\* fanInFanOut has returned: the response channels of the calls registered by
\* now are closed.
CloseResponses ==
    /\ fan = "drain" /\ M2cDrained
    /\ fan' = "done"
    /\ m7cClosed' = registered
    /\ UNCHANGED <<outer, inVars, m7cMap, m3c, m3cClosed, memoVars, evalVars,
                   poolVars, batches>>

Fan == \/ \E p \in m2c : FanIn(p)
       \/ \E i \in m6c : FanOut(i)
       \/ FanInClosed \/ FanOutClosed \/ FanDrain \/ CloseResponses

-----------------------------------------------------------------------------
(* cacheMatchIDToTicketIDs.                                                *)

RecvM3c ==
    /\ m3c # {} /\ m4c = {}
    /\ m4c' = m3c /\ m3c' = {}
    /\ UNCHANGED <<outer, inVars, fan, m7cMap, m3cClosed, m7cClosed,
                   matchTickets, evalVars, poolVars, batches>>

\* Mutant: the ticket ids are not stored.
NotStored(p) == matchTickets

\* m.Store(match.GetMatchId(), getTicketIds(match.GetTickets())).
Stored(p) == [matchTickets EXCEPT ![MatchId[p]] = p]

\* The ticket ids are stored before the match is sent on m4c.
StoreAndSendM4c(p) ==
    /\ p \in m4c
    /\ matchTickets' = Stored(p)
    /\ batch4' = batch4 \cup {p}
    /\ m4c' = {}
    /\ UNCHANGED <<outer, inVars, fanVars, evalVars, poolVars, batch5, batch7>>

Memo == RecvM3c \/ (\E p \in m4c : StoreAndSendM4c(p))

-----------------------------------------------------------------------------
(* wrapEvaluator and grpcEvaluatorClient.evaluate.  The evaluator itself   *)
(* is another service: a sound one returns some of the ids it was sent and *)
(* ends its stream after its input has ended; a faulty one may return any  *)
(* id, or end or fail at any point.                                        *)

EvalFailed == evalSend = "failed" \/ evalRecv = "failed"

EvalStart ==
    /\ phase # "idle" /\ evalPc = "start"
    /\ evalPc' = "run"
    /\ UNCHANGED <<outer, inVars, fanVars, memoVars, evalSend, toEval, evalRecv,
                   matchIDs, poolVars, batches>>

\* The client cannot be built or the call cannot be started: evaluate returns
\* at once without reading its input, and the cycle is cancelled.
EvalStartFails ==
    /\ "start" \in Faults
    /\ phase # "idle" /\ evalPc = "start"
    /\ evalPc' = "finish" /\ evalSend' = "failed" /\ evalRecv' = "failed"
    /\ cycleErr' = TRUE
    /\ UNCHANGED <<runVars, callVars, inVars, fanVars, memoVars, toEval, matchIDs,
                   poolVars, batches>>

\* The sending goroutine takes the buffered slice of proposals.
EvalTake ==
    /\ evalPc = "run" /\ evalSend = "range" /\ toEval = {} /\ batch4 # {}
    /\ toEval' = batch4 /\ batch4' = {}
    /\ UNCHANGED <<outer, inVars, fanVars, memoVars, evalPc, evalSend, evalRecv,
                   matchIDs, poolVars, batch5, batch7>>

\* The call's context is done: the cycle was cancelled, or one of the two
\* goroutines of evaluate has failed.
EvalBroken == cycleErr \/ EvalFailed \/ "evaluator" \in Faults

\* Mutant: the id is not looked up.
AlwaysNew(i) == TRUE

\* LoadOrStore did not find the id.
IsNew(i) == matchIDs[i] = "absent"

\* It sends one proposal of the slice.  An id seen before is an error, and so
\* is a send on a broken stream or on one that the evaluator has ended.
EvalSendProposal(p) ==
    /\ evalPc = "run" /\ evalSend = "range" /\ p \in toEval
    /\ \/ /\ IsNew(MatchId[p]) /\ evalRecv = "recv"
          /\ toEval' = toEval \ {p}
          /\ UNCHANGED evalSend
       \/ /\ ~IsNew(MatchId[p]) \/ evalRecv # "recv" \/ EvalBroken
          /\ evalSend' = "failed" /\ toEval' = {}
    /\ matchIDs' = [matchIDs EXCEPT
                      ![MatchId[p]] = IF @ = "absent" THEN "sent" ELSE @]
    /\ UNCHANGED <<outer, inVars, fanVars, memoVars, evalPc, evalRecv, poolVars,
                   batches>>

\* Its input is closed: CloseSend.
EvalCloseSend ==
    /\ evalPc = "run" /\ evalSend = "range" /\ toEval = {}
    /\ batch4 = {} /\ M4cClosed
    /\ evalSend' = "done"
    /\ UNCHANGED <<outer, inVars, fanVars, memoVars, evalPc, toEval, evalRecv,
                   matchIDs, poolVars, batches>>

\* Mutant: an id that the evaluator returned before is accepted again.
ExpectedAgain(i) == matchIDs[i] # "absent"

\* The id was sent to the evaluator and has not come back yet.
Expected(i) == matchIDs[i] = "sent"

\* The receiving goroutine gets an id: one that was not sent, or was returned
\* before, is an error; any other goes through m5c into its buffer.
EvalRecvId(i) ==
    /\ evalPc = "run" /\ evalRecv = "recv"
    /\ \/ /\ Expected(i)
          /\ matchIDs' = [matchIDs EXCEPT ![i] = "returned"]
          /\ batch5' = batch5 \cup {i}
          /\ UNCHANGED evalRecv
       \/ /\ ~Expected(i) /\ "evaluator" \in Faults
          /\ evalRecv' = "failed"
          /\ UNCHANGED <<matchIDs, batch5>>
    /\ UNCHANGED <<outer, inVars, fanVars, memoVars, evalPc, evalSend, toEval,
                   poolVars, batch4, batch7>>

\* It gets EOF, or an error.
EvalRecvEnd ==
    /\ evalPc = "run" /\ evalRecv = "recv"
    /\ \/ (evalSend = "done" \/ "evaluator" \in Faults) /\ evalRecv' = "done"
       \/ EvalBroken /\ evalRecv' = "failed"
    /\ UNCHANGED <<outer, inVars, fanVars, memoVars, evalPc, evalSend, toEval,
                   matchIDs, poolVars, batches>>

\* The state of the cycle's context after evaluate has returned.
CancelOnError == cycleErr \/ EvalFailed

\* Both goroutines have ended, so evaluate returns; an error cancels the cycle.
EvalReturn ==
    /\ evalPc = "run" /\ evalSend # "range" /\ evalRecv # "recv"
    /\ evalPc' = "finish"
    /\ cycleErr' = CancelOnError
    /\ UNCHANGED <<runVars, callVars, inVars, fanVars, memoVars, evalSend, toEval,
                   evalRecv, matchIDs, poolVars, batches>>

CloseM5c ==
    /\ evalPc = "finish"
    /\ evalPc' = "closed"
    /\ UNCHANGED <<outer, inVars, fanVars, memoVars, evalSend, toEval, evalRecv,
                   matchIDs, poolVars, batches>>

EvalClient == \/ EvalTake \/ (\E p \in toEval : EvalSendProposal(p))
              \/ EvalCloseSend \/ EvalReturn \/ CloseM5c

-----------------------------------------------------------------------------
(* addMatchesToPendingRelease.                                             *)

\* The proposals whose ticket ids are cached under the ids of a slice.
Cached(ids) == {matchTickets[i] : i \in ids} \ {None}

\* A slice of accepted ids: their tickets go to the pending release set in one
\* store call, which may fail before or after it took effect.  Either way all
\* the ids go on to m6c.
AddToPending ==
    /\ pendingPc = "range" /\ m6c = {} /\ batch5 # {}
    /\ \/ /\ pended' = pended \cup Cached(batch5)
          /\ succeeded' = TRUE
          /\ UNCHANGED unpended
       \/ /\ "store" \in Faults /\ Cached(batch5) # {}
          /\ pended' \in {pended, pended \cup Cached(batch5)}
          /\ unpended' = unpended \cup Cached(batch5)
          /\ UNCHANGED succeeded
    /\ m6c' = batch5 /\ batch5' = {}
    /\ UNCHANGED <<outer, inVars, fanVars, memoVars, evalVars, pendingPc, batch4,
                   batch7>>

\* The buffer of m5c is closed: no successful match at all cancels the cycle.
PendingDone ==
    /\ pendingPc = "range" /\ m6c = {} /\ batch5 = {} /\ M5cClosed
    /\ pendingPc' = "finish"
    /\ cycleErr' = (cycleErr \/ (unpended # {} /\ ~succeeded))
    /\ UNCHANGED <<runVars, callVars, inVars, fanVars, memoVars, evalVars,
                   succeeded, pended, unpended, m6c, batches>>

\* close(m6c), then close(closedOnCycleEnd).
CloseM6c ==
    /\ pendingPc = "finish"
    /\ pendingPc' = "done"
    /\ UNCHANGED <<outer, inVars, fanVars, memoVars, evalVars, succeeded, pended,
                   unpended, m6c, batches>>

PendingRelease == AddToPending \/ PendingDone \/ CloseM6c

-----------------------------------------------------------------------------
Next ==
    \/ \E c \in Calls :
         \/ StartCycle(c) \/ Register(c) \/ Handler(c) \/ CancelStream(c)
         \/ RecvEOF(c) \/ Receiver(c)
         \/ \E p \in Proposals : RecvProposal(c, p)
    \/ RunCycle \/ CloseM2c \/ Fan \/ Memo
    \/ EvalStart \/ EvalStartFails \/ EvalRecvEnd \/ EvalClient
    \/ \E i \in Ids : EvalRecvId(i)
    \/ PendingRelease

Spec == Init /\ [][Next]_vars

(***************************************************************************)
(* Fairness.  Every goroutine that can take a step eventually does, timers *)
(* fire, and an evaluator ends its stream once its input has ended or its  *)
(* call is cancelled.  Nothing is assumed of match functions.  As no       *)
(* goroutine of a cycle can go on for ever, one condition is enough.       *)
(***************************************************************************)
Goroutines ==
    \/ \E c \in Calls : Handler(c) \/ Receiver(c)
    \/ RunCycle \/ CloseM2c \/ Fan \/ Memo
    \/ EvalStart \/ EvalStartFails \/ EvalClient \/ EvalRecvEnd
    \/ PendingRelease

FairCycleSpec == Spec /\ WF_vars(Goroutines)

-----------------------------------------------------------------------------
(* Properties.                                                             *)

AtMostOne(S) == \A x, y \in S : x = y

RunTypes ==
    /\ phase \in {"idle", "registering", "waiting", "cleanup", "ended"}
    /\ registered \subseteq Calls
    /\ timer \in {"unset", "armed", "fired", "stopped"}
    /\ cycleErr \in BOOLEAN

CallTypes ==
    /\ handler \in [Calls -> {"idle", "registered", "loop", "drain", "ok", "error"}]
    /\ cancelMmfs \in [Calls -> BOOLEAN] /\ gone \in [Calls -> BOOLEAN]
    /\ signal \in [Calls -> {"none", "start", "cancel"}]
    /\ returned \in [Calls -> SUBSET Ids]

InTypes ==
    /\ receiver \in [Calls -> {"off", "recv", "done"}]
    /\ proposed \subseteq Proposals
    /\ m1c \in [Calls -> SUBSET Proposals] /\ \A c \in Calls : AtMostOne(m1c[c])
    /\ m2c \subseteq Proposals /\ AtMostOne(m2c)
    /\ cutoffClosed \in BOOLEAN /\ m2cClosed \in BOOLEAN

FanTypes ==
    /\ fan \in {"select", "drain", "done"}
    /\ m7cMap \in [Ids -> Calls \cup {None}]
    /\ m3c \subseteq Proposals /\ AtMostOne(m3c)
    /\ m3cClosed \in BOOLEAN /\ m7cClosed \subseteq Calls

MemoTypes ==
    /\ matchTickets \in [Ids -> Proposals \cup {None}]
    /\ m4c \subseteq Proposals /\ AtMostOne(m4c)

EvalTypes ==
    /\ evalPc \in {"start", "run", "finish", "closed"}
    /\ evalSend \in {"range", "done", "failed"} /\ toEval \subseteq Proposals
    /\ evalRecv \in {"recv", "done", "failed"}
    /\ matchIDs \in [Ids -> {"absent", "sent", "returned"}]

PoolTypes ==
    /\ pendingPc \in {"range", "finish", "done"} /\ succeeded \in BOOLEAN
    /\ pended \subseteq Proposals /\ unpended \subseteq Proposals
    /\ m6c \subseteq Ids

BatchTypes ==
    /\ batch4 \subseteq Proposals /\ batch5 \subseteq Ids
    /\ batch7 \in [Calls -> SUBSET Ids]

\* The types of the variables, and that the unbuffered channels m1c to m4c
\* hold at most the one value their sender is blocked on.
TypeOK == /\ RunTypes /\ CallTypes /\ InTypes /\ FanTypes
          /\ MemoTypes /\ EvalTypes /\ PoolTypes /\ BatchTypes

\* The backend of p's call has been handed p's id, so it returns p to its
\* caller.
Delivered(p) == MatchId[p] \in returned[CallOf[p]]

\* Every match returned to a backend has had its tickets handed to
\* AddTicketsToPendingRelease first, in a call that has come back: another
\* cycle's match functions cannot query them unless that store call failed.
PendedBeforeReturned == \A p \in Proposals : Delivered(p) => p \in pended \cup unpended

\* A match id goes back only to a call that proposed it: m7cMap never sends
\* the response of one FetchMatches call to another.
ReturnedToProposer ==
    \A c \in Calls : \A i \in returned[c] \cup batch7[c] :
        \E p \in proposed : CallOf[p] = c /\ MatchId[p] = i

\* An id that was streamed back to a call is never routed to it again, whatever
\* the evaluator returns.
ReturnedOnce ==
    [][\A c \in Calls : (batch7'[c] \ batch7[c]) \cap returned[c] = {}]_vars

\* Synchronize returns nil only in a cycle whose evaluation succeeded and in
\* which some match could be made pending: cancel(err) comes before the close
\* of m5c and of m6c, so the handler cannot see the close and miss the error.
OkMeansEvaluated ==
    (\E c \in Calls : handler[c] = "ok") =>
        ~EvalFailed /\ (unpended = {} \/ succeeded)

\* A call that returns nil has been sent every accepted match routed to it: no
\* id is left in a buffer when the channels close behind each other.
OkMeansComplete ==
    \A c \in Calls : handler[c] = "ok" =>
        \A i \in Ids : (matchIDs[i] = "returned" /\ m7cMap[i] = c) => i \in returned[c]

\* If the collection window was not closed by the timer, the evaluator's input
\* ends only after every proposal received from a backend has reached it.
AllProposalsEvaluated ==
    (evalSend = "done" /\ timer # "fired") =>
        \A p \in proposed : matchIDs[MatchId[p]] # "absent"

\* When fanInFanOut has gone, m7c is closed for every call of the cycle: the
\* list of registrations it walks is complete, so that no call waits for ever.
AllResponsesClosed ==
    fan = "done" => m7cClosed = registered /\ phase \notin {"idle", "registering"}

\* Once runCycle is past closedOnCycleEnd (and may hand the token to the next
\* cycle) no ticket of this cycle becomes pending any more.
PendingSettledAtCycleEnd ==
    [][(phase \in {"cleanup", "ended"}) => pended' = pended]_vars

\* Two proposals with one match_id fail the cycle: with both collected (the
\* timer dropped none), no call returns nil.
CollisionFailsCycle ==
    (\E c \in Calls : handler[c] = "ok") /\ timer # "fired" =>
        \A p, q \in proposed : MatchId[p] = MatchId[q] => p = q

\* A nil of Synchronize can be relied on: the evaluation of the cycle succeeded, and
\* it was of proposals that their ids told apart.
OkIsSound == OkMeansEvaluated /\ CollisionFailsCycle

\* A started cycle ends and gives the token back, even if the match functions
\* never end, and every registered Synchronize call returns, except when the timer
\* that would have cut a match function off has been stopped: then all calls wait
\* for that match function.
CallsReturn ==
    /\ (phase = "registering") ~> (phase = "ended")
    /\ \A c \in Calls : (handler[c] = "registered") ~>
         \/ HasReturned(c)
         \/ [](timer = "stopped" /\ \E d \in Calls : receiver[d] = "recv")

-----------------------------------------------------------------------------
(* The inductive invariants behind the safety properties (SyncCycleProofs). *)

\* The stages of the pipeline end in order.
StageOrder ==
    /\ timer # "unset" => phase \notin {"idle", "registering"}
    /\ cutoffClosed => phase \notin {"idle", "registering"}
    /\ m2cClosed => cutoffClosed
    /\ m3cClosed => m2cClosed /\ m2c = {}
    /\ fan # "select" => pendingPc = "done"
    /\ fan = "done" => m2cClosed /\ m7cClosed = registered
    /\ fan # "done" => m7cClosed = {}
    /\ phase \in {"cleanup", "ended"} => pendingPc = "done"
    /\ pendingPc # "range" => evalPc = "closed" /\ batch5 = {} /\ m6c = {}
    /\ evalPc \in {"finish", "closed"} => evalSend # "range" /\ evalRecv # "recv"

\* A failed stage has cancelled the cycle before the next stage sees its end.
ErrorFirst ==
    /\ evalPc \in {"finish", "closed"} /\ EvalFailed => cycleErr
    /\ pendingPc # "range" /\ unpended # {} /\ ~succeeded => cycleErr
    /\ \A c \in Calls : handler[c] = "ok" =>
         /\ fan = "done" /\ batch7[c] = {}
         /\ ~EvalFailed /\ (unpended = {} \/ succeeded)

\* What is cached under an id, and what has been made pending, at each stage.
CacheInv ==
    /\ \A i \in Ids : matchTickets[i] # None => MatchId[matchTickets[i]] = i
    /\ \A p \in batch4 \cup toEval : matchTickets[MatchId[p]] # None
    /\ \A i \in Ids : matchIDs[i] # "absent" => matchTickets[i] # None
    /\ \A i \in batch5 : matchIDs[i] = "returned"
    /\ \A i \in m6c : \E p \in pended \cup unpended : MatchId[p] = i
    /\ \A c \in Calls : \A i \in batch7[c] \cup returned[c] :
          \E p \in pended \cup unpended : MatchId[p] = i

\* What m7cMap knows at each stage.
RouteInv ==
    /\ m2c \cup m3c \cup m4c \cup batch4 \cup toEval \subseteq proposed
    /\ \A c \in Calls : \A p \in m1c[c] : p \in proposed /\ CallOf[p] = c
    /\ \A i \in Ids : m7cMap[i] # None =>
          \E p \in proposed : CallOf[p] = m7cMap[i] /\ MatchId[p] = i
    /\ \A p \in m3c \cup m4c \cup batch4 \cup toEval : m7cMap[MatchId[p]] # None
    /\ \A i \in Ids : matchIDs[i] # "absent" => m7cMap[i] # None

\* Where the accepted ids are.
AcceptedInv ==
    \A i \in Ids : matchIDs[i] = "returned" =>
        \/ i \in batch5 \cup m6c
        \/ \E c \in Calls : /\ m7cMap[i] = c
                            /\ \/ i \in batch7[c] \cup returned[c]
                               \/ handler[c] \in {"drain", "error"}

\* When the collection window may close, and what has passed when it has.
WindowInv ==
    /\ \A c \in Calls : m1c[c] # {} => receiver[c] = "recv"
    /\ \A c \in Calls : receiver[c] = "recv" => c \in registered
    /\ cutoffClosed /\ timer # "fired" => AllM1cSent
    /\ evalSend = "done" => /\ m3cClosed /\ m3c = {} /\ m4c = {}
                            /\ batch4 = {} /\ toEval = {}

\* A proposal that has been received and not yet been sent to the evaluator.
InFlight(p) ==
    p \in m1c[CallOf[p]] \cup m2c \cup m3c \cup m4c \cup batch4 \cup toEval

\* Where the proposals are.
ProposedInv ==
    \A p \in proposed :
        \/ InFlight(p)
        \/ matchIDs[MatchId[p]] # "absent"
        \/ evalSend = "failed"
        \/ timer = "fired"

\* Of two proposals with one match_id at most one gets through to the evaluator.
CollisionInv ==
    \A p, q \in proposed : p # q /\ MatchId[p] = MatchId[q] =>
        InFlight(p) \/ InFlight(q) \/ evalSend = "failed" \/ timer = "fired"

\* An accepted id is in one place on its way back.
OnceInv ==
    /\ \A i \in batch5 \cup m6c : matchIDs[i] = "returned"
    /\ \A c \in Calls : \A i \in batch7[c] \cup returned[c] :
          matchIDs[i] = "returned" /\ i \notin batch5 \cup m6c
    /\ batch5 \cap m6c = {}
=============================================================================
