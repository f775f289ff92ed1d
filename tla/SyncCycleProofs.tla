-------------------------- MODULE SyncCycleProofs --------------------------
(***************************************************************************)
(* Proofs about SyncCycle for any number of calls, proposals and ids and   *)
(* any combination of faults: that the stages end in order and report      *)
(* their errors before they end, where the proposals are on their way to   *)
(* the evaluator and when the collection window may close, and where the   *)
(* accepted matches are on their way back to the calls that proposed them. *)
(* Each inductive invariant has a lemma with one step per action, or per   *)
(* group of actions that leave its variables alone.                        *)
(***************************************************************************)
EXTENDS SyncCycle, TLAPS

\* The type invariant is inductive.
LEMMA TypeStep == TypeOK /\ [Next]_vars => TypeOK'
<1> SUFFICES ASSUME TypeOK PROVE [Next]_vars => TypeOK'
  BY Zenon
<1>0. CallTypes /\ BatchTypes /\ PoolTypes
  BY Zenon DEF TypeOK
<1>handlers. ASSUME UNCHANGED <<runVars, cycleErr, inVars, fanVars, memoVars, evalVars, poolVars>>,
                    CallTypes', BatchTypes'
             PROVE  TypeOK'
  BY <1>0, <1>handlers DEF TypeOK, RunTypes, InTypes, FanTypes, MemoTypes, EvalTypes,
    PoolTypes, AtMostOne, runVars, inVars, fanVars, memoVars, evalVars, poolVars
<1>12. ASSUME NEW c \in Calls, SendStartMmfs(c)
      PROVE  TypeOK'
  <2>1. CallTypes'
    BY <1>0, <1>12 DEF CallTypes, SendStartMmfs, LeaveLoop
  <2> QED
    BY <1>0, <1>12, <1>handlers, <2>1, Zenon DEF SendStartMmfs, pipe, batches,
      BatchTypes
<1>13. ASSUME NEW c \in Calls, SendMatches(c)
      PROVE  TypeOK'
  <2>1. CallTypes' /\ BatchTypes'
    BY <1>0, <1>13 DEF CallTypes, BatchTypes, SendMatches, LeaveLoop
  <2> QED BY <1>13, <1>handlers, <2>1, Zenon DEF SendMatches
<1>15. ASSUME NEW c \in Calls, SendCancelMmfs(c)
      PROVE  TypeOK'
  <2>1. CallTypes'
    BY <1>0, <1>15 DEF CallTypes, SendCancelMmfs, LeaveLoop
  <2> QED
    BY <1>0, <1>15, <1>handlers, <2>1, Zenon DEF SendCancelMmfs, pipe, batches,
      BatchTypes
<1> USE DEF TypeOK, RunTypes, CallTypes, InTypes, FanTypes, MemoTypes, EvalTypes,
      PoolTypes, BatchTypes, outer, pipe, runVars, callVars, inVars, fanVars,
      memoVars, evalVars, poolVars, batches
<1>1. ASSUME NEW c \in Calls, StartCycle(c)
      PROVE  TypeOK'
  BY <1>1, CycleConstants DEF AtMostOne, StartCycle
<1>2. ASSUME NEW c \in Calls, Register(c)
      PROVE  TypeOK'
  BY <1>2, CycleConstants DEF AtMostOne, Register
<1>3. ASSUME NEW c \in Calls, CancelStream(c)
      PROVE  TypeOK'
  BY <1>3, CycleConstants DEF AtMostOne, CancelStream
<1>4. ASSUME NEW c \in Calls, RecvEOF(c)
      PROVE  TypeOK'
  BY <1>4, CycleConstants DEF AtMostOne, RecvEOF, ReceiverDone
<1>5. ASSUME NEW c \in Calls, NEW p \in Proposals, RecvProposal(c, p)
      PROVE  TypeOK'
  BY <1>5, CycleConstants DEF AtMostOne, RecvProposal
<1>6. ASSUME CloseRegistration
      PROVE  TypeOK'
  BY <1>6, CycleConstants DEF AtMostOne, CloseRegistration
<1>7. ASSUME AllCallersDone
      PROVE  TypeOK'
  BY <1>7, CycleConstants DEF AtMostOne, AllCallersDone
<1>8. ASSUME AllProposalsSent
      PROVE  TypeOK'
  BY <1>8, CycleConstants DEF AtMostOne, AllProposalsSent
<1>9. ASSUME TimerFires
      PROVE  TypeOK'
  BY <1>9, CycleConstants DEF AtMostOne, TimerFires, Cutoff
<1>10. ASSUME StopTimer
      PROVE  TypeOK'
  BY <1>10, CycleConstants DEF AtMostOne, StopTimer, ClosedOnCycleEnd
<1>11. ASSUME EndCycle
      PROVE  TypeOK'
  BY <1>11, CycleConstants DEF AtMostOne, EndCycle
<1>14. ASSUME NEW c \in Calls, ResponsesClosed(c)
      PROVE  TypeOK'
  BY <1>14, CycleConstants DEF AtMostOne, ResponsesClosed, M6cBufferClosed
<1>16. ASSUME NEW c \in Calls, HandlerDone(c)
      PROVE  TypeOK'
  BY <1>16, CycleConstants DEF AtMostOne, HandlerDone, LeaveLoop
<1>17. ASSUME NEW c \in Calls, DrainReturn(c)
      PROVE  TypeOK'
  BY <1>17, CycleConstants DEF AtMostOne, DrainReturn
<1>18. ASSUME NEW c \in Calls, RecvError(c)
      PROVE  TypeOK'
  BY <1>18, CycleConstants DEF AtMostOne, RecvError, ReceiverDone
<1>19. ASSUME NEW c \in Calls, SendM1c(c)
      PROVE  TypeOK'
  BY <1>19, CycleConstants DEF AtMostOne, SendM1c, CutoffAtSelect
<1>20. ASSUME NEW c \in Calls, DropM1c(c)
      PROVE  TypeOK'
  BY <1>20, CycleConstants DEF AtMostOne, DropM1c
<1>21. ASSUME NEW p \in m2c, FanIn(p)
      PROVE  TypeOK'
  BY <1>21, CycleConstants DEF AtMostOne, FanIn
<1>22. ASSUME NEW i \in m6c, FanOut(i)
      PROVE  TypeOK'
  BY <1>22, CycleConstants DEF AtMostOne, FanOut, Destination
<1>23. ASSUME FanInClosed
      PROVE  TypeOK'
  BY <1>23, CycleConstants DEF AtMostOne, FanInClosed
<1>24. ASSUME FanOutClosed
      PROVE  TypeOK'
  BY <1>24, CycleConstants DEF AtMostOne, FanOutClosed, M6cClosed
<1>25. ASSUME FanDrain
      PROVE  TypeOK'
  BY <1>25, CycleConstants DEF AtMostOne, FanDrain
<1>26. ASSUME CloseResponses
      PROVE  TypeOK'
  BY <1>26, CycleConstants DEF AtMostOne, CloseResponses, M2cDrained
<1>27. ASSUME RecvM3c
      PROVE  TypeOK'
  BY <1>27, CycleConstants DEF AtMostOne, RecvM3c
<1>28. ASSUME NEW p \in m4c, StoreAndSendM4c(p)
      PROVE  TypeOK'
  BY <1>28, CycleConstants DEF AtMostOne, StoreAndSendM4c, Stored
<1>29. ASSUME EvalTake
      PROVE  TypeOK'
  BY <1>29, CycleConstants DEF AtMostOne, EvalTake
<1>30. ASSUME NEW p \in toEval, EvalSendProposal(p)
      PROVE  TypeOK'
  BY <1>30, CycleConstants DEF AtMostOne, EvalSendProposal, IsNew
<1>31. ASSUME EvalCloseSend
      PROVE  TypeOK'
  BY <1>31, CycleConstants DEF AtMostOne, EvalCloseSend, M4cClosed
<1>32. ASSUME EvalReturn
      PROVE  TypeOK'
  BY <1>32, CycleConstants DEF AtMostOne, EvalReturn, CancelOnError, EvalFailed
<1>33. ASSUME CloseM5c
      PROVE  TypeOK'
  BY <1>33, CycleConstants DEF AtMostOne, CloseM5c
<1>34. ASSUME AddToPending
      PROVE  TypeOK'
  <2>1. Cached(batch5) \subseteq Proposals
    BY DEF Cached
  <2>2. pended' \subseteq Proposals /\ unpended' \subseteq Proposals
    BY <1>34, <2>1, Zenon DEF AddToPending
  <2>3. m6c' \subseteq Ids /\ batch5' \subseteq Ids /\ succeeded' \in BOOLEAN
    BY <1>34, Zenon DEF AddToPending
  <2> QED
    BY <1>34, <2>2, <2>3 DEF AddToPending, AtMostOne
<1>35. ASSUME PendingDone
      PROVE  TypeOK'
  BY <1>35, CycleConstants DEF AtMostOne, PendingDone, M5cClosed
<1>36. ASSUME CloseM6c
      PROVE  TypeOK'
  BY <1>36, CycleConstants DEF AtMostOne, CloseM6c
<1>37. ASSUME CloseM2c
      PROVE  TypeOK'
  BY <1>37, CycleConstants DEF AtMostOne, CloseM2c, CutoffAtSelect
<1>38. ASSUME EvalStart
      PROVE  TypeOK'
  BY <1>38, CycleConstants DEF AtMostOne, EvalStart
<1>39. ASSUME EvalStartFails
      PROVE  TypeOK'
  BY <1>39, CycleConstants DEF AtMostOne, EvalStartFails
<1>40. ASSUME EvalRecvEnd
      PROVE  TypeOK'
  BY <1>40, CycleConstants DEF AtMostOne, EvalRecvEnd
<1>41. ASSUME NEW i \in Ids, EvalRecvId(i)
      PROVE  TypeOK'
  BY <1>41, CycleConstants DEF AtMostOne, EvalRecvId, Expected
<1>42. ASSUME UNCHANGED vars
      PROVE  TypeOK'
  BY <1>42 DEF vars, AtMostOne
<1> HIDE DEF TypeOK
<1> QED
  BY <1>1, <1>2, <1>3, <1>4, <1>5, <1>6, <1>7, <1>8, <1>9, <1>10, <1>11, <1>12,
     <1>13, <1>14, <1>15, <1>16, <1>17, <1>18, <1>19, <1>20, <1>21, <1>22,
     <1>23, <1>24, <1>25, <1>26, <1>27, <1>28, <1>29, <1>30, <1>31, <1>32,
     <1>33, <1>34, <1>35, <1>36, <1>37, <1>38, <1>39, <1>40, <1>41, <1>42,
     Zenon DEF Next, RunCycle, Handler, Receiver, Fan, Memo, EvalClient,
     PendingRelease

\* What each group of actions leaves alone.
LEMMA RunCycleFrame ==
  ASSUME RunCycle
  PROVE  UNCHANGED <<handler, signal, returned, gone, receiver, proposed, m1c,
                     m2c, m2cClosed, pipe>>
<1>1. CASE CloseRegistration
  BY <1>1, Zenon DEF CloseRegistration, batches, callVars, evalVars, fanVars, inVars,
     memoVars, pipe, poolVars
<1>2. CASE AllCallersDone
  BY <1>2, Zenon DEF AllCallersDone, batches, callVars, evalVars, fanVars, inVars,
     memoVars, pipe, poolVars
<1>3. CASE AllProposalsSent
  BY <1>3, Zenon DEF AllProposalsSent, batches, callVars, evalVars, fanVars, memoVars,
     outer, pipe, poolVars
<1>4. CASE TimerFires
  BY <1>4, Zenon DEF TimerFires, Cutoff, batches, evalVars, fanVars, memoVars, pipe,
     poolVars
<1>5. CASE StopTimer
  BY <1>5, Zenon DEF StopTimer, batches, callVars, evalVars, fanVars, inVars,
     memoVars, pipe, poolVars
<1>6. CASE EndCycle
  BY <1>6, Zenon DEF EndCycle, batches, callVars, evalVars, fanVars, inVars, memoVars,
     pipe, poolVars
<1> QED
  BY <1>1, <1>2, <1>3, <1>4, <1>5, <1>6, Zenon DEF RunCycle

\* What the handler of a Synchronize call leaves alone.
LEMMA HandlerFrame ==
  ASSUME NEW c \in Calls, Handler(c)
  PROVE  UNCHANGED <<runVars, cycleErr, gone, inVars, fanVars, memoVars,
                     evalVars, poolVars, batch4, batch5>>
<1>1. CASE SendStartMmfs(c)
  BY <1>1, Zenon DEF SendStartMmfs, LeaveLoop, batches, evalVars, fanVars, inVars,
     memoVars, pipe, poolVars, runVars
<1>2. CASE SendMatches(c)
  BY <1>2, Zenon DEF SendMatches, LeaveLoop, evalVars, fanVars, inVars, memoVars,
     poolVars, runVars
<1>3. CASE ResponsesClosed(c)
  BY <1>3, Zenon DEF ResponsesClosed, batches, evalVars, fanVars, inVars, memoVars,
     pipe, poolVars, runVars
<1>4. CASE SendCancelMmfs(c)
  BY <1>4, Zenon DEF SendCancelMmfs, LeaveLoop, batches, evalVars, fanVars, inVars,
     memoVars, pipe, poolVars, runVars
<1>5. CASE HandlerDone(c)
  BY <1>5, Zenon DEF HandlerDone, LeaveLoop, batches, evalVars, fanVars, inVars,
     memoVars, pipe, poolVars, runVars
<1>6. CASE DrainReturn(c)
  BY <1>6, Zenon DEF DrainReturn, evalVars, fanVars, inVars, memoVars, poolVars,
     runVars
<1> QED
  BY <1>1, <1>2, <1>3, <1>4, <1>5, <1>6, Zenon DEF Handler

\* What the goroutine that receives a call's proposals leaves alone.
LEMMA ReceiverFrame ==
  ASSUME NEW c \in Calls, Receiver(c)
  PROVE  UNCHANGED <<outer, proposed, cutoffClosed, m2cClosed, pipe>>
<1>1. CASE RecvError(c)
  BY <1>1, Zenon DEF RecvError, ReceiverDone, batches, callVars, evalVars, fanVars,
     memoVars, outer, pipe, poolVars, runVars
<1>2. CASE SendM1c(c)
  BY <1>2, Zenon DEF SendM1c, batches, callVars, evalVars, fanVars, memoVars, outer,
     pipe, poolVars, runVars
<1>3. CASE DropM1c(c)
  BY <1>3, Zenon DEF DropM1c, batches, callVars, evalVars, fanVars, memoVars, outer,
     pipe, poolVars, runVars
<1> QED
  BY <1>1, <1>2, <1>3, Zenon DEF Receiver

\* What fanInFanOut leaves alone.
LEMMA FanFrame ==
  ASSUME Fan
  PROVE  UNCHANGED <<outer, receiver, proposed, m1c, cutoffClosed, m2cClosed,
                     memoVars, evalVars, pendingPc, succeeded, pended,
                     unpended, batch4, batch5>>
<1>1. CASE \E p \in m2c : FanIn(p)
  BY <1>1, Zenon DEF FanIn, batches, callVars, evalVars, memoVars, outer, poolVars,
     runVars
<1>2. CASE \E i \in m6c : FanOut(i)
  BY <1>2, Zenon
     DEF FanOut, callVars, evalVars, inVars, memoVars, outer, runVars
<1>3. CASE FanInClosed
  BY <1>3, Zenon DEF FanInClosed, batches, callVars, evalVars, inVars, memoVars,
     outer, poolVars, runVars
<1>4. CASE FanOutClosed
  BY <1>4, Zenon DEF FanOutClosed, batches, callVars, evalVars, inVars, memoVars,
     outer, poolVars, runVars
<1>5. CASE FanDrain
  BY <1>5, Zenon DEF FanDrain, batches, callVars, evalVars, memoVars, outer, pipe,
     poolVars, runVars
<1>6. CASE CloseResponses
  BY <1>6, Zenon DEF CloseResponses, batches, callVars, evalVars, inVars, memoVars,
     outer, poolVars, runVars
<1> QED
  BY <1>1, <1>2, <1>3, <1>4, <1>5, <1>6, Zenon DEF Fan

\* What cacheMatchIDToTicketIDs leaves alone.
LEMMA MemoFrame ==
  ASSUME Memo
  PROVE  UNCHANGED <<outer, inVars, fan, m7cMap, m3cClosed, m7cClosed,
                     evalVars, poolVars, batch5, batch7>>
<1>1. CASE RecvM3c
  BY <1>1, Zenon DEF RecvM3c, batches, callVars, evalVars, inVars, outer, poolVars,
     runVars
<1>2. CASE \E p \in m4c : StoreAndSendM4c(p)
  BY <1>2, Zenon DEF StoreAndSendM4c, callVars, evalVars, fanVars, inVars, outer,
     poolVars, runVars
<1> QED
  BY <1>1, <1>2, Zenon DEF Memo

\* What wrapEvaluator and the evaluator client leave alone.
LEMMA EvalClientFrame ==
  ASSUME EvalClient
  PROVE  UNCHANGED <<runVars, callVars, inVars, fanVars, memoVars, poolVars,
                     batch5, batch7>>
<1>1. CASE EvalTake
  BY <1>1, Zenon DEF EvalTake, callVars, fanVars, inVars, memoVars, outer, poolVars,
     runVars
<1>2. CASE \E p \in toEval : EvalSendProposal(p)
  BY <1>2, Zenon DEF EvalSendProposal, batches, callVars, fanVars, inVars, memoVars,
     outer, poolVars, runVars
<1>3. CASE EvalCloseSend
  BY <1>3, Zenon DEF EvalCloseSend, batches, callVars, fanVars, inVars, memoVars,
     outer, poolVars, runVars
<1>4. CASE EvalReturn
  BY <1>4, Zenon DEF EvalReturn, batches, callVars, fanVars, inVars, memoVars,
     poolVars, runVars
<1>5. CASE CloseM5c
  BY <1>5, Zenon DEF CloseM5c, batches, callVars, fanVars, inVars, memoVars, outer,
     poolVars, runVars
<1> QED
  BY <1>1, <1>2, <1>3, <1>4, <1>5, Zenon DEF EvalClient

\* What addMatchesToPendingRelease leaves alone.
LEMMA PendingReleaseFrame ==
  ASSUME PendingRelease
  PROVE  UNCHANGED <<runVars, callVars, inVars, fanVars, memoVars, evalVars,
                     batch4, batch7>>
<1>1. CASE AddToPending
  BY <1>1, Zenon DEF AddToPending, callVars, evalVars, fanVars, inVars, memoVars,
     outer, runVars
<1>2. CASE PendingDone
  BY <1>2, Zenon DEF PendingDone, batches, callVars, evalVars, fanVars, inVars,
     memoVars, runVars
<1>3. CASE CloseM6c
  BY <1>3, Zenon DEF CloseM6c, batches, callVars, evalVars, fanVars, inVars, memoVars,
     outer, runVars
<1> QED
  BY <1>1, <1>2, <1>3, Zenon DEF PendingRelease

\* StageOrder is inductive: every stage is closed by the end of the one before.
LEMMA StageOrderStep ==
  TypeOK /\ StageOrder /\ [Next]_vars => StageOrder'
<1> SUFFICES ASSUME TypeOK, StageOrder
             PROVE  [Next]_vars => StageOrder'
  BY Zenon
<1> DEFINE used == <<timer, phase, cutoffClosed, m2cClosed, m3cClosed, m2c,
                      fan, pendingPc, m7cClosed, registered, evalPc, batch5,
                      m6c, evalSend, evalRecv>>
<1>1. used' = used => StageOrder'
  BY DEF StageOrder
<1>2. ASSUME NEW c \in Calls, StartCycle(c)
      PROVE  StageOrder'
  BY <1>2, Zenon DEF StageOrder, StartCycle, inVars, pipe, fanVars, evalVars,
     poolVars, batches
<1>3. ASSUME NEW c \in Calls, Register(c)
      PROVE  StageOrder'
  BY <1>3, Zenon DEF StageOrder, Register, pipe, fanVars, evalVars, poolVars, batches
<1>4. ASSUME NEW c \in Calls, CancelStream(c)
      PROVE  StageOrder'
  BY <1>4, <1>1, Zenon DEF CancelStream, runVars, inVars, pipe, fanVars, evalVars,
     poolVars, batches
<1>5. ASSUME NEW c \in Calls, RecvEOF(c)
      PROVE  StageOrder'
  BY <1>5, <1>1, Zenon DEF RecvEOF, ReceiverDone, outer, pipe, runVars, fanVars,
     evalVars, poolVars, batches
<1>6. ASSUME NEW c \in Calls, NEW p \in Proposals, RecvProposal(c, p)
      PROVE  StageOrder'
  BY <1>6, <1>1, Zenon DEF RecvProposal, outer, pipe, runVars, fanVars, evalVars,
     poolVars, batches
<1>7. ASSUME CloseRegistration
      PROVE  StageOrder'
  BY <1>7, Zenon DEF StageOrder, CloseRegistration, inVars, pipe, fanVars, evalVars,
     poolVars, batches
<1>8. ASSUME AllCallersDone
      PROVE  StageOrder'
  BY <1>8, <1>1, Zenon DEF AllCallersDone, runVars, inVars, pipe, fanVars, evalVars,
     poolVars, batches
<1>9. ASSUME AllProposalsSent
      PROVE  StageOrder'
  BY <1>9, Zenon DEF StageOrder, AllProposalsSent, AllM1cSent, outer, pipe, runVars,
     fanVars, evalVars, poolVars, batches
<1>10. ASSUME TimerFires
      PROVE  StageOrder'
  BY <1>10, Zenon DEF StageOrder, TimerFires, Cutoff, pipe, fanVars, evalVars,
     poolVars, batches
<1>11. ASSUME StopTimer
      PROVE  StageOrder'
  BY <1>11, Zenon DEF StageOrder, StopTimer, ClosedOnCycleEnd, inVars, pipe, fanVars,
     evalVars, poolVars, batches
<1>12. ASSUME EndCycle
      PROVE  StageOrder'
  BY <1>12, Zenon DEF StageOrder, EndCycle, inVars, pipe, fanVars, evalVars, poolVars,
     batches
<1>13. ASSUME NEW c \in Calls, Handler(c)
      PROVE  StageOrder'
  BY <1>13, <1>1, HandlerFrame, Zenon DEF runVars, inVars, fanVars, evalVars, poolVars
<1>14. ASSUME NEW c \in Calls, RecvError(c)
      PROVE  StageOrder'
  BY <1>14, <1>1, Zenon DEF RecvError, ReceiverDone, outer, pipe, runVars, fanVars,
     evalVars, poolVars, batches
<1>15. ASSUME NEW c \in Calls, SendM1c(c)
      PROVE  StageOrder'
  BY <1>15, Zenon DEF StageOrder, SendM1c, CutoffAtSelect, outer, pipe, runVars,
     fanVars, evalVars, poolVars, batches
<1>16. ASSUME NEW c \in Calls, DropM1c(c)
      PROVE  StageOrder'
  BY <1>16, <1>1, Zenon DEF DropM1c, outer, pipe, runVars, fanVars, evalVars,
     poolVars, batches
<1>17. ASSUME NEW p \in m2c, FanIn(p)
      PROVE  StageOrder'
  BY <1>17, Zenon DEF StageOrder, FanIn, evalVars, poolVars, batches, outer, runVars
<1>18. ASSUME NEW i \in m6c, FanOut(i)
      PROVE  StageOrder'
  BY <1>18, Zenon DEF StageOrder, FanOut, Destination, inVars, fanVars, evalVars,
     outer, runVars
<1>19. ASSUME FanInClosed
      PROVE  StageOrder'
  BY <1>19, Zenon DEF StageOrder, FanInClosed, inVars, evalVars, poolVars, batches,
     outer, runVars
<1>20. ASSUME FanOutClosed
      PROVE  StageOrder'
  BY <1>20, Zenon DEF StageOrder, FanOutClosed, M6cClosed, inVars, evalVars, poolVars,
     batches, outer, runVars
<1>21. ASSUME FanDrain
      PROVE  StageOrder'
  BY <1>21, Zenon DEF StageOrder, FanDrain, outer, pipe, runVars, fanVars, evalVars,
     poolVars, batches
<1>22. ASSUME CloseResponses
      PROVE  StageOrder'
  BY <1>22, Zenon DEF StageOrder, CloseResponses, M2cDrained, inVars, evalVars,
     poolVars, batches, outer, runVars
<1>23. ASSUME Memo
      PROVE  StageOrder'
  BY <1>23, <1>1, MemoFrame, Zenon DEF inVars, evalVars, poolVars, outer, runVars
<1>24. ASSUME EvalTake
      PROVE  StageOrder'
  BY <1>24, <1>1, Zenon DEF EvalTake, inVars, fanVars, poolVars, outer, runVars
<1>25. ASSUME NEW p \in toEval, EvalSendProposal(p)
      PROVE  StageOrder'
  BY <1>25, Zenon DEF StageOrder, EvalSendProposal, IsNew, inVars, fanVars, poolVars,
     batches, outer, runVars
<1>26. ASSUME EvalCloseSend
      PROVE  StageOrder'
  BY <1>26, Zenon DEF StageOrder, EvalCloseSend, M4cClosed, inVars, fanVars, poolVars,
     batches, outer, runVars
<1>27. ASSUME EvalReturn
      PROVE  StageOrder'
  BY <1>27, Zenon DEF StageOrder, EvalReturn, CancelOnError, EvalFailed, runVars,
     inVars, fanVars, poolVars, batches
<1>28. ASSUME CloseM5c
      PROVE  StageOrder'
  BY <1>28, Zenon DEF StageOrder, CloseM5c, inVars, fanVars, poolVars, batches, outer,
     runVars
<1>29. ASSUME AddToPending
      PROVE  StageOrder'
  BY <1>29, Zenon DEF StageOrder, AddToPending, Cached, inVars, fanVars, evalVars,
     outer, runVars
<1>30. ASSUME PendingDone
      PROVE  StageOrder'
  BY <1>30, Zenon DEF StageOrder, PendingDone, M5cClosed, runVars, inVars, fanVars,
     evalVars, batches
<1>31. ASSUME CloseM6c
      PROVE  StageOrder'
  BY <1>31, Zenon DEF StageOrder, CloseM6c, inVars, fanVars, evalVars, batches, outer,
     runVars
<1>32. ASSUME CloseM2c
      PROVE  StageOrder'
  BY <1>32, Zenon DEF StageOrder, CloseM2c, CutoffAtSelect, outer, pipe, runVars,
     fanVars, evalVars, poolVars, batches
<1>33. ASSUME EvalStart
      PROVE  StageOrder'
  BY <1>33, Zenon DEF StageOrder, EvalStart, inVars, fanVars, poolVars, batches,
     outer, runVars
<1>34. ASSUME EvalStartFails
      PROVE  StageOrder'
  BY <1>34, Zenon DEF StageOrder, EvalStartFails, runVars, inVars, fanVars, poolVars,
     batches
<1>35. ASSUME EvalRecvEnd
      PROVE  StageOrder'
  BY <1>35, Zenon DEF StageOrder, EvalRecvEnd, inVars, fanVars, poolVars, batches,
     outer, runVars
<1>36. ASSUME NEW i \in Ids, EvalRecvId(i)
      PROVE  StageOrder'
  BY <1>36, Zenon DEF StageOrder, EvalRecvId, Expected, inVars, fanVars, poolVars,
     outer, runVars
<1>37. ASSUME UNCHANGED vars
      PROVE  StageOrder'
  BY <1>37, <1>1, Zenon DEF vars, outer, inVars, pipe, runVars, fanVars, evalVars,
     poolVars, batches
<1> QED
  BY <1>2, <1>3, <1>4, <1>5, <1>6, <1>7, <1>8, <1>9, <1>10, <1>11, <1>12,
     <1>13, <1>14, <1>15, <1>16, <1>17, <1>18, <1>19, <1>20, <1>21, <1>22,
     <1>23, <1>24, <1>25, <1>26, <1>27, <1>28, <1>29, <1>30, <1>31, <1>32,
     <1>33, <1>34, <1>35, <1>36, <1>37 DEF Next, RunCycle, Receiver, Fan,
     EvalClient, PendingRelease

\* ErrorFirst is inductive relative to StageOrder.
LEMMA ErrorFirstStep ==
  TypeOK /\ StageOrder /\ ErrorFirst /\ [Next]_vars => ErrorFirst'
<1> SUFFICES ASSUME TypeOK, StageOrder, ErrorFirst
             PROVE  [Next]_vars => ErrorFirst'
  BY Zenon
<1> DEFINE used == <<evalPc, evalSend, evalRecv, cycleErr, pendingPc, unpended,
                      succeeded, handler, fan, batch7>>
<1>handler. handler \in [Calls -> {"idle", "registered", "loop", "drain", "ok", "error"}]
  BY Zenon DEF TypeOK, CallTypes
<1>batch7. batch7 \in [Calls -> SUBSET Ids]
  BY Zenon DEF TypeOK, BatchTypes
<1>1. used' = used => ErrorFirst'
  BY DEF ErrorFirst, EvalFailed
<1>2. ASSUME NEW c \in Calls, StartCycle(c)
      PROVE  ErrorFirst'
  BY <1>2, <1>1, Zenon DEF StartCycle, callVars, pipe, fanVars, evalVars, poolVars,
     batches
<1>3. ASSUME NEW c \in Calls, Register(c)
      PROVE  ErrorFirst'
  BY <1>3, <1>handler, Zenon DEF StageOrder, ErrorFirst, EvalFailed, Register, pipe,
     fanVars, evalVars, poolVars, batches
<1>4. ASSUME NEW c \in Calls, CancelStream(c)
      PROVE  ErrorFirst'
  BY <1>4, <1>1, Zenon DEF CancelStream, pipe, fanVars, evalVars, poolVars, batches
<1>5. ASSUME NEW c \in Calls, RecvEOF(c)
      PROVE  ErrorFirst'
  BY <1>5, <1>1, Zenon DEF RecvEOF, ReceiverDone, outer, pipe, callVars, fanVars,
     evalVars, poolVars, batches
<1>6. ASSUME NEW c \in Calls, NEW p \in Proposals, RecvProposal(c, p)
      PROVE  ErrorFirst'
  BY <1>6, <1>1, Zenon DEF RecvProposal, outer, pipe, callVars, fanVars, evalVars,
     poolVars, batches
<1>7. ASSUME CloseRegistration
      PROVE  ErrorFirst'
  BY <1>7, <1>1, Zenon DEF CloseRegistration, callVars, pipe, fanVars, evalVars,
     poolVars, batches
<1>8. ASSUME AllCallersDone
      PROVE  ErrorFirst'
  BY <1>8, Zenon DEF StageOrder, ErrorFirst, EvalFailed, AllCallersDone, callVars,
     pipe, fanVars, evalVars, poolVars, batches
<1>9. ASSUME AllProposalsSent
      PROVE  ErrorFirst'
  BY <1>9, <1>1, Zenon DEF AllProposalsSent, outer, pipe, callVars, fanVars, evalVars,
     poolVars, batches
<1>10. ASSUME TimerFires
      PROVE  ErrorFirst'
  BY <1>10, <1>1, Zenon DEF TimerFires, Cutoff, pipe, fanVars, evalVars, poolVars,
     batches
<1>11. ASSUME StopTimer
      PROVE  ErrorFirst'
  BY <1>11, <1>1, Zenon DEF StopTimer, callVars, pipe, fanVars, evalVars, poolVars,
     batches
<1>12. ASSUME EndCycle
      PROVE  ErrorFirst'
  BY <1>12, <1>1, Zenon DEF EndCycle, callVars, pipe, fanVars, evalVars, poolVars,
     batches
<1>13. ASSUME NEW c \in Calls, SendStartMmfs(c)
      PROVE  ErrorFirst'
  BY <1>13, <1>handler, Zenon DEF StageOrder, ErrorFirst, EvalFailed, SendStartMmfs,
     LeaveLoop, pipe, fanVars, evalVars, poolVars, batches
<1>14. ASSUME NEW c \in Calls, SendMatches(c)
      PROVE  ErrorFirst'
  BY <1>14, <1>handler, <1>batch7, Zenon DEF StageOrder, ErrorFirst, EvalFailed,
     SendMatches, LeaveLoop, fanVars, evalVars, poolVars
<1>15. ASSUME NEW c \in Calls, ResponsesClosed(c)
      PROVE  ErrorFirst'
  BY <1>15, <1>handler, Zenon DEF StageOrder, ErrorFirst, EvalFailed, ResponsesClosed,
     M6cBufferClosed, pipe, fanVars, evalVars, poolVars, batches
<1>16. ASSUME NEW c \in Calls, SendCancelMmfs(c)
      PROVE  ErrorFirst'
  BY <1>16, <1>handler, Zenon DEF StageOrder, ErrorFirst, EvalFailed, SendCancelMmfs,
     LeaveLoop, pipe, fanVars, evalVars, poolVars, batches
<1>17. ASSUME NEW c \in Calls, HandlerDone(c)
      PROVE  ErrorFirst'
  BY <1>17, <1>handler, Zenon DEF StageOrder, ErrorFirst, EvalFailed, HandlerDone,
     LeaveLoop, pipe, fanVars, evalVars, poolVars, batches
<1>18. ASSUME NEW c \in Calls, DrainReturn(c)
      PROVE  ErrorFirst'
  BY <1>18, <1>handler, <1>batch7, Zenon DEF StageOrder, ErrorFirst, EvalFailed,
     DrainReturn, fanVars, evalVars, poolVars
<1>19. ASSUME NEW c \in Calls, Receiver(c)
      PROVE  ErrorFirst'
  BY <1>19, <1>1, ReceiverFrame, Zenon DEF outer, pipe, callVars, fanVars, evalVars,
     poolVars, batches
<1>20. ASSUME NEW p \in m2c, FanIn(p)
      PROVE  ErrorFirst'
  BY <1>20, <1>1, Zenon DEF FanIn, evalVars, poolVars, batches, outer, callVars
<1>21. ASSUME NEW i \in m6c, FanOut(i)
      PROVE  ErrorFirst'
  BY <1>21, <1>batch7, Zenon DEF StageOrder, ErrorFirst, EvalFailed, FanOut,
     Destination, fanVars, evalVars, outer, callVars
<1>22. ASSUME FanInClosed
      PROVE  ErrorFirst'
  BY <1>22, <1>1, Zenon DEF FanInClosed, evalVars, poolVars, batches, outer, callVars
<1>23. ASSUME FanOutClosed
      PROVE  ErrorFirst'
  BY <1>23, Zenon DEF StageOrder, ErrorFirst, EvalFailed, FanOutClosed, M6cClosed,
     evalVars, poolVars, batches, outer, callVars
<1>24. ASSUME FanDrain
      PROVE  ErrorFirst'
  BY <1>24, <1>1, Zenon DEF FanDrain, outer, pipe, callVars, fanVars, evalVars,
     poolVars, batches
<1>25. ASSUME CloseResponses
      PROVE  ErrorFirst'
  BY <1>25, Zenon DEF StageOrder, ErrorFirst, EvalFailed, CloseResponses, M2cDrained,
     evalVars, poolVars, batches, outer, callVars
<1>26. ASSUME Memo
      PROVE  ErrorFirst'
  BY <1>26, <1>1, MemoFrame, Zenon DEF evalVars, poolVars, outer, callVars
<1>27. ASSUME EvalTake
      PROVE  ErrorFirst'
  BY <1>27, <1>1, Zenon DEF EvalTake, fanVars, poolVars, outer, callVars
<1>28. ASSUME NEW p \in toEval, EvalSendProposal(p)
      PROVE  ErrorFirst'
  BY <1>28, Zenon DEF StageOrder, ErrorFirst, EvalFailed, EvalSendProposal, IsNew,
     fanVars, poolVars, batches, outer, callVars
<1>29. ASSUME EvalCloseSend
      PROVE  ErrorFirst'
  BY <1>29, Zenon DEF StageOrder, ErrorFirst, EvalFailed, EvalCloseSend, M4cClosed,
     fanVars, poolVars, batches, outer, callVars
<1>30. ASSUME EvalReturn
      PROVE  ErrorFirst'
  BY <1>30, Zenon DEF StageOrder, ErrorFirst, EvalFailed, EvalReturn,
     CancelOnError, callVars, fanVars, poolVars, batches
<1>31. ASSUME CloseM5c
      PROVE  ErrorFirst'
  BY <1>31, Zenon DEF StageOrder, ErrorFirst, EvalFailed, CloseM5c, fanVars, poolVars,
     batches, outer, callVars
<1>32. ASSUME AddToPending
      PROVE  ErrorFirst'
  BY <1>32, Zenon DEF StageOrder, ErrorFirst, EvalFailed, AddToPending, Cached,
     fanVars, evalVars, outer, callVars
<1>33. ASSUME PendingDone
      PROVE  ErrorFirst'
  BY <1>33, Zenon DEF StageOrder, ErrorFirst, EvalFailed, PendingDone,
     M5cClosed, callVars, fanVars, evalVars, batches
<1>34. ASSUME CloseM6c
      PROVE  ErrorFirst'
  BY <1>34, Zenon DEF StageOrder, ErrorFirst, EvalFailed, CloseM6c, fanVars, evalVars,
     batches, outer, callVars
<1>35. ASSUME CloseM2c
      PROVE  ErrorFirst'
  BY <1>35, <1>1, Zenon DEF CloseM2c, outer, pipe, callVars, fanVars, evalVars,
     poolVars, batches
<1>36. ASSUME EvalStart
      PROVE  ErrorFirst'
  BY <1>36, Zenon DEF StageOrder, ErrorFirst, EvalFailed, EvalStart, fanVars,
     poolVars, batches, outer, callVars
<1>37. ASSUME EvalStartFails
      PROVE  ErrorFirst'
  BY <1>37, Zenon DEF StageOrder, ErrorFirst, EvalFailed, EvalStartFails, callVars,
     fanVars, poolVars, batches
<1>38. ASSUME EvalRecvEnd
      PROVE  ErrorFirst'
  BY <1>38, Zenon DEF StageOrder, ErrorFirst, EvalFailed, EvalRecvEnd, fanVars,
     poolVars, batches, outer, callVars
<1>39. ASSUME NEW i \in Ids, EvalRecvId(i)
      PROVE  ErrorFirst'
  BY <1>39, Zenon DEF StageOrder, ErrorFirst, EvalFailed, EvalRecvId, Expected,
     fanVars, poolVars, outer, callVars
<1>40. ASSUME UNCHANGED vars
      PROVE  ErrorFirst'
  BY <1>40, <1>1, Zenon DEF vars, outer, pipe, callVars, fanVars, evalVars, poolVars,
     batches
<1> QED
  BY <1>2, <1>3, <1>4, <1>5, <1>6, <1>7, <1>8, <1>9, <1>10, <1>11, <1>12,
     <1>13, <1>14, <1>15, <1>16, <1>17, <1>18, <1>19, <1>20, <1>21, <1>22,
     <1>23, <1>24, <1>25, <1>26, <1>27, <1>28, <1>29, <1>30, <1>31, <1>32,
     <1>33, <1>34, <1>35, <1>36, <1>37, <1>38, <1>39, <1>40 DEF Next, RunCycle,
     Handler, Fan, EvalClient, PendingRelease

-----------------------------------------------------------------------------
\* The initial state satisfies every inductive invariant.
LEMMA InitInvs ==
  ASSUME Init
  PROVE  /\ TypeOK /\ StageOrder /\ ErrorFirst /\ CacheInv /\ RouteInv
         /\ AcceptedInv /\ WindowInv /\ ProposedInv
<1> USE CycleConstants DEF Init
<1>1. TypeOK
  BY Zenon DEF TypeOK, RunTypes, CallTypes, InTypes, FanTypes, MemoTypes,
     EvalTypes, PoolTypes, BatchTypes, AtMostOne
<1>2. StageOrder /\ ErrorFirst
  BY Zenon DEF StageOrder, ErrorFirst, EvalFailed
<1>3. CacheInv
  BY Zenon DEF CacheInv
<1>4. RouteInv /\ AcceptedInv
  BY Zenon DEF RouteInv, AcceptedInv
<1>5. WindowInv /\ ProposedInv
  BY Zenon DEF WindowInv, ProposedInv, AllM1cSent
<1> QED
  BY <1>1, <1>2, <1>3, <1>4, <1>5, Zenon

\* The variables of the cycle keep their types, and the unbuffered channels hold
\* one value at most, whatever the goroutines, backends and evaluator do.
THEOREM TypeCorrect == Spec => []TypeOK
<1>1. Init => TypeOK
  BY InitInvs, Zenon
<1>2. TypeOK /\ [Next]_vars => TypeOK'
  BY TypeStep, Zenon
<1> QED
  BY <1>1, <1>2, PTL DEF Spec

\* Every behaviour keeps the stages in order and reports errors first.
LEMMA OrderCorrect == Spec => [](TypeOK /\ StageOrder /\ ErrorFirst)
<1> DEFINE Inv == TypeOK /\ StageOrder /\ ErrorFirst
<1>1. Init => Inv
  BY InitInvs, Zenon
<1>2. Inv /\ [Next]_vars => Inv'
  BY TypeStep, StageOrderStep, ErrorFirstStep, Zenon
<1> QED
  BY <1>1, <1>2, PTL DEF Spec

\* fanInFanOut closes the response channel of every registered call: it reads the
\* registrations only after the registration period is over.
THEOREM ResponsesClosedForAll == Spec => []AllResponsesClosed
<1>1. StageOrder => AllResponsesClosed
  BY Zenon DEF StageOrder, AllResponsesClosed
<1> QED
  BY <1>1, OrderCorrect, PTL

\* A Synchronize call that returns nil belongs to a cycle whose evaluation did not
\* fail and in which some store call succeeded, if any was made.
THEOREM OkIsEvaluated == Spec => []OkMeansEvaluated
<1>1. ErrorFirst => OkMeansEvaluated
  BY Zenon DEF ErrorFirst, OkMeansEvaluated
<1> QED
  BY <1>1, OrderCorrect, PTL

-----------------------------------------------------------------------------
(* The way of the proposals to the evaluator and when the collection window *)
(* may close, and the way of the accepted matches back to their calls.      *)

\* WindowInv is inductive relative to StageOrder.
LEMMA WindowInvStep ==
  TypeOK /\ StageOrder /\ WindowInv /\ [Next]_vars => WindowInv'
<1> SUFFICES ASSUME TypeOK, StageOrder, WindowInv
             PROVE  [Next]_vars => WindowInv'
  BY Zenon
<1> DEFINE used == <<m1c, receiver, registered, cutoffClosed, timer, evalSend,
                      m3cClosed, m3c, m4c, batch4, toEval>>
<1>m1c. m1c \in [Calls -> SUBSET Proposals]
  BY Zenon DEF TypeOK, InTypes
<1>receiver. receiver \in [Calls -> {"off", "recv", "done"}]
  BY Zenon DEF TypeOK, InTypes
<1>1. used' = used => WindowInv'
  BY DEF WindowInv, AllM1cSent
<1>2. ASSUME NEW c \in Calls, StartCycle(c)
      PROVE  WindowInv'
  BY <1>2, <1>1, Zenon DEF StartCycle, inVars, pipe, fanVars, memoVars, evalVars,
     batches
<1>3. ASSUME NEW c \in Calls, Register(c)
      PROVE  WindowInv'
  BY <1>3, <1>receiver, Zenon DEF StageOrder, WindowInv, AllM1cSent, Register, pipe,
     fanVars, memoVars, evalVars, batches
<1>4. ASSUME NEW c \in Calls, CancelStream(c)
      PROVE  WindowInv'
  BY <1>4, <1>1, Zenon DEF CancelStream, runVars, inVars, pipe, fanVars, memoVars,
     evalVars, batches
<1>5. ASSUME NEW c \in Calls, RecvEOF(c)
      PROVE  WindowInv'
  BY <1>5, <1>receiver, Zenon DEF StageOrder, WindowInv, AllM1cSent, RecvEOF,
     ReceiverDone, outer, pipe, runVars, fanVars, memoVars, evalVars, batches
<1>6. ASSUME NEW c \in Calls, NEW p \in Proposals, RecvProposal(c, p)
      PROVE  WindowInv'
  BY <1>6, <1>m1c, Zenon DEF StageOrder, WindowInv, AllM1cSent, RecvProposal, outer,
     pipe, runVars, fanVars, memoVars, evalVars, batches
<1>7. ASSUME CloseRegistration
      PROVE  WindowInv'
  BY <1>7, Zenon DEF StageOrder, WindowInv, AllM1cSent, CloseRegistration, inVars,
     pipe, fanVars, memoVars, evalVars, batches
<1>8. ASSUME AllCallersDone
      PROVE  WindowInv'
  BY <1>8, <1>1, Zenon DEF AllCallersDone, runVars, inVars, pipe, fanVars, memoVars,
     evalVars, batches
<1>9. ASSUME AllProposalsSent
      PROVE  WindowInv'
  BY <1>9, Zenon DEF StageOrder, WindowInv, AllM1cSent, AllProposalsSent, outer, pipe,
     runVars, fanVars, memoVars, evalVars, batches
<1>10. ASSUME TimerFires
      PROVE  WindowInv'
  BY <1>10, Zenon DEF StageOrder, WindowInv, AllM1cSent, TimerFires, Cutoff, pipe,
     fanVars, memoVars, evalVars, batches
<1>11. ASSUME StopTimer
      PROVE  WindowInv'
  BY <1>11, Zenon DEF StageOrder, WindowInv, AllM1cSent, StopTimer, ClosedOnCycleEnd,
     inVars, pipe, fanVars, memoVars, evalVars, batches
<1>12. ASSUME EndCycle
      PROVE  WindowInv'
  BY <1>12, <1>1, Zenon DEF EndCycle, inVars, pipe, fanVars, memoVars, evalVars,
     batches
<1>13. ASSUME NEW c \in Calls, Handler(c)
      PROVE  WindowInv'
  BY <1>13, <1>1, HandlerFrame, Zenon DEF runVars, inVars, fanVars, memoVars, evalVars
<1>14. ASSUME NEW c \in Calls, RecvError(c)
      PROVE  WindowInv'
  BY <1>14, <1>receiver, Zenon DEF StageOrder, WindowInv, AllM1cSent, RecvError,
     ReceiverDone, outer, pipe, runVars, fanVars, memoVars, evalVars, batches
<1>15. ASSUME NEW c \in Calls, SendM1c(c)
      PROVE  WindowInv'
  BY <1>15, <1>m1c, Zenon DEF StageOrder, WindowInv, AllM1cSent, SendM1c,
     CutoffAtSelect, outer, pipe, runVars, fanVars, memoVars, evalVars, batches
<1>16. ASSUME NEW c \in Calls, DropM1c(c)
      PROVE  WindowInv'
  BY <1>16, <1>m1c, Zenon DEF StageOrder, WindowInv, AllM1cSent, DropM1c, outer, pipe,
     runVars, fanVars, memoVars, evalVars, batches
<1>17. ASSUME NEW p \in m2c, FanIn(p)
      PROVE  WindowInv'
  BY <1>17, Zenon DEF StageOrder, WindowInv, AllM1cSent, FanIn, memoVars, evalVars,
     batches, outer, runVars
<1>18. ASSUME NEW i \in m6c, FanOut(i)
      PROVE  WindowInv'
  BY <1>18, <1>1, Zenon DEF FanOut, inVars, fanVars, memoVars, evalVars, outer,
     runVars
<1>19. ASSUME FanInClosed
      PROVE  WindowInv'
  BY <1>19, Zenon DEF StageOrder, WindowInv, AllM1cSent, FanInClosed, inVars,
     memoVars, evalVars, batches, outer, runVars
<1>20. ASSUME FanOutClosed
      PROVE  WindowInv'
  BY <1>20, <1>1, Zenon DEF FanOutClosed, inVars, memoVars, evalVars, batches, outer,
     runVars
<1>21. ASSUME FanDrain
      PROVE  WindowInv'
  BY <1>21, <1>1, Zenon DEF FanDrain, outer, pipe, runVars, fanVars, memoVars,
     evalVars, batches
<1>22. ASSUME CloseResponses
      PROVE  WindowInv'
  BY <1>22, <1>1, Zenon DEF CloseResponses, inVars, memoVars, evalVars, batches,
     outer, runVars
<1>23. ASSUME RecvM3c
      PROVE  WindowInv'
  BY <1>23, Zenon DEF StageOrder, WindowInv, AllM1cSent, RecvM3c, inVars, evalVars,
     batches, outer, runVars
<1>24. ASSUME NEW p \in m4c, StoreAndSendM4c(p)
      PROVE  WindowInv'
  BY <1>24, Zenon DEF StageOrder, WindowInv, AllM1cSent, StoreAndSendM4c, Stored,
     inVars, fanVars, evalVars, outer, runVars
<1>25. ASSUME EvalTake
      PROVE  WindowInv'
  BY <1>25, Zenon DEF StageOrder, WindowInv, AllM1cSent, EvalTake, inVars, fanVars,
     memoVars, outer, runVars
<1>26. ASSUME NEW p \in toEval, EvalSendProposal(p)
      PROVE  WindowInv'
  BY <1>26, Zenon DEF StageOrder, WindowInv, AllM1cSent, EvalSendProposal, IsNew,
     inVars, fanVars, memoVars, batches, outer, runVars
<1>27. ASSUME EvalCloseSend
      PROVE  WindowInv'
  BY <1>27, Zenon DEF StageOrder, WindowInv, AllM1cSent, EvalCloseSend, M4cClosed,
     inVars, fanVars, memoVars, batches, outer, runVars
<1>28. ASSUME EvalReturn
      PROVE  WindowInv'
  BY <1>28, <1>1, Zenon DEF EvalReturn, runVars, inVars, fanVars, memoVars, batches
<1>29. ASSUME CloseM5c
      PROVE  WindowInv'
  BY <1>29, <1>1, Zenon DEF CloseM5c, inVars, fanVars, memoVars, batches, outer,
     runVars
<1>30. ASSUME PendingRelease
      PROVE  WindowInv'
  BY <1>30, <1>1, PendingReleaseFrame, Zenon DEF runVars, inVars, fanVars, memoVars,
     evalVars
<1>31. ASSUME CloseM2c
      PROVE  WindowInv'
  BY <1>31, <1>1, Zenon DEF CloseM2c, outer, pipe, runVars, fanVars, memoVars,
     evalVars, batches
<1>32. ASSUME EvalStart
      PROVE  WindowInv'
  BY <1>32, <1>1, Zenon DEF EvalStart, inVars, fanVars, memoVars, batches, outer,
     runVars
<1>33. ASSUME EvalStartFails
      PROVE  WindowInv'
  BY <1>33, Zenon DEF StageOrder, WindowInv, AllM1cSent, EvalStartFails, runVars,
     inVars, fanVars, memoVars, batches
<1>34. ASSUME EvalRecvEnd
      PROVE  WindowInv'
  BY <1>34, <1>1, Zenon DEF EvalRecvEnd, inVars, fanVars, memoVars, batches, outer,
     runVars
<1>35. ASSUME NEW i \in Ids, EvalRecvId(i)
      PROVE  WindowInv'
  BY <1>35, <1>1, Zenon DEF EvalRecvId, inVars, fanVars, memoVars, outer, runVars
<1>36. ASSUME UNCHANGED vars
      PROVE  WindowInv'
  BY <1>36, <1>1, Zenon DEF vars, outer, inVars, pipe, runVars, fanVars, memoVars,
     evalVars, batches
<1> QED
  BY <1>2, <1>3, <1>4, <1>5, <1>6, <1>7, <1>8, <1>9, <1>10, <1>11, <1>12,
     <1>13, <1>14, <1>15, <1>16, <1>17, <1>18, <1>19, <1>20, <1>21, <1>22,
     <1>23, <1>24, <1>25, <1>26, <1>27, <1>28, <1>29, <1>30, <1>31, <1>32,
     <1>33, <1>34, <1>35, <1>36 DEF Next, RunCycle, Receiver, Fan, Memo,
     EvalClient

\* A proposal is sent to the evaluator: its id is new to it, and the others stay
\* where they are.
Sent(p) ==
    /\ matchIDs[MatchId[p]] = "absent" /\ matchIDs'[MatchId[p]] # "absent"
    /\ \A q \in Proposals \ {p} : InFlight(q) => InFlight(q)'

\* What a step does to the proposals: they come in at m1c and stay in flight until
\* they are sent, the evaluation fails or the timer drops them.
Onward ==
    /\ proposed \subseteq proposed' /\ proposed' \subseteq Proposals
    /\ \A p \in proposed' \ proposed : InFlight(p)'
    /\ \A p \in proposed : InFlight(p) =>
          InFlight(p)' \/ Sent(p) \/ evalSend' = "failed" \/ timer' = "fired"
    /\ evalSend = "failed" => evalSend' = "failed"
    /\ timer = "fired" => timer' = "fired"
    /\ \A i \in Ids : matchIDs[i] # "absent" => matchIDs'[i] # "absent"

\* No stage loses a proposal, whichever goroutine takes the next step.
LEMMA OnwardStep ==
  TypeOK /\ StageOrder /\ WindowInv /\ [Next]_vars => Onward
<1> SUFFICES ASSUME TypeOK, StageOrder, WindowInv
             PROVE  [Next]_vars => Onward
  BY Zenon
<1> DEFINE used == <<proposed, m1c, m2c, m3c, m4c, batch4, toEval, matchIDs,
                      evalSend, timer>>
<1>m1c. m1c \in [Calls -> SUBSET Proposals]
  BY Zenon DEF TypeOK, InTypes
<1>matchIDs. matchIDs \in [Ids -> {"absent", "sent", "returned"}]
  BY Zenon DEF TypeOK, EvalTypes
<1>sets. /\ proposed \subseteq Proposals
         /\ m2c \subseteq Proposals
         /\ m4c \subseteq Proposals
         /\ toEval \subseteq Proposals
  BY Zenon DEF TypeOK, InTypes, MemoTypes, EvalTypes
<1>one. /\ \A x, y \in m2c : x = y
        /\ \A x, y \in m4c : x = y
  BY Zenon DEF TypeOK, InTypes, MemoTypes, AtMostOne
<1>1. used' = used => Onward
  BY <1>sets, Zenon DEF Onward, InFlight
<1>2. ASSUME NEW c \in Calls, StartCycle(c)
      PROVE  Onward
  BY <1>2, <1>1, Zenon DEF StartCycle, inVars, pipe, fanVars, memoVars, evalVars,
     batches
<1>3. ASSUME NEW c \in Calls, Register(c)
      PROVE  Onward
  BY <1>3, <1>1, Zenon DEF Register, pipe, fanVars, memoVars, evalVars, batches
<1>4. ASSUME NEW c \in Calls, CancelStream(c)
      PROVE  Onward
  BY <1>4, <1>1, Zenon DEF CancelStream, runVars, inVars, pipe, fanVars, memoVars,
     evalVars, batches
<1>5. ASSUME NEW c \in Calls, RecvEOF(c)
      PROVE  Onward
  BY <1>5, <1>1, Zenon DEF RecvEOF, ReceiverDone, outer, pipe, runVars, fanVars,
     memoVars, evalVars, batches
<1>6. ASSUME NEW c \in Calls, NEW p \in Proposals, RecvProposal(c, p)
      PROVE  Onward
  BY <1>6, <1>m1c, <1>sets, CycleConstants, Zenon DEF Onward, InFlight, RecvProposal,
     outer, pipe, runVars, fanVars, memoVars, evalVars, batches
<1>7. ASSUME CloseRegistration
      PROVE  Onward
  BY <1>7, <1>sets, CycleConstants, Zenon DEF StageOrder, Onward, InFlight,
     CloseRegistration, inVars, pipe, fanVars, memoVars, evalVars, batches
<1>8. ASSUME AllCallersDone
      PROVE  Onward
  BY <1>8, <1>1, Zenon DEF AllCallersDone, runVars, inVars, pipe, fanVars, memoVars,
     evalVars, batches
<1>9. ASSUME AllProposalsSent
      PROVE  Onward
  BY <1>9, <1>1, Zenon DEF AllProposalsSent, outer, pipe, runVars, fanVars, memoVars,
     evalVars, batches
<1>10. ASSUME TimerFires
      PROVE  Onward
  BY <1>10, <1>sets, CycleConstants, Zenon DEF Onward, InFlight, TimerFires, Cutoff,
    pipe, fanVars, memoVars, evalVars, batches
<1>11. ASSUME StopTimer
      PROVE  Onward
  BY <1>11, <1>sets, CycleConstants, Zenon DEF Onward, InFlight, StopTimer,
     ClosedOnCycleEnd, inVars, pipe, fanVars, memoVars, evalVars, batches
<1>12. ASSUME EndCycle
      PROVE  Onward
  BY <1>12, <1>1, Zenon DEF EndCycle, inVars, pipe, fanVars, memoVars, evalVars,
     batches
<1>13. ASSUME NEW c \in Calls, Handler(c)
      PROVE  Onward
  BY <1>13, <1>1, HandlerFrame, Zenon DEF runVars, inVars, fanVars, memoVars, evalVars
<1>14. ASSUME NEW c \in Calls, RecvError(c)
      PROVE  Onward
  BY <1>14, <1>1, Zenon DEF RecvError, ReceiverDone, outer, pipe, runVars, fanVars,
     memoVars, evalVars, batches
<1>15. ASSUME NEW c \in Calls, SendM1c(c)
      PROVE  Onward
  BY <1>15, <1>m1c, <1>sets, CycleConstants, Zenon DEF Onward, InFlight, SendM1c,
     CutoffAtSelect, outer, pipe, runVars, fanVars, memoVars, evalVars, batches
<1>16. ASSUME NEW c \in Calls, DropM1c(c)
      PROVE  Onward
  <2>1. timer = "fired"
    BY <1>16, Zenon DEF DropM1c, WindowInv, AllM1cSent
  <2> QED
    BY <1>16, <2>1, <1>sets, Zenon DEF DropM1c, Onward, InFlight, outer, pipe,
       runVars, fanVars, memoVars, evalVars, batches
<1>17. ASSUME NEW p \in m2c, FanIn(p)
      PROVE  Onward
  BY <1>17, <1>sets, <1>one, CycleConstants, Zenon DEF Onward, InFlight, FanIn,
    memoVars, evalVars, batches, outer, runVars
<1>18. ASSUME NEW i \in m6c, FanOut(i)
      PROVE  Onward
  BY <1>18, <1>1, Zenon DEF FanOut, inVars, fanVars, memoVars, evalVars, outer,
     runVars
<1>19. ASSUME FanInClosed
      PROVE  Onward
  BY <1>19, <1>1, Zenon DEF FanInClosed, inVars, memoVars, evalVars, batches, outer,
     runVars
<1>20. ASSUME FanOutClosed
      PROVE  Onward
  BY <1>20, <1>1, Zenon DEF FanOutClosed, inVars, memoVars, evalVars, batches, outer,
     runVars
<1>21. ASSUME FanDrain
      PROVE  Onward
  <2>1. evalSend = "failed"
    BY <1>21, Zenon DEF FanDrain, StageOrder, WindowInv, TypeOK, EvalTypes
  <2> QED
    BY <1>21, <2>1, <1>sets, Zenon DEF FanDrain, Onward, InFlight, outer, pipe,
       runVars, fanVars, memoVars, evalVars, batches
<1>22. ASSUME CloseResponses
      PROVE  Onward
  BY <1>22, <1>1, Zenon DEF CloseResponses, inVars, memoVars, evalVars, batches,
     outer, runVars
<1>23. ASSUME RecvM3c
      PROVE  Onward
  BY <1>23, <1>sets, CycleConstants, Zenon DEF Onward, InFlight, RecvM3c, inVars,
    evalVars, batches, outer, runVars
<1>24. ASSUME NEW p \in m4c, StoreAndSendM4c(p)
      PROVE  Onward
  BY <1>24, <1>sets, <1>one, CycleConstants, Zenon DEF Onward, InFlight,
    StoreAndSendM4c, Stored, inVars, fanVars, evalVars, outer, runVars
<1>25. ASSUME EvalTake
      PROVE  Onward
  BY <1>25, <1>sets, CycleConstants, Zenon DEF Onward, InFlight, EvalTake, inVars,
    fanVars, memoVars, outer, runVars
<1>26. ASSUME NEW p \in toEval, EvalSendProposal(p)
      PROVE  Onward
  BY <1>26, <1>matchIDs, <1>sets, CycleConstants, Zenon DEF Onward, Sent, InFlight,
     EvalSendProposal, IsNew, inVars, fanVars, memoVars, batches, outer,
     runVars
<1>27. ASSUME EvalCloseSend
      PROVE  Onward
  BY <1>27, <1>sets, CycleConstants, Zenon DEF Onward, InFlight, EvalCloseSend,
    M4cClosed, inVars, fanVars, memoVars, batches, outer, runVars
<1>28. ASSUME EvalReturn
      PROVE  Onward
  BY <1>28, <1>1, Zenon DEF EvalReturn, runVars, inVars, fanVars, memoVars, batches
<1>29. ASSUME CloseM5c
      PROVE  Onward
  BY <1>29, <1>1, Zenon DEF CloseM5c, inVars, fanVars, memoVars, batches, outer,
     runVars
<1>30. ASSUME PendingRelease
      PROVE  Onward
  BY <1>30, <1>1, PendingReleaseFrame, Zenon DEF runVars, inVars, fanVars, memoVars,
     evalVars
<1>31. ASSUME CloseM2c
      PROVE  Onward
  BY <1>31, <1>1, Zenon DEF CloseM2c, outer, pipe, runVars, fanVars, memoVars,
     evalVars, batches
<1>32. ASSUME EvalStart
      PROVE  Onward
  BY <1>32, <1>1, Zenon DEF EvalStart, inVars, fanVars, memoVars, batches, outer,
     runVars
<1>33. ASSUME EvalStartFails
      PROVE  Onward
  BY <1>33, <1>sets, CycleConstants, Zenon DEF Onward, InFlight, EvalStartFails,
    runVars, inVars, fanVars, memoVars, batches
<1>34. ASSUME EvalRecvEnd
      PROVE  Onward
  BY <1>34, <1>1, Zenon DEF EvalRecvEnd, inVars, fanVars, memoVars, batches, outer,
     runVars
<1>35. ASSUME NEW i \in Ids, EvalRecvId(i)
      PROVE  Onward
  BY <1>35, <1>matchIDs, <1>sets, CycleConstants, Zenon DEF Onward, InFlight,
    EvalRecvId, Expected, inVars, fanVars, memoVars, outer, runVars
<1>36. ASSUME UNCHANGED vars
      PROVE  Onward
  BY <1>36, <1>1, Zenon DEF vars, outer, inVars, pipe, runVars, fanVars, memoVars,
     evalVars, batches
<1> QED
  BY <1>2, <1>3, <1>4, <1>5, <1>6, <1>7, <1>8, <1>9, <1>10, <1>11, <1>12,
     <1>13, <1>14, <1>15, <1>16, <1>17, <1>18, <1>19, <1>20, <1>21, <1>22,
     <1>23, <1>24, <1>25, <1>26, <1>27, <1>28, <1>29, <1>30, <1>31, <1>32,
     <1>33, <1>34, <1>35, <1>36 DEF Next, RunCycle, Receiver, Fan, Memo,
     EvalClient

\* ProposedInv is inductive relative to StageOrder and WindowInv.
LEMMA ProposedInvStep ==
  TypeOK /\ StageOrder /\ WindowInv /\ ProposedInv /\ [Next]_vars => ProposedInv'
<1> SUFFICES ASSUME TypeOK, StageOrder, WindowInv, ProposedInv, [Next]_vars,
                    NEW p \in proposed'
             PROVE  \/ InFlight(p)' \/ matchIDs'[MatchId[p]] # "absent"
                    \/ evalSend' = "failed" \/ timer' = "fired"
  BY Zenon DEF ProposedInv
<1>1. Onward
  BY OnwardStep, Zenon
<1>2. MatchId[p] \in Ids
  BY <1>1, CycleConstants, Zenon DEF Onward
<1>3. CASE p \in proposed
  BY <1>1, <1>2, <1>3, Zenon DEF Onward, Sent, ProposedInv
<1>4. CASE p \notin proposed
  BY <1>1, <1>4, Zenon DEF Onward
<1> QED
  BY <1>3, <1>4, Zenon

\* CollisionInv is inductive relative to ProposedInv: when the first of two
\* proposals with one id is sent, the id is new, so that the other is in flight.
LEMMA CollisionInvStep ==
  TypeOK /\ StageOrder /\ WindowInv /\ ProposedInv /\ CollisionInv /\ [Next]_vars
    => CollisionInv'
<1> SUFFICES ASSUME TypeOK, StageOrder, WindowInv, ProposedInv, CollisionInv,
                    [Next]_vars, NEW p \in proposed', NEW q \in proposed',
                    p # q, MatchId[p] = MatchId[q],
                    evalSend' # "failed", timer' # "fired"
             PROVE  InFlight(p)' \/ InFlight(q)'
  BY Zenon DEF CollisionInv
<1>1. Onward
  BY OnwardStep, Zenon
<1>2. evalSend # "failed" /\ timer # "fired" /\ {p, q} \subseteq Proposals
  BY <1>1, Zenon DEF Onward
<1>3. ASSUME NEW x \in proposed, NEW y \in proposed, x # y, InFlight(x),
             MatchId[x] = MatchId[y], y \in Proposals
      PROVE  InFlight(x)' \/ InFlight(y)'
  BY <1>1, <1>2, <1>3, Zenon DEF Onward, Sent, ProposedInv
<1>4. CASE p \in proposed /\ q \in proposed
  BY <1>2, <1>3, <1>4, Zenon DEF CollisionInv
<1>5. CASE p \notin proposed \/ q \notin proposed
  BY <1>1, <1>5, Zenon DEF Onward
<1> QED
  BY <1>4, <1>5, Zenon

-----------------------------------------------------------------------------
\* Unless the timer closed the window, the evaluator's input ends only after it
\* has been sent every proposal that was received.
THEOREM ProposalsReachEvaluator == Spec => []AllProposalsEvaluated
<1> DEFINE Inv == TypeOK /\ StageOrder /\ WindowInv /\ ProposedInv
<1>1. Init => Inv
  BY InitInvs, Zenon
<1>2. Inv /\ [Next]_vars => Inv'
  BY TypeStep, StageOrderStep, WindowInvStep, ProposedInvStep, Zenon
<1>3. ASSUME Inv, evalSend = "done", timer # "fired", NEW p \in proposed
      PROVE  matchIDs[MatchId[p]] # "absent"
  <2>1. AllM1cSent
    BY <1>3, Zenon DEF StageOrder, WindowInv
  <2>2. CallOf[p] \in Calls
    BY <1>3, CycleConstants, Zenon DEF TypeOK, InTypes
  <2>3. m1c[CallOf[p]] = {}
    BY <1>3, <2>1, <2>2, Zenon DEF WindowInv, AllM1cSent
  <2>4. m2c \cup m3c \cup m4c \cup batch4 \cup toEval = {}
    BY <1>3, Zenon DEF StageOrder, WindowInv
  <2> QED
    BY <1>3, <2>3, <2>4, Zenon DEF ProposedInv, InFlight
<1>4. Inv => AllProposalsEvaluated
  BY <1>3, Zenon DEF AllProposalsEvaluated
<1> QED
  BY <1>1, <1>2, <1>4, PTL DEF Spec
-----------------------------------------------------------------------------
\* Match functions never use one match_id for two matches.  The evaluator client
\* fails the cycle when they do (CollisionFailsCycle).
UniqueIds == \A p, q \in Proposals : MatchId[p] = MatchId[q] => p = q

\* CacheInv is inductive: ids are cached before they are sent to the evaluator,
\* and handed to the pending release set before they are routed.
LEMMA CacheInvStep ==
  TypeOK /\ CacheInv /\ [Next]_vars => CacheInv'
<1> SUFFICES ASSUME TypeOK, CacheInv
             PROVE  [Next]_vars => CacheInv'
  BY Zenon
<1> DEFINE used == <<matchTickets, batch4, toEval, matchIDs, batch5, m6c,
                      batch7, returned, pended, unpended>>
<1>returned. returned \in [Calls -> SUBSET Ids]
  BY Zenon DEF TypeOK, CallTypes
<1>matchTickets. matchTickets \in [Ids -> Proposals \cup {None}]
  BY Zenon DEF TypeOK, MemoTypes
<1>matchIDs. matchIDs \in [Ids -> {"absent", "sent", "returned"}]
  BY Zenon DEF TypeOK, EvalTypes
<1>batch7. batch7 \in [Calls -> SUBSET Ids]
  BY Zenon DEF TypeOK, BatchTypes
<1>sets. /\ m4c \subseteq Proposals
         /\ batch4 \subseteq Proposals
         /\ toEval \subseteq Proposals
         /\ m6c \subseteq Ids
         /\ batch5 \subseteq Ids
  BY Zenon DEF TypeOK, MemoTypes, BatchTypes, EvalTypes, PoolTypes
<1>1. used' = used => CacheInv'
  BY Zenon DEF CacheInv
<1>2. ASSUME NEW c \in Calls, StartCycle(c)
      PROVE  CacheInv'
  BY <1>2, <1>1, Zenon DEF StartCycle, callVars, pipe, memoVars, evalVars, poolVars,
     batches
<1>3. ASSUME NEW c \in Calls, Register(c)
      PROVE  CacheInv'
  BY <1>3, <1>1, Zenon DEF Register, pipe, memoVars, evalVars, poolVars, batches
<1>4. ASSUME NEW c \in Calls, CancelStream(c)
      PROVE  CacheInv'
  BY <1>4, <1>1, Zenon DEF CancelStream, pipe, memoVars, evalVars, poolVars, batches
<1>5. ASSUME NEW c \in Calls, RecvEOF(c)
      PROVE  CacheInv'
  BY <1>5, <1>1, Zenon DEF RecvEOF, ReceiverDone, outer, pipe, callVars, memoVars,
     evalVars, poolVars, batches
<1>6. ASSUME NEW c \in Calls, NEW p \in Proposals, RecvProposal(c, p)
      PROVE  CacheInv'
  BY <1>6, <1>1, Zenon DEF RecvProposal, outer, pipe, callVars, memoVars, evalVars,
     poolVars, batches
<1>7. ASSUME RunCycle
      PROVE  CacheInv'
  BY <1>7, <1>1, RunCycleFrame, Zenon DEF pipe, memoVars, evalVars, poolVars, batches
<1>8. ASSUME NEW c \in Calls, SendStartMmfs(c)
      PROVE  CacheInv'
  BY <1>8, <1>1, Zenon DEF SendStartMmfs, LeaveLoop, pipe, memoVars, evalVars,
     poolVars, batches
<1>9. ASSUME NEW c \in Calls, SendMatches(c)
      PROVE  CacheInv'
  BY <1>9, <1>returned, <1>batch7, <1>sets, CycleConstants DEF CacheInv,
     SendMatches, LeaveLoop, memoVars, evalVars, poolVars
<1>10. ASSUME NEW c \in Calls, ResponsesClosed(c)
      PROVE  CacheInv'
  BY <1>10, <1>1, Zenon DEF ResponsesClosed, pipe, memoVars, evalVars, poolVars,
     batches
<1>11. ASSUME NEW c \in Calls, SendCancelMmfs(c)
      PROVE  CacheInv'
  BY <1>11, <1>1, Zenon DEF SendCancelMmfs, LeaveLoop, pipe, memoVars, evalVars,
     poolVars, batches
<1>12. ASSUME NEW c \in Calls, HandlerDone(c)
      PROVE  CacheInv'
  BY <1>12, <1>1, Zenon DEF HandlerDone, LeaveLoop, pipe, memoVars, evalVars,
     poolVars, batches
<1>13. ASSUME NEW c \in Calls, DrainReturn(c)
      PROVE  CacheInv'
  BY <1>13, <1>batch7, <1>sets, CycleConstants DEF CacheInv, DrainReturn,
     memoVars, evalVars, poolVars
<1>14. ASSUME NEW c \in Calls, Receiver(c)
      PROVE  CacheInv'
  BY <1>14, <1>1, ReceiverFrame, Zenon DEF outer, pipe, callVars, memoVars, evalVars,
     poolVars, batches
<1>15. ASSUME NEW p \in m2c, FanIn(p)
      PROVE  CacheInv'
  BY <1>15, <1>1, Zenon DEF FanIn, memoVars, evalVars, poolVars, batches, outer,
     callVars
<1>16. ASSUME NEW i \in m6c, FanOut(i)
      PROVE  CacheInv'
  BY <1>16, <1>batch7, <1>sets, CycleConstants DEF CacheInv, FanOut,
     Destination, memoVars, evalVars, outer, callVars
<1>17. ASSUME FanInClosed
      PROVE  CacheInv'
  BY <1>17, <1>1, Zenon DEF FanInClosed, memoVars, evalVars, poolVars, batches, outer,
     callVars
<1>18. ASSUME FanOutClosed
      PROVE  CacheInv'
  BY <1>18, <1>1, Zenon DEF FanOutClosed, memoVars, evalVars, poolVars, batches,
     outer, callVars
<1>19. ASSUME FanDrain
      PROVE  CacheInv'
  BY <1>19, <1>1, Zenon DEF FanDrain, outer, pipe, callVars, memoVars, evalVars,
     poolVars, batches
<1>20. ASSUME CloseResponses
      PROVE  CacheInv'
  BY <1>20, <1>1, Zenon DEF CloseResponses, memoVars, evalVars, poolVars, batches,
     outer, callVars
<1>21. ASSUME RecvM3c
      PROVE  CacheInv'
  BY <1>21, <1>1, Zenon DEF RecvM3c, evalVars, poolVars, batches, outer, callVars
<1>22. ASSUME NEW p \in m4c, StoreAndSendM4c(p)
      PROVE  CacheInv'
  BY <1>22, <1>matchTickets, <1>sets, CycleConstants DEF CacheInv,
     StoreAndSendM4c, Stored, evalVars, poolVars, outer, callVars
<1>23. ASSUME EvalTake
      PROVE  CacheInv'
  BY <1>23, <1>sets, CycleConstants, Zenon DEF CacheInv, EvalTake, memoVars, poolVars,
     outer, callVars
<1>24. ASSUME NEW p \in toEval, EvalSendProposal(p)
      PROVE  CacheInv'
  BY <1>24, <1>matchTickets, <1>matchIDs, <1>sets, CycleConstants DEF CacheInv,
     EvalSendProposal, IsNew, memoVars, poolVars, batches, outer, callVars
<1>25. ASSUME EvalCloseSend
      PROVE  CacheInv'
  BY <1>25, <1>1, Zenon DEF EvalCloseSend, memoVars, poolVars, batches, outer,
     callVars
<1>26. ASSUME EvalReturn
      PROVE  CacheInv'
  BY <1>26, <1>1, Zenon DEF EvalReturn, callVars, memoVars, poolVars, batches
<1>27. ASSUME CloseM5c
      PROVE  CacheInv'
  BY <1>27, <1>1, Zenon DEF CloseM5c, memoVars, poolVars, batches, outer, callVars
<1>28. ASSUME AddToPending
      PROVE  CacheInv'
  BY <1>28, <1>matchTickets, <1>sets, CycleConstants DEF CacheInv,
     AddToPending, Cached, memoVars, evalVars, outer, callVars
<1>29. ASSUME PendingDone
      PROVE  CacheInv'
  BY <1>29, <1>1, Zenon DEF PendingDone, callVars, memoVars, evalVars, batches
<1>30. ASSUME CloseM6c
      PROVE  CacheInv'
  BY <1>30, <1>1, Zenon DEF CloseM6c, memoVars, evalVars, batches, outer, callVars
<1>31. ASSUME CloseM2c
      PROVE  CacheInv'
  BY <1>31, <1>1, Zenon DEF CloseM2c, outer, pipe, callVars, memoVars, evalVars,
     poolVars, batches
<1>32. ASSUME EvalStart
      PROVE  CacheInv'
  BY <1>32, <1>1, Zenon DEF EvalStart, memoVars, poolVars, batches, outer, callVars
<1>33. ASSUME EvalStartFails
      PROVE  CacheInv'
  BY <1>33, <1>1, Zenon DEF EvalStartFails, callVars, memoVars, poolVars, batches
<1>34. ASSUME EvalRecvEnd
      PROVE  CacheInv'
  BY <1>34, <1>1, Zenon DEF EvalRecvEnd, memoVars, poolVars, batches, outer, callVars
<1>35. ASSUME NEW i \in Ids, EvalRecvId(i)
      PROVE  CacheInv'
  BY <1>35, <1>matchIDs, <1>sets, CycleConstants DEF CacheInv, EvalRecvId,
     Expected, memoVars, poolVars, outer, callVars
<1>36. ASSUME UNCHANGED vars
      PROVE  CacheInv'
  BY <1>36, <1>1, Zenon DEF vars, outer, pipe, callVars, memoVars, evalVars, poolVars,
     batches
<1> QED
  BY <1>2, <1>3, <1>4, <1>5, <1>6, <1>7, <1>8, <1>9, <1>10, <1>11, <1>12,
     <1>13, <1>14, <1>15, <1>16, <1>17, <1>18, <1>19, <1>20, <1>21, <1>22,
     <1>23, <1>24, <1>25, <1>26, <1>27, <1>28, <1>29, <1>30, <1>31, <1>32,
     <1>33, <1>34, <1>35, <1>36 DEF Next, Handler, Fan, Memo, EvalClient,
     PendingRelease

\* RouteInv is inductive.
LEMMA RouteInvStep ==
  TypeOK /\ RouteInv /\ [Next]_vars => RouteInv'
<1> SUFFICES ASSUME TypeOK, RouteInv
             PROVE  [Next]_vars => RouteInv'
  BY Zenon
<1> DEFINE used == <<m1c, m2c, m3c, m4c, batch4, toEval, proposed, m7cMap,
                      matchIDs>>
<1>m1c. m1c \in [Calls -> SUBSET Proposals]
  BY Zenon DEF TypeOK, InTypes
<1>m7cMap. m7cMap \in [Ids -> Calls \cup {None}]
  BY Zenon DEF TypeOK, FanTypes
<1>matchIDs. matchIDs \in [Ids -> {"absent", "sent", "returned"}]
  BY Zenon DEF TypeOK, EvalTypes
<1>sets. /\ m2c \subseteq Proposals
         /\ m3c \subseteq Proposals
         /\ m4c \subseteq Proposals
         /\ batch4 \subseteq Proposals
         /\ toEval \subseteq Proposals
  BY Zenon DEF TypeOK, InTypes, FanTypes, MemoTypes, BatchTypes, EvalTypes
<1>1. used' = used => RouteInv'
  BY Zenon DEF RouteInv
<1>2. ASSUME NEW c \in Calls, StartCycle(c)
      PROVE  RouteInv'
  BY <1>2, <1>1, Zenon DEF StartCycle, inVars, pipe, fanVars, memoVars, evalVars,
     batches
<1>3. ASSUME NEW c \in Calls, Register(c)
      PROVE  RouteInv'
  BY <1>3, <1>1, Zenon DEF Register, pipe, fanVars, memoVars, evalVars, batches
<1>4. ASSUME NEW c \in Calls, CancelStream(c)
      PROVE  RouteInv'
  BY <1>4, <1>1, Zenon DEF CancelStream, inVars, pipe, fanVars, memoVars, evalVars,
     batches
<1>5. ASSUME NEW c \in Calls, RecvEOF(c)
      PROVE  RouteInv'
  BY <1>5, <1>1, Zenon DEF RecvEOF, ReceiverDone, pipe, fanVars, memoVars, evalVars,
     batches
<1>6. ASSUME NEW c \in Calls, NEW p \in Proposals, RecvProposal(c, p)
      PROVE  RouteInv'
  BY <1>6, <1>m1c, <1>sets, CycleConstants DEF RouteInv, RecvProposal, pipe,
     fanVars, memoVars, evalVars, batches
<1>7. ASSUME RunCycle
      PROVE  RouteInv'
  BY <1>7, <1>1, RunCycleFrame, Zenon DEF pipe, fanVars, memoVars, evalVars, batches
<1>8. ASSUME NEW c \in Calls, Handler(c)
      PROVE  RouteInv'
  BY <1>8, <1>1, HandlerFrame, Zenon DEF inVars, fanVars, memoVars, evalVars
<1>9. ASSUME NEW c \in Calls, RecvError(c)
      PROVE  RouteInv'
  BY <1>9, <1>1, Zenon DEF RecvError, ReceiverDone, pipe, fanVars, memoVars, evalVars,
     batches
<1>10. ASSUME NEW c \in Calls, SendM1c(c)
      PROVE  RouteInv'
  BY <1>10, <1>m1c, <1>sets, CycleConstants DEF RouteInv, SendM1c,
     CutoffAtSelect, pipe, fanVars, memoVars, evalVars, batches
<1>11. ASSUME NEW c \in Calls, DropM1c(c)
      PROVE  RouteInv'
  BY <1>11, <1>m1c, <1>sets, CycleConstants DEF RouteInv, DropM1c, pipe,
     fanVars, memoVars, evalVars, batches
<1>12. ASSUME NEW p \in m2c, FanIn(p)
      PROVE  RouteInv'
  BY <1>12, <1>m7cMap, <1>sets, CycleConstants DEF RouteInv, FanIn, memoVars,
     evalVars, batches
<1>13. ASSUME NEW i \in m6c, FanOut(i)
      PROVE  RouteInv'
  BY <1>13, <1>1, Zenon DEF FanOut, inVars, fanVars, memoVars, evalVars
<1>14. ASSUME FanInClosed
      PROVE  RouteInv'
  BY <1>14, <1>1, Zenon DEF FanInClosed, inVars, memoVars, evalVars, batches
<1>15. ASSUME FanOutClosed
      PROVE  RouteInv'
  BY <1>15, <1>1, Zenon DEF FanOutClosed, inVars, memoVars, evalVars, batches
<1>16. ASSUME FanDrain
      PROVE  RouteInv'
  BY <1>16, <1>sets, CycleConstants, Zenon DEF RouteInv, FanDrain, pipe, fanVars,
     memoVars, evalVars, batches
<1>17. ASSUME CloseResponses
      PROVE  RouteInv'
  BY <1>17, <1>1, Zenon DEF CloseResponses, inVars, memoVars, evalVars, batches
<1>18. ASSUME RecvM3c
      PROVE  RouteInv'
  BY <1>18, <1>sets, CycleConstants, Zenon DEF RouteInv, RecvM3c, inVars, evalVars,
     batches
<1>19. ASSUME NEW p \in m4c, StoreAndSendM4c(p)
      PROVE  RouteInv'
  BY <1>19, <1>sets, CycleConstants DEF RouteInv, StoreAndSendM4c, Stored,
     inVars, fanVars, evalVars
<1>20. ASSUME EvalTake
      PROVE  RouteInv'
  BY <1>20, <1>sets, CycleConstants, Zenon DEF RouteInv, EvalTake, inVars, fanVars,
     memoVars
<1>21. ASSUME NEW p \in toEval, EvalSendProposal(p)
      PROVE  RouteInv'
  BY <1>21, <1>matchIDs, <1>sets, CycleConstants DEF RouteInv,
     EvalSendProposal, IsNew, inVars, fanVars, memoVars, batches
<1>22. ASSUME EvalCloseSend
      PROVE  RouteInv'
  BY <1>22, <1>1, Zenon DEF EvalCloseSend, inVars, fanVars, memoVars, batches
<1>23. ASSUME EvalReturn
      PROVE  RouteInv'
  BY <1>23, <1>1, Zenon DEF EvalReturn, inVars, fanVars, memoVars, batches
<1>24. ASSUME CloseM5c
      PROVE  RouteInv'
  BY <1>24, <1>1, Zenon DEF CloseM5c, inVars, fanVars, memoVars, batches
<1>25. ASSUME PendingRelease
      PROVE  RouteInv'
  BY <1>25, <1>1, PendingReleaseFrame, Zenon DEF inVars, fanVars, memoVars, evalVars
<1>26. ASSUME CloseM2c
      PROVE  RouteInv'
  BY <1>26, <1>1, Zenon DEF CloseM2c, pipe, fanVars, memoVars, evalVars, batches
<1>27. ASSUME EvalStart
      PROVE  RouteInv'
  BY <1>27, <1>1, Zenon DEF EvalStart, inVars, fanVars, memoVars, batches
<1>28. ASSUME EvalStartFails
      PROVE  RouteInv'
  BY <1>28, <1>1, Zenon DEF EvalStartFails, inVars, fanVars, memoVars, batches
<1>29. ASSUME EvalRecvEnd
      PROVE  RouteInv'
  BY <1>29, <1>1, Zenon DEF EvalRecvEnd, inVars, fanVars, memoVars, batches
<1>30. ASSUME NEW i \in Ids, EvalRecvId(i)
      PROVE  RouteInv'
  BY <1>30, <1>matchIDs, <1>sets, CycleConstants DEF RouteInv, EvalRecvId,
     Expected, inVars, fanVars, memoVars
<1>31. ASSUME UNCHANGED vars
      PROVE  RouteInv'
  BY <1>31, <1>1, Zenon DEF vars, inVars, pipe, fanVars, memoVars, evalVars, batches
<1> QED
  BY <1>2, <1>3, <1>4, <1>5, <1>6, <1>7, <1>8, <1>9, <1>10, <1>11, <1>12,
     <1>13, <1>14, <1>15, <1>16, <1>17, <1>18, <1>19, <1>20, <1>21, <1>22,
     <1>23, <1>24, <1>25, <1>26, <1>27, <1>28, <1>29, <1>30, <1>31 DEF Next,
     Receiver, Fan, Memo, EvalClient

\* ReturnedToProposer is inductive relative to RouteInv.
LEMMA RoutedStep ==
  TypeOK /\ RouteInv /\ ReturnedToProposer /\ [Next]_vars => ReturnedToProposer'
<1> SUFFICES ASSUME TypeOK, RouteInv, ReturnedToProposer
             PROVE  [Next]_vars => ReturnedToProposer'
  BY Zenon
<1> DEFINE used == <<batch7, returned, proposed, m7cMap>>
<1>returned. returned \in [Calls -> SUBSET Ids]
  BY Zenon DEF TypeOK, CallTypes
<1>m7cMap. m7cMap \in [Ids -> Calls \cup {None}]
  BY Zenon DEF TypeOK, FanTypes
<1>batch7. batch7 \in [Calls -> SUBSET Ids]
  BY Zenon DEF TypeOK, BatchTypes
<1>sets. /\ m6c \subseteq Ids
  BY Zenon DEF TypeOK, PoolTypes
<1>1. used' = used => ReturnedToProposer'
  BY DEF ReturnedToProposer
<1>2. ASSUME NEW c \in Calls, StartCycle(c)
      PROVE  ReturnedToProposer'
  BY <1>2, <1>1, Zenon DEF StartCycle, callVars, inVars, pipe, fanVars, batches
<1>3. ASSUME NEW c \in Calls, Register(c)
      PROVE  ReturnedToProposer'
  BY <1>3, <1>1, Zenon DEF Register, pipe, fanVars, batches
<1>4. ASSUME NEW c \in Calls, CancelStream(c)
      PROVE  ReturnedToProposer'
  BY <1>4, <1>1, Zenon DEF CancelStream, inVars, pipe, fanVars, batches
<1>5. ASSUME NEW c \in Calls, RecvEOF(c)
      PROVE  ReturnedToProposer'
  BY <1>5, <1>1, Zenon DEF RecvEOF, ReceiverDone, outer, pipe, callVars, fanVars,
     batches
<1>6. ASSUME NEW c \in Calls, NEW p \in Proposals, RecvProposal(c, p)
      PROVE  ReturnedToProposer'
  BY <1>6, <1>sets, CycleConstants DEF RouteInv, ReturnedToProposer,
     RecvProposal, outer, pipe, callVars, fanVars, batches
<1>7. ASSUME RunCycle
      PROVE  ReturnedToProposer'
  BY <1>7, <1>1, RunCycleFrame, Zenon DEF pipe, fanVars, batches
<1>8. ASSUME NEW c \in Calls, SendStartMmfs(c)
      PROVE  ReturnedToProposer'
  BY <1>8, <1>1, Zenon DEF SendStartMmfs, LeaveLoop, inVars, pipe, fanVars, batches
<1>9. ASSUME NEW c \in Calls, SendMatches(c)
      PROVE  ReturnedToProposer'
  BY SMTT(40), <1>9, <1>returned, <1>batch7, <1>sets, CycleConstants DEF RouteInv,
     ReturnedToProposer, SendMatches, LeaveLoop, inVars, fanVars
<1>10. ASSUME NEW c \in Calls, ResponsesClosed(c)
      PROVE  ReturnedToProposer'
  BY <1>10, <1>1, Zenon DEF ResponsesClosed, inVars, pipe, fanVars, batches
<1>11. ASSUME NEW c \in Calls, SendCancelMmfs(c)
      PROVE  ReturnedToProposer'
  BY <1>11, <1>1, Zenon DEF SendCancelMmfs, LeaveLoop, inVars, pipe, fanVars, batches
<1>12. ASSUME NEW c \in Calls, HandlerDone(c)
      PROVE  ReturnedToProposer'
  BY <1>12, <1>1, Zenon DEF HandlerDone, LeaveLoop, inVars, pipe, fanVars, batches
<1>13. ASSUME NEW c \in Calls, DrainReturn(c)
      PROVE  ReturnedToProposer'
  BY <1>13, <1>batch7, <1>sets, CycleConstants DEF RouteInv,
     ReturnedToProposer, DrainReturn, inVars, fanVars
<1>14. ASSUME NEW c \in Calls, Receiver(c)
      PROVE  ReturnedToProposer'
  BY <1>14, <1>1, ReceiverFrame, Zenon DEF outer, pipe, callVars, fanVars, batches
<1>15. ASSUME NEW p \in m2c, FanIn(p)
      PROVE  ReturnedToProposer'
  BY <1>15, <1>m7cMap, <1>sets, CycleConstants DEF RouteInv,
     ReturnedToProposer, FanIn, batches, outer, callVars
<1>16. ASSUME NEW i \in m6c, FanOut(i)
      PROVE  ReturnedToProposer'
  <2>1. \A c \in Calls : \A j \in batch7'[c] :
           j \in batch7[c] \/ (j \in Ids /\ m7cMap[j] = c)
    BY <1>16, <1>batch7, <1>sets, Zenon DEF FanOut, Destination
  <2>2. UNCHANGED <<returned, proposed, m7cMap>>
    BY <1>16, Zenon DEF FanOut, inVars, fanVars, outer, callVars
  <2> QED
    BY <2>1, <2>2, CycleConstants DEF RouteInv, ReturnedToProposer
<1>17. ASSUME FanInClosed
      PROVE  ReturnedToProposer'
  BY <1>17, <1>1, Zenon DEF FanInClosed, inVars, batches, outer, callVars
<1>18. ASSUME FanOutClosed
      PROVE  ReturnedToProposer'
  BY <1>18, <1>1, Zenon DEF FanOutClosed, inVars, batches, outer, callVars
<1>19. ASSUME FanDrain
      PROVE  ReturnedToProposer'
  BY <1>19, <1>1, Zenon DEF FanDrain, outer, pipe, callVars, fanVars, batches
<1>20. ASSUME CloseResponses
      PROVE  ReturnedToProposer'
  BY <1>20, <1>1, Zenon DEF CloseResponses, inVars, batches, outer, callVars
<1>21. ASSUME Memo
      PROVE  ReturnedToProposer'
  BY <1>21, <1>1, MemoFrame, Zenon DEF inVars, outer, callVars
<1>22. ASSUME EvalClient
      PROVE  ReturnedToProposer'
  BY <1>22, <1>1, EvalClientFrame, Zenon DEF callVars, inVars, fanVars
<1>23. ASSUME PendingRelease
      PROVE  ReturnedToProposer'
  BY <1>23, <1>1, PendingReleaseFrame, Zenon DEF callVars, inVars, fanVars
<1>24. ASSUME CloseM2c
      PROVE  ReturnedToProposer'
  BY <1>24, <1>1, Zenon DEF CloseM2c, outer, pipe, callVars, fanVars, batches
<1>25. ASSUME EvalStart
      PROVE  ReturnedToProposer'
  BY <1>25, <1>1, Zenon DEF EvalStart, inVars, fanVars, batches, outer, callVars
<1>26. ASSUME EvalStartFails
      PROVE  ReturnedToProposer'
  BY <1>26, <1>1, Zenon DEF EvalStartFails, callVars, inVars, fanVars, batches
<1>27. ASSUME EvalRecvEnd
      PROVE  ReturnedToProposer'
  BY <1>27, <1>1, Zenon DEF EvalRecvEnd, inVars, fanVars, batches, outer, callVars
<1>28. ASSUME NEW i \in Ids, EvalRecvId(i)
      PROVE  ReturnedToProposer'
  BY <1>28, <1>1, Zenon DEF EvalRecvId, inVars, fanVars, outer, callVars
<1>29. ASSUME UNCHANGED vars
      PROVE  ReturnedToProposer'
  BY <1>29, <1>1, Zenon DEF vars, outer, inVars, pipe, callVars, fanVars, batches
<1> QED
  BY <1>2, <1>3, <1>4, <1>5, <1>6, <1>7, <1>8, <1>9, <1>10, <1>11, <1>12,
     <1>13, <1>14, <1>15, <1>16, <1>17, <1>18, <1>19, <1>20, <1>21, <1>22,
     <1>23, <1>24, <1>25, <1>26, <1>27, <1>28, <1>29 DEF Next, Handler, Fan

\* AcceptedInv is inductive when match ids are unique: an entry of m7cMap is then
\* never overwritten by another call's.
LEMMA AcceptedInvStep ==
  UniqueIds /\ TypeOK /\ RouteInv /\ AcceptedInv /\ [Next]_vars => AcceptedInv'
<1> SUFFICES ASSUME UniqueIds, TypeOK, RouteInv, AcceptedInv
             PROVE  [Next]_vars => AcceptedInv'
  BY Zenon
<1> DEFINE used == <<matchIDs, batch5, m6c, m7cMap, batch7, returned, handler>>
<1>handler. handler \in [Calls -> {"idle", "registered", "loop", "drain", "ok", "error"}]
  BY Zenon DEF TypeOK, CallTypes
<1>returned. returned \in [Calls -> SUBSET Ids]
  BY Zenon DEF TypeOK, CallTypes
<1>m7cMap. m7cMap \in [Ids -> Calls \cup {None}]
  BY Zenon DEF TypeOK, FanTypes
<1>matchIDs. matchIDs \in [Ids -> {"absent", "sent", "returned"}]
  BY Zenon DEF TypeOK, EvalTypes
<1>batch7. batch7 \in [Calls -> SUBSET Ids]
  BY Zenon DEF TypeOK, BatchTypes
<1>sets. /\ m2c \subseteq Proposals
         /\ proposed \subseteq Proposals
         /\ m6c \subseteq Ids
         /\ batch5 \subseteq Ids
  BY Zenon DEF TypeOK, InTypes, PoolTypes, BatchTypes
<1>1. used' = used => AcceptedInv'
  BY Zenon DEF AcceptedInv
<1>2. ASSUME NEW c \in Calls, StartCycle(c)
      PROVE  AcceptedInv'
  BY <1>2, <1>1, Zenon DEF StartCycle, callVars, pipe, fanVars, evalVars, poolVars,
     batches
<1>3. ASSUME NEW c \in Calls, Register(c)
      PROVE  AcceptedInv'
  BY <1>3, <1>handler, <1>sets, CycleConstants, Zenon DEF AcceptedInv, Register, pipe,
     fanVars, evalVars, poolVars, batches
<1>4. ASSUME NEW c \in Calls, CancelStream(c)
      PROVE  AcceptedInv'
  BY <1>4, <1>1, Zenon DEF CancelStream, pipe, fanVars, evalVars, poolVars, batches
<1>5. ASSUME NEW c \in Calls, RecvEOF(c)
      PROVE  AcceptedInv'
  BY <1>5, <1>1, Zenon DEF RecvEOF, ReceiverDone, outer, pipe, callVars, fanVars,
     evalVars, poolVars, batches
<1>6. ASSUME NEW c \in Calls, NEW p \in Proposals, RecvProposal(c, p)
      PROVE  AcceptedInv'
  BY <1>6, <1>1, Zenon DEF RecvProposal, outer, pipe, callVars, fanVars, evalVars,
     poolVars, batches
<1>7. ASSUME RunCycle
      PROVE  AcceptedInv'
  BY <1>7, <1>1, RunCycleFrame, Zenon DEF pipe, fanVars, evalVars, poolVars, batches
<1>8. ASSUME NEW c \in Calls, SendStartMmfs(c)
      PROVE  AcceptedInv'
  BY SMTT(40), <1>8, <1>handler, <1>sets, CycleConstants DEF AcceptedInv, SendStartMmfs,
     LeaveLoop, pipe, fanVars, evalVars, poolVars, batches
<1>9. ASSUME NEW c \in Calls, SendMatches(c)
      PROVE  AcceptedInv'
  <2>1. \A d \in Calls :
           /\ \/ batch7[d] \cup returned[d] \subseteq batch7'[d] \cup returned'[d]
              \/ handler'[d] = "drain"
           /\ handler[d] \in {"drain", "error"} =>
                handler'[d] \in {"drain", "error"}
    BY <1>9, <1>handler, <1>returned, <1>batch7, Zenon DEF SendMatches, LeaveLoop
  <2>2. UNCHANGED <<matchIDs, batch5, m6c, m7cMap>>
    BY <1>9, Zenon DEF SendMatches, LeaveLoop, fanVars, evalVars, poolVars
  <2> QED
    BY <2>1, <2>2, Zenon DEF AcceptedInv
<1>10. ASSUME NEW c \in Calls, ResponsesClosed(c)
      PROVE  AcceptedInv'
  BY <1>10, <1>handler, <1>sets, CycleConstants, Zenon DEF AcceptedInv,
     ResponsesClosed, M6cBufferClosed, pipe, fanVars, evalVars, poolVars,
     batches
<1>11. ASSUME NEW c \in Calls, SendCancelMmfs(c)
      PROVE  AcceptedInv'
  BY <1>11, <1>handler, <1>sets, CycleConstants DEF AcceptedInv,
     SendCancelMmfs, LeaveLoop, pipe, fanVars, evalVars, poolVars, batches
<1>12. ASSUME NEW c \in Calls, HandlerDone(c)
      PROVE  AcceptedInv'
  BY <1>12, <1>handler, <1>sets, CycleConstants, Zenon DEF AcceptedInv, HandlerDone,
     LeaveLoop, pipe, fanVars, evalVars, poolVars, batches
<1>13. ASSUME NEW c \in Calls, DrainReturn(c)
      PROVE  AcceptedInv'
  BY <1>13, <1>handler, <1>batch7, <1>sets, CycleConstants, Zenon DEF AcceptedInv,
     DrainReturn, fanVars, evalVars, poolVars
<1>14. ASSUME NEW c \in Calls, Receiver(c)
      PROVE  AcceptedInv'
  BY <1>14, <1>1, ReceiverFrame, Zenon DEF outer, pipe, callVars, fanVars, evalVars,
     poolVars, batches
<1>15. ASSUME NEW p \in m2c, FanIn(p)
      PROVE  AcceptedInv'
  <2>1. \A i \in Ids : m7cMap[i] # None => m7cMap'[i] = m7cMap[i]
    BY <1>15, <1>m7cMap, <1>sets, CycleConstants DEF RouteInv, UniqueIds, FanIn
  <2>2. UNCHANGED <<matchIDs, batch5, m6c, batch7, returned, handler>>
    BY <1>15, Zenon DEF FanIn, evalVars, poolVars, batches, outer, callVars
  <2> QED
    BY <2>1, <2>2, CycleConstants DEF AcceptedInv
<1>16. ASSUME NEW i \in m6c, FanOut(i)
      PROVE  AcceptedInv'
  <2>1. matchIDs[i] = "returned" => m7cMap[i] \in Calls
    BY <1>16, <1>m7cMap, <1>sets DEF RouteInv
  <2>2. /\ \A c \in Calls : batch7[c] \subseteq batch7'[c]
        /\ m7cMap[i] \in Calls => i \in batch7'[m7cMap[i]]
    BY <1>16, <1>batch7, Zenon DEF FanOut, Destination
  <2>3. m6c' = m6c \ {i} /\ UNCHANGED <<matchIDs, batch5, m7cMap, returned, handler>>
    BY <1>16, Zenon DEF FanOut, fanVars, evalVars, outer, callVars
  <2> QED
    BY <2>1, <2>2, <2>3 DEF AcceptedInv
<1>17. ASSUME FanInClosed
      PROVE  AcceptedInv'
  BY <1>17, <1>1, Zenon DEF FanInClosed, evalVars, poolVars, batches, outer, callVars
<1>18. ASSUME FanOutClosed
      PROVE  AcceptedInv'
  BY <1>18, <1>1, Zenon DEF FanOutClosed, evalVars, poolVars, batches, outer, callVars
<1>19. ASSUME FanDrain
      PROVE  AcceptedInv'
  BY <1>19, <1>1, Zenon DEF FanDrain, outer, pipe, callVars, fanVars, evalVars,
     poolVars, batches
<1>20. ASSUME CloseResponses
      PROVE  AcceptedInv'
  BY <1>20, <1>1, Zenon DEF CloseResponses, evalVars, poolVars, batches, outer,
     callVars
<1>21. ASSUME Memo
      PROVE  AcceptedInv'
  BY <1>21, <1>1, MemoFrame, Zenon DEF evalVars, poolVars, outer, callVars
<1>22. ASSUME EvalTake
      PROVE  AcceptedInv'
  BY <1>22, <1>1, Zenon DEF EvalTake, fanVars, poolVars, outer, callVars
<1>23. ASSUME NEW p \in toEval, EvalSendProposal(p)
      PROVE  AcceptedInv'
  BY SMTT(40), <1>23, <1>matchIDs, <1>sets, CycleConstants DEF AcceptedInv,
     EvalSendProposal, IsNew, fanVars, poolVars, batches, outer, callVars
<1>24. ASSUME EvalCloseSend
      PROVE  AcceptedInv'
  BY <1>24, <1>1, Zenon DEF EvalCloseSend, fanVars, poolVars, batches, outer, callVars
<1>25. ASSUME EvalReturn
      PROVE  AcceptedInv'
  BY <1>25, <1>1, Zenon DEF EvalReturn, callVars, fanVars, poolVars, batches
<1>26. ASSUME CloseM5c
      PROVE  AcceptedInv'
  BY <1>26, <1>1, Zenon DEF CloseM5c, fanVars, poolVars, batches, outer, callVars
<1>27. ASSUME AddToPending
      PROVE  AcceptedInv'
  BY <1>27, <1>handler, <1>m7cMap, <1>sets, CycleConstants, Zenon DEF AcceptedInv,
     AddToPending, Cached, fanVars, evalVars, outer, callVars
<1>28. ASSUME PendingDone
      PROVE  AcceptedInv'
  BY <1>28, <1>1, Zenon DEF PendingDone, callVars, fanVars, evalVars, batches
<1>29. ASSUME CloseM6c
      PROVE  AcceptedInv'
  BY <1>29, <1>1, Zenon DEF CloseM6c, fanVars, evalVars, batches, outer, callVars
<1>30. ASSUME CloseM2c
      PROVE  AcceptedInv'
  BY <1>30, <1>1, Zenon DEF CloseM2c, outer, pipe, callVars, fanVars, evalVars,
     poolVars, batches
<1>31. ASSUME EvalStart
      PROVE  AcceptedInv'
  BY <1>31, <1>1, Zenon DEF EvalStart, fanVars, poolVars, batches, outer, callVars
<1>32. ASSUME EvalStartFails
      PROVE  AcceptedInv'
  BY <1>32, <1>1, Zenon DEF EvalStartFails, callVars, fanVars, poolVars, batches
<1>33. ASSUME EvalRecvEnd
      PROVE  AcceptedInv'
  BY <1>33, <1>1, Zenon DEF EvalRecvEnd, fanVars, poolVars, batches, outer, callVars
<1>34. ASSUME NEW i \in Ids, EvalRecvId(i)
      PROVE  AcceptedInv'
  BY SMTT(40), <1>34, <1>handler, <1>m7cMap, <1>matchIDs, <1>sets, CycleConstants DEF
     AcceptedInv, EvalRecvId, Expected, fanVars, poolVars, outer, callVars
<1>35. ASSUME UNCHANGED vars
      PROVE  AcceptedInv'
  BY <1>35, <1>1, Zenon DEF vars, outer, pipe, callVars, fanVars, evalVars, poolVars,
     batches
<1> QED
  BY <1>2, <1>3, <1>4, <1>5, <1>6, <1>7, <1>8, <1>9, <1>10, <1>11, <1>12,
     <1>13, <1>14, <1>15, <1>16, <1>17, <1>18, <1>19, <1>20, <1>21, <1>22,
     <1>23, <1>24, <1>25, <1>26, <1>27, <1>28, <1>29, <1>30, <1>31, <1>32,
     <1>33, <1>34, <1>35 DEF Next, Handler, Fan, EvalClient, PendingRelease

\* OnceInv is inductive: the evaluator client lets an id through once, and every
\* stage hands on what it has taken.
LEMMA OnceInvStep == TypeOK /\ OnceInv /\ [Next]_vars => OnceInv'
<1> SUFFICES ASSUME TypeOK, OnceInv
             PROVE  [Next]_vars => OnceInv'
  BY Zenon
<1> DEFINE used == <<matchIDs, batch5, m6c, batch7, returned>>
<1>types. /\ returned \in [Calls -> SUBSET Ids]
          /\ matchIDs \in [Ids -> {"absent", "sent", "returned"}]
          /\ batch7 \in [Calls -> SUBSET Ids]
          /\ m6c \subseteq Ids /\ batch5 \subseteq Ids
          /\ toEval \subseteq Proposals
  BY Zenon DEF TypeOK, CallTypes, EvalTypes, BatchTypes, PoolTypes
<1>1. used' = used => OnceInv'
  BY Zenon DEF OnceInv
<1>2. ASSUME NEW c \in Calls, StartCycle(c) \/ Register(c) \/ CancelStream(c) \/ RecvEOF(c)
      PROVE  OnceInv'
  BY <1>2, <1>1, Zenon DEF StartCycle, Register, CancelStream, RecvEOF,
     ReceiverDone, outer, inVars, pipe, runVars, callVars, fanVars,
     memoVars, evalVars, poolVars, batches
<1>3. ASSUME NEW c \in Calls, NEW p \in Proposals, RecvProposal(c, p)
      PROVE  OnceInv'
  BY <1>3, <1>1, Zenon DEF RecvProposal, outer, inVars, pipe, runVars, callVars,
    fanVars, memoVars, evalVars, poolVars, batches
<1>4. ASSUME RunCycle
      PROVE  OnceInv'
  BY <1>4, <1>1, RunCycleFrame, Zenon DEF outer, inVars, pipe, runVars, callVars,
    fanVars, memoVars, evalVars, poolVars, batches
<1>5. ASSUME NEW c \in Calls,
             \/ SendStartMmfs(c) \/ ResponsesClosed(c)
             \/ SendCancelMmfs(c) \/ HandlerDone(c)
      PROVE  OnceInv'
  BY <1>5, <1>1, Zenon DEF SendStartMmfs, ResponsesClosed, SendCancelMmfs,
     HandlerDone, LeaveLoop, outer, inVars, pipe, runVars, callVars, fanVars,
     memoVars, evalVars, poolVars, batches
<1>6. ASSUME NEW c \in Calls, Receiver(c)
      PROVE  OnceInv'
  BY <1>6, <1>1, ReceiverFrame, Zenon DEF outer, inVars, pipe, runVars, callVars,
    fanVars, memoVars, evalVars, poolVars, batches
<1>7. ASSUME NEW p \in m2c, FanIn(p)
      PROVE  OnceInv'
  BY <1>7, <1>1, Zenon DEF FanIn, outer, inVars, pipe, runVars, callVars, fanVars,
     memoVars, evalVars, poolVars, batches
<1>8. ASSUME FanInClosed \/ FanOutClosed \/ FanDrain \/ CloseResponses
      PROVE  OnceInv'
  BY <1>8, <1>1, Zenon DEF FanInClosed, FanOutClosed, FanDrain, CloseResponses, outer,
    inVars, pipe, runVars, callVars, fanVars, memoVars, evalVars, poolVars, batches
<1>9. ASSUME Memo
      PROVE  OnceInv'
  BY <1>9, <1>1, MemoFrame, Zenon DEF outer, inVars, pipe, runVars, callVars, fanVars,
     memoVars, evalVars, poolVars, batches
<1>10. ASSUME EvalTake \/ EvalCloseSend \/ EvalReturn \/ CloseM5c
      PROVE  OnceInv'
  BY <1>10, <1>1, Zenon DEF EvalTake, EvalCloseSend, EvalReturn, CloseM5c, outer,
    inVars, pipe, runVars, callVars, fanVars, memoVars, evalVars, poolVars, batches
<1>11. ASSUME PendingDone \/ CloseM6c
      PROVE  OnceInv'
  BY <1>11, <1>1, Zenon DEF PendingDone, CloseM6c, outer, inVars, pipe, runVars,
    callVars, fanVars, memoVars, evalVars, poolVars, batches
<1>12. ASSUME CloseM2c \/ EvalStart \/ EvalStartFails \/ EvalRecvEnd
      PROVE  OnceInv'
  BY <1>12, <1>1, Zenon DEF CloseM2c, EvalStart, EvalStartFails, EvalRecvEnd, outer,
    inVars, pipe, runVars, callVars, fanVars, memoVars, evalVars, poolVars, batches
<1>13. ASSUME UNCHANGED vars
      PROVE  OnceInv'
  BY <1>13, <1>1, Zenon DEF vars, outer, inVars, pipe, runVars, callVars, fanVars,
     memoVars, evalVars, poolVars, batches
<1>14. ASSUME NEW c \in Calls, SendMatches(c)
      PROVE  OnceInv'
  <2>1. \A d \in Calls :
           batch7'[d] \cup returned'[d] \subseteq batch7[d] \cup returned[d]
    BY <1>14, <1>types, Zenon DEF SendMatches
  <2>2. UNCHANGED <<matchIDs, batch5, m6c>>
    BY <1>14, Zenon DEF SendMatches, evalVars, poolVars
  <2> QED
    BY <2>1, <2>2, Zenon DEF OnceInv
<1>15. ASSUME NEW c \in Calls, DrainReturn(c)
      PROVE  OnceInv'
  BY <1>15, <1>types, Zenon DEF OnceInv, DrainReturn, evalVars, poolVars
<1>16. ASSUME NEW i \in m6c, FanOut(i)
      PROVE  OnceInv'
  <2>1. \A c \in Calls : batch7'[c] \subseteq batch7[c] \cup {i}
    BY <1>16, <1>types, Zenon DEF FanOut
  <2>2. m6c' = m6c \ {i} /\ UNCHANGED <<matchIDs, batch5, returned>>
    BY <1>16, Zenon DEF FanOut, evalVars, outer, callVars
  <2> QED
    BY <2>1, <2>2 DEF OnceInv
<1>17. ASSUME NEW p \in toEval, EvalSendProposal(p)
      PROVE  OnceInv'
  <2>1. MatchId[p] \in Ids
    BY <1>types, CycleConstants, Zenon
  <2>2. \A i \in Ids : matchIDs[i] = "returned" => matchIDs'[i] = "returned"
    BY <1>17, <1>types, <2>1, Zenon DEF EvalSendProposal
  <2>3. UNCHANGED <<batch5, m6c, batch7, returned>>
    BY <1>17, Zenon DEF EvalSendProposal, outer, callVars, poolVars, batches
  <2> QED
    BY <1>types, <2>2, <2>3, Zenon DEF OnceInv
<1>18. ASSUME NEW i \in Ids, EvalRecvId(i)
      PROVE  OnceInv'
  <2>1. CASE Expected(i)
    <3>1. /\ batch5' = batch5 \cup {i} /\ UNCHANGED <<m6c, batch7, returned>>
          /\ matchIDs' = [matchIDs EXCEPT ![i] = "returned"]
      BY <1>18, <2>1, Zenon DEF EvalRecvId, outer, callVars, poolVars
    <3>2. /\ i \notin m6c
          /\ \A c \in Calls : i \notin batch7[c] \cup returned[c]
      BY <2>1, Zenon DEF OnceInv, Expected
    <3> QED
      BY <1>types, <3>1, <3>2 DEF OnceInv
  <2>2. CASE ~Expected(i)
    BY <1>18, <1>1, <2>2, Zenon DEF EvalRecvId, outer, callVars, poolVars
  <2> QED
    BY <2>1, <2>2, Zenon
<1>19. ASSUME AddToPending
      PROVE  OnceInv'
  BY <1>19, Zenon DEF OnceInv, AddToPending, outer, callVars, evalVars
<1> QED
  BY <1>2, <1>3, <1>4, <1>5, <1>6, <1>7, <1>8, <1>9, <1>10, <1>11,
     <1>12, <1>13, <1>14, <1>15, <1>16, <1>17, <1>18, <1>19
     DEF Next, Handler, Fan, EvalClient, PendingRelease

-----------------------------------------------------------------------------
\* The tickets of a match reach AddTicketsToPendingRelease before the match goes
\* back to the backend that proposed it.
THEOREM PendedFirst ==
  ASSUME UniqueIds
  PROVE  Spec => []PendedBeforeReturned
<1> DEFINE Inv == TypeOK /\ CacheInv
<1>1. Init => Inv
  BY InitInvs, Zenon
<1>2. Inv /\ [Next]_vars => Inv'
  BY TypeStep, CacheInvStep, Zenon
<1>3. Inv => PendedBeforeReturned
  BY SMTT(40), CycleConstants, UniqueIds DEF UniqueIds, TypeOK, MemoTypes, PoolTypes,
    CacheInv, PendedBeforeReturned, Delivered
<1> QED
  BY <1>1, <1>2, <1>3, PTL DEF Spec

\* A response goes only to a call that proposed the match.
THEOREM RoutedToProposer == Spec => []ReturnedToProposer
<1> DEFINE Inv == TypeOK /\ RouteInv /\ ReturnedToProposer
<1>1. Init => Inv
  BY InitInvs, Zenon DEF Init, ReturnedToProposer
<1>2. Inv /\ [Next]_vars => Inv'
  BY TypeStep, RouteInvStep, RoutedStep, Zenon
<1> QED
  BY <1>1, <1>2, PTL DEF Spec

\* A call that returns nil has been sent every accepted match that is routed to
\* it.
THEOREM OkIsComplete ==
  ASSUME UniqueIds
  PROVE  Spec => []OkMeansComplete
<1> DEFINE Inv == TypeOK /\ StageOrder /\ ErrorFirst /\ RouteInv /\ AcceptedInv
<1>1. Init => Inv
  BY InitInvs, Zenon
<1>2. Inv /\ [Next]_vars => Inv'
  BY UniqueIds, TypeStep, StageOrderStep, ErrorFirstStep, RouteInvStep,
     AcceptedInvStep, Zenon
<1>3. Inv => OkMeansComplete
  BY Zenon DEF TypeOK, FanTypes, StageOrder, ErrorFirst, AcceptedInv,
     OkMeansComplete
<1> QED
  BY <1>1, <1>2, <1>3, PTL DEF Spec

\* A nil of Synchronize can be relied on for every number of calls and proposals:
\* no stage failed, and had two of the proposals shared a match_id, the evaluator
\* client would have found the second one and failed the cycle.
THEOREM OkCanBeReliedOn == Spec => []OkIsSound
<1> DEFINE Inv == /\ TypeOK /\ StageOrder /\ ErrorFirst /\ WindowInv
                  /\ ProposedInv /\ CollisionInv
<1>1. Init => Inv
  <2>1. Init => CollisionInv
    BY Zenon DEF Init, CollisionInv
  <2> QED
    BY <2>1, InitInvs, Zenon
<1>2. Inv /\ [Next]_vars => Inv'
  BY TypeStep, StageOrderStep, ErrorFirstStep, WindowInvStep, ProposedInvStep,
     CollisionInvStep, Zenon
<1>3. ASSUME Inv, NEW c \in Calls, handler[c] = "ok", timer # "fired",
             NEW p \in proposed, NEW q \in proposed, MatchId[p] = MatchId[q]
      PROVE  p = q
  <2>1. evalSend = "done"
    BY <1>3, Zenon DEF ErrorFirst, StageOrder, EvalFailed, TypeOK, EvalTypes
  <2>2. AllM1cSent /\ m2c \cup m3c \cup m4c \cup batch4 \cup toEval = {}
    BY <1>3, <2>1, Zenon DEF StageOrder, WindowInv
  <2>3. CallOf[p] \in Calls /\ CallOf[q] \in Calls
    BY <1>3, CycleConstants, Zenon DEF TypeOK, InTypes
  <2>4. m1c[CallOf[p]] = {} /\ m1c[CallOf[q]] = {}
    BY <1>3, <2>2, <2>3, Zenon DEF WindowInv, AllM1cSent
  <2>5. ~InFlight(p) /\ ~InFlight(q)
    BY <2>2, <2>4, Zenon DEF InFlight
  <2> QED
    BY <1>3, <2>1, <2>5, Zenon DEF CollisionInv
<1>4. Inv => OkIsSound
  <2>1. Inv => OkMeansEvaluated
    BY Zenon DEF ErrorFirst, OkMeansEvaluated
  <2>2. Inv => CollisionFailsCycle
    BY <1>3, Zenon DEF CollisionFailsCycle
  <2> QED
    BY <2>1, <2>2, Zenon DEF OkIsSound
<1> QED
  BY <1>1, <1>2, <1>4, PTL DEF Spec

\* No match id goes back to a call twice, whatever the evaluator returns and
\* however the ids of the match functions collide.
THEOREM IdsReturnedOnce == Spec => ReturnedOnce
<1> DEFINE Inv == TypeOK /\ OnceInv
<1>1. Init => Inv
  <2>1. Init => OnceInv
    BY Zenon DEF Init, OnceInv
  <2> QED
    BY <2>1, InitInvs, Zenon
<1>2. Inv /\ [Next]_vars => Inv'
  BY TypeStep, OnceInvStep, Zenon
<1>3. Inv /\ Inv' /\ [Next]_vars =>
        [\A c \in Calls : (batch7'[c] \ batch7[c]) \cap returned[c] = {}]_vars
  <2> SUFFICES ASSUME Inv, Next, NEW c \in Calls, NEW i \in batch7'[c],
                      i \notin batch7[c]
               PROVE  i \notin returned[c]
    BY Zenon
  <2>1. ASSUME NEW d \in Calls, Handler(d) PROVE batch7'[c] \subseteq batch7[c]
    BY <2>1, Zenon DEF Handler, SendStartMmfs, SendMatches, ResponsesClosed,
       SendCancelMmfs, HandlerDone, DrainReturn, pipe, batches, TypeOK, BatchTypes
  <2>2. CASE Fan
    BY <2>2 DEF Fan, FanIn, FanOut, FanInClosed, FanOutClosed, FanDrain,
       CloseResponses, Destination, OnceInv, pipe, batches
  <2>3. CASE \/ RunCycle \/ Memo \/ EvalClient \/ PendingRelease
             \/ \E d \in Calls : Receiver(d)
    BY <2>3, RunCycleFrame, MemoFrame, EvalClientFrame, PendingReleaseFrame,
       ReceiverFrame, Zenon DEF pipe, batches
  <2>4. CASE \/ CloseM2c \/ EvalStart \/ EvalStartFails \/ EvalRecvEnd
             \/ \E j \in Ids : EvalRecvId(j)
    BY <2>4, Zenon DEF CloseM2c, EvalStart, EvalStartFails, EvalRecvEnd, EvalRecvId,
       pipe, batches
  <2>5. CASE \E d \in Calls :
               \/ StartCycle(d) \/ Register(d) \/ CancelStream(d) \/ RecvEOF(d)
               \/ \E p \in Proposals : RecvProposal(d, p)
    BY <2>5, Zenon DEF StartCycle, Register, CancelStream, RecvEOF, ReceiverDone,
       RecvProposal, pipe, batches
  <2> QED
    BY <2>1, <2>2, <2>3, <2>4, <2>5, Zenon DEF Next
<1> QED
  BY <1>1, <1>2, <1>3, PTL DEF Spec, ReturnedOnce

\* The tickets of a cycle are all pending when its token goes back: no store call
\* of addMatchesToPendingRelease follows the close of closedOnCycleEnd.
THEOREM PendingSettled == Spec => PendingSettledAtCycleEnd
<1> DEFINE Inv == TypeOK /\ StageOrder
<1>1. Init => Inv
  BY InitInvs, Zenon
<1>2. Inv /\ [Next]_vars => Inv'
  BY TypeStep, StageOrderStep, Zenon
<1>3. Inv /\ [Next]_vars =>
        [(phase \in {"cleanup", "ended"}) => pended' = pended]_vars
  <2> SUFFICES ASSUME Inv, Next, pendingPc = "done"
               PROVE  pended' = pended
    BY Zenon DEF StageOrder
  <2>1. CASE \/ RunCycle \/ Fan \/ Memo \/ EvalClient
             \/ \E c \in Calls : Handler(c) \/ Receiver(c)
    BY <2>1, RunCycleFrame, FanFrame, MemoFrame, EvalClientFrame, HandlerFrame,
       ReceiverFrame, Zenon DEF pipe, poolVars
  <2>2. CASE PendingRelease
    BY <2>2, Zenon DEF PendingRelease, AddToPending, PendingDone, CloseM6c
  <2>3. CASE \/ CloseM2c \/ EvalStart \/ EvalStartFails \/ EvalRecvEnd
             \/ \E i \in Ids : EvalRecvId(i)
    BY <2>3, Zenon DEF CloseM2c, EvalStart, EvalStartFails, EvalRecvEnd, EvalRecvId,
       pipe, poolVars
  <2>4. CASE \E c \in Calls :
               \/ StartCycle(c) \/ Register(c) \/ CancelStream(c) \/ RecvEOF(c)
               \/ \E p \in Proposals : RecvProposal(c, p)
    BY <2>4, Zenon DEF StartCycle, Register, CancelStream, RecvEOF, ReceiverDone,
       RecvProposal, pipe, poolVars
  <2> QED
    BY <2>1, <2>2, <2>3, <2>4, Zenon DEF Next
<1> QED
  BY <1>1, <1>2, <1>3, PTL DEF Spec, PendingSettledAtCycleEnd
=============================================================================
