-------------------------- MODULE FetchScaleProofs --------------------------
(***************************************************************************)
(* Proofs about a FetchMatches call of the backend, for any match ids,     *)
(* number of proposals and faults, and about the programs of the scale     *)
(* test, which make such calls without end: its frontend and its backend,  *)
(* for any number of runners, profiles, workers and backfills.             *)
(***************************************************************************)
EXTENDS FetchMatches, Scale, FiniteSetTheorems, TLAPS

-----------------------------------------------------------------------------
(* A FetchMatches call. *)

\* The map runs ahead of the stream by the proposal synchronizeSend holds.
MapInv ==
    /\ IsFiniteSet(sent)
    /\ send \in {"select", "store", "done"} => m = sent
    /\ send = "send" => holding \notin sent /\ m = sent \cup {holding}
    /\ sent \subseteq m

Taken == IF holding = None THEN 0 ELSE 1

Offered == IF offer = None THEN 0 ELSE 1

\* Unless something fails, every proposal is offered, held or sent.
CountInv ==
    send # "failed" /\ mmfErr = "none"
      => produced = Cardinality(sent) + Taken + Offered

\* synchronizeRecv has dealt with every accepted match but the one it holds.
AnswerInv ==
    /\ delivered \cap dropped = {}
    /\ current \notin delivered \cup dropped
    /\ recv # "failed" => accepted = delivered \cup dropped \cup ({current} \ {None})

\* An error of the match function ends it, and the call returns nil only when no
\* part of it has failed.
OkInv ==
    /\ main \notin {"join", "ok", "error"} => mmfErr = "none"
    /\ main = "ok" => send = "done" /\ recv = "done" /\ mmfErr = "none"

FetchInv == TypeOK /\ MapInv /\ CountInv /\ AnswerInv /\ OkInv
-----------------------------------------------------------------------------
\* The initial state.
LEMMA FetchInitial == Init => FetchInv
<1> SUFFICES ASSUME Init PROVE FetchInv
  OBVIOUS
<1>1. TypeOK
  BY FetchConstants
  DEF Init, TypeOK, MainTypes, SendTypes, RecvTypes, SignalTypes, Kinds
<1>2. MapInv /\ CountInv
  BY FS_EmptySet DEF Init, MapInv, CountInv, Taken, Offered
<1>3. AnswerInv /\ OkInv
  BY FetchConstants DEF Init, AnswerInv, OkInv
<1> QED
  BY <1>1, <1>2, <1>3 DEF FetchInv

\* The number of ids handed to the stream, and what one more makes of it.
LEMMA SentCounted ==
    ASSUME IsFiniteSet(sent)
    PROVE  /\ Cardinality(sent) \in Nat
           /\ \A i \in Ids \ sent : /\ IsFiniteSet(sent \cup {i})
                                    /\ Cardinality(sent \cup {i}) = Cardinality(sent) + 1
BY FS_CardinalityType, FS_AddElement

Handler == Main \/ MmfEnds \/ MmfFails \/ \E i \in Ids : MmfProposes(i)

\* A step of the handler keeps the invariant.
LEMMA HandlerStep == ASSUME FetchInv, Handler PROVE FetchInv'
<1>1. UNCHANGED <<inputVars, sendVars, recvVars, signalVars, caller>>
  BY DEF Handler, Main, Open, NeverStarted, Started, Dial, MmfReturns, MmfEnds,
    MmfFails, OfferCancelled, Join, MmfProposes
<1>2. MainTypes'
  BY FetchConstants
  DEF FetchInv, TypeOK, MainTypes, Handler, Main, Open, NeverStarted, Started, Dial,
      MmfReturns, CloseProposals, Withdrawn, MmfEnds, MmfFails, OfferCancelled, Join,
      MmfProposes
<1>3. /\ SendTypes' /\ RecvTypes' /\ SignalTypes' /\ MapInv' /\ AnswerInv'
      /\ Taken' = Taken /\ Cardinality(sent') = Cardinality(sent)
  BY <1>1 DEF inputVars, sendVars, recvVars, signalVars, FetchInv, TypeOK, SendTypes,
              RecvTypes, SignalTypes, MapInv, AnswerInv, Taken
<1>4. ASSUME mmfErr' = "none"
      PROVE  mmfErr = "none" /\ (UNCHANGED <<produced, offer>> \/ \E i \in Ids : MmfProposes(i))
  BY <1>4 DEF FetchInv, OkInv, Handler, Main, Open, NeverStarted, Started, Dial,
    MmfReturns, MmfEnds, MmfFails, OfferCancelled, Join, MmfProposes
<1>5. CountInv'
  <2> SUFFICES ASSUME send # "failed", mmfErr' = "none"
               PROVE  produced' = Cardinality(sent) + Taken + Offered'
    BY <1>1, <1>3 DEF CountInv, sendVars
  <2>1. produced = Cardinality(sent) + Taken + Offered /\ Taken \in Nat /\ Cardinality(sent) \in Nat
    <3>1. Taken \in Nat
      BY DEF Taken
    <3>2. Cardinality(sent) \in Nat
      BY FS_CardinalityType, Zenon DEF FetchInv, MapInv
    <3> QED BY <1>4, <3>1, <3>2, Zenon DEF FetchInv, CountInv
  <2> HIDE DEF Taken
  <2> QED
    BY <1>4, <2>1, FetchConstants DEF FetchInv, TypeOK, MainTypes, MmfProposes, Offered
<1>6. OkInv'
  BY <1>1 DEF sendVars, recvVars, FetchInv, TypeOK, OkInv, MainTypes, Handler, Main,
      Open, NeverStarted, Started, Dial, MmfReturns, CloseProposals, Withdrawn, MmfEnds,
      MmfFails, OfferCancelled, Join, MmfProposes
<1> QED
  BY <1>2, <1>3, <1>5, <1>6 DEF FetchInv, TypeOK

\* A step of synchronizeSend keeps it.
LEMMA SenderStep == ASSUME FetchInv, Running, Send PROVE FetchInv'
<1> USE DEF Send, Take, StoreProposal, SendProposal, EndSend, NextStep, SendOrder, SendFailed
<1>1. /\ UNCHANGED <<inputVars, mmfErr, produced, proposals, recvVars, signalVars, caller>>
      /\ sent \subseteq sent'
  BY DEF SendFrame, mainVars
<1>2. MainTypes' /\ SendTypes'
  BY FetchConstants DEF FetchInv, TypeOK, MainTypes, SendTypes, SendFrame, mainVars
<1>3. RecvTypes' /\ SignalTypes' /\ AnswerInv'
  BY <1>1 DEF inputVars, recvVars, signalVars, FetchInv, TypeOK, RecvTypes,
              SignalTypes, AnswerInv
<1>4. MapInv'
  BY SentCounted DEF FetchInv, TypeOK, SendTypes, MapInv
<1>5. CountInv'
  BY SentCounted, FetchConstants
  DEF FetchInv, TypeOK, MainTypes, SendTypes, MapInv, CountInv, Taken, Offered,
      SendFrame, mainVars
<1>6. OkInv'
  BY <1>1 DEF recvVars, FetchInv, OkInv, Running, Returned, SendFrame, mainVars
<1> QED
  BY <1>2, <1>3, <1>4, <1>5, <1>6 DEF FetchInv, TypeOK

\* A step of synchronizeRecv keeps it.
LEMMA ReceiverStep == ASSUME FetchInv, Running, Recv PROVE FetchInv'
<1>1. UNCHANGED <<inputVars, mainVars, sendVars, caller>>
  BY DEF Recv, RecvStart, RecvCancel, RecvMatch, UpdateBackfill, ReleaseTickets,
    Deliver, RecvEOF, RecvError, RecvFrame
<1>2. MainTypes' /\ SendTypes' /\ MapInv' /\ CountInv'
  BY <1>1 DEF mainVars, sendVars, FetchInv, TypeOK, MainTypes, SendTypes, MapInv,
              CountInv, Taken, Offered
<1>3. RecvTypes' /\ SignalTypes' /\ AnswerInv'
  BY <1>1, FetchConstants
  DEF inputVars, sendVars, FetchInv, TypeOK, SendTypes, RecvTypes, SignalTypes, MapInv,
      AnswerInv, Recv, RecvStart, RecvCancel, RecvMatch, UpdateBackfill, ReleaseTickets,
      Deliver, Continue, RecvEOF, RecvError, recvVars, signalVars
<1>4. OkInv'
  BY <1>1 DEF mainVars, FetchInv, OkInv, Running, Returned
<1> QED
  BY <1>2, <1>3, <1>4 DEF FetchInv, TypeOK

\* The invariant is inductive.
LEMMA FetchInvStep == FetchInv /\ [Next]_vars => FetchInv'
<1> SUFFICES ASSUME FetchInv, CloseStartMmfs \/ CallerGone \/ UNCHANGED vars
             PROVE  FetchInv'
  BY HandlerStep, SenderStep, ReceiverStep DEF Next, Handler
<1>1. UNCHANGED <<inputVars, mainVars, sendVars, recvVars>> /\ SignalTypes'
  BY DEF CloseStartMmfs, CallerGone, RecvFrame, vars, FetchInv, TypeOK,
         SignalTypes, inputVars, signalVars
<1> QED
  BY <1>1 DEF inputVars, mainVars, sendVars, recvVars, FetchInv, TypeOK, MainTypes,
              SendTypes, RecvTypes, MapInv, CountInv, Taken, Offered, AnswerInv, OkInv

\* The invariant holds in every behaviour.
LEMMA Invariant == Spec => []FetchInv
<1>1. Init => FetchInv
  BY FetchInitial
<1>2. FetchInv /\ [Next]_vars => FetchInv'
  BY FetchInvStep
<1> QED
  BY <1>1, <1>2, PTL DEF Spec
-----------------------------------------------------------------------------
\* The types of a FetchMatches call's state.
THEOREM FetchTypes == Spec => []TypeOK
<1>1. FetchInv => TypeOK
  BY DEF FetchInv
<1> QED
  BY <1>1, Invariant, PTL

\* A FetchMatches call that returns nil has handed every proposal to the
\* synchronizer and delivered every match it returned, but those it dropped.
THEOREM OkIsComplete == Spec => []OkMeansComplete
<1>1. FetchInv => OkMeansComplete
  <2> SUFFICES ASSUME FetchInv, main = "ok"
               PROVE  Cardinality(sent) = produced /\ accepted = delivered \cup dropped
    BY DEF OkMeansComplete
  <2>1. send = "done" /\ recv = "done" /\ mmfErr = "none"
    BY DEF FetchInv, OkInv
  <2>2. holding = None /\ offer = None /\ current = None
    BY <2>1 DEF FetchInv, TypeOK, MainTypes, SendTypes, RecvTypes
  <2>3. produced = Cardinality(sent) + 0 + 0
    BY <2>1, <2>2 DEF FetchInv, CountInv, Taken, Offered
  <2>4. Cardinality(sent) \in Nat
    BY FS_CardinalityType DEF FetchInv, MapInv
  <2> QED
    BY <2>1, <2>2, <2>3, <2>4 DEF FetchInv, AnswerInv
<1> QED
  BY <1>1, Invariant, PTL

\* A match that FetchMatches drops, and whose tickets it releases, is never
\* delivered.
THEOREM DroppedStaysDropped == Spec => []DroppedNotDelivered
<1>1. FetchInv => DroppedNotDelivered
  BY DEF FetchInv, AnswerInv, DroppedNotDelivered
<1> QED
  BY <1>1, Invariant, PTL

-----------------------------------------------------------------------------
(* The programs of the scale test. *)

\* A set of those that are at something, with one more of them and one less.
LEMMA OneMoreOrLess ==
    ASSUME NEW S, IsFiniteSet(S), NEW T \in SUBSET S, NEW x \in S
    PROVE  /\ x \in T => Cardinality(T \ {x}) = Cardinality(T) - 1
           /\ x \notin T => Cardinality(T \cup {x}) = Cardinality(T) + 1
<1>1. IsFiniteSet(T)
  BY FS_Subset, Zenon
<1> QED BY <1>1, FS_RemoveElement, FS_AddElement, Zenon

-----------------------------------------------------------------------------
(* The gauges of the scale frontend.                                       *)

Phases == {"no", "start", "waiting", "creating", "watching", "deleting", "done"}
StageOf(phase) == IF phase = "waiting" THEN "waiting"
                  ELSE IF phase \in {"creating", "watching", "deleting"} THEN "creating" ELSE Absent

InStage(g) == {r \in Runners : gaugeOf[r] = g}

\* A runner is in the stage its goroutine has begun, and the gauges count who is.
StageInv ==
    /\ runner \in [Runners -> Phases] /\ gaugeOf \in [Runners -> Gauges \cup {Absent}]
    /\ gauge \in [Gauges -> Int]
    /\ \A r \in Runners : gaugeOf[r] = StageOf(runner[r])
    /\ \A g \in Gauges : gauge[g] = Cardinality(InStage(g))

\* A runner that comes into a stage, or leaves it, makes one more or one less.
LEMMA StageCount ==
    ASSUME NEW g
    PROVE  /\ \A r \in InStage(g) : Cardinality(InStage(g) \ {r}) = Cardinality(InStage(g)) - 1
           /\ \A r \in Runners \ InStage(g) :
                Cardinality(InStage(g) \cup {r}) = Cardinality(InStage(g)) + 1
BY ScaleAssumption, OneMoreOrLess, Zenon DEF InStage

\* The gauges that stop and start change move with the runner from stage to stage.
LEMMA Restage ==
    ASSUME StageInv, NEW r \in Runners, NEW h \in Gauges \cup {Absent}, h # gaugeOf[r],
           gaugeOf' = [gaugeOf EXCEPT ![r] = h],
           gauge' = IF h = Absent THEN StopStage(r) ELSE [StopStage(r) EXCEPT ![h] = @ + 1]
    PROVE  /\ gauge' \in [Gauges -> Int]
           /\ \A g \in Gauges : gauge'[g] = Cardinality(InStage(g)')
<1> DEFINE old == gaugeOf[r]
<1>1. old \in Gauges \cup {Absent} /\ gauge \in [Gauges -> Int]
  BY Zenon DEF StageInv
<1>2. Absent \notin Gauges
  BY Zenon DEF Absent, Gauges
<1>3. /\ gauge' \in [Gauges -> Int]
      /\ \A g \in Gauges : gauge'[g] = IF g = old THEN gauge[g] - 1
                                       ELSE IF g = h THEN gauge[g] + 1 ELSE gauge[g]
  BY <1>1, <1>2 DEF StopStage, Add
<1>4. ASSUME NEW g \in Gauges PROVE gauge'[g] = Cardinality(InStage(g)')
  <2>1. gauge[g] = Cardinality(InStage(g))
    BY Zenon DEF StageInv
  <2>2. CASE g = old
    <3>1. InStage(g)' = InStage(g) \ {r} /\ r \in InStage(g)
      BY <2>2, Zenon DEF InStage, StageInv
    <3>2. Cardinality(InStage(g)') = Cardinality(InStage(g)) - 1
      BY <3>1, StageCount, Zenon
    <3> QED BY <1>3, <2>1, <2>2, <3>2, Zenon
  <2>3. CASE g = h
    <3>1. InStage(g)' = InStage(g) \cup {r} /\ r \in Runners \ InStage(g)
      BY <2>3, Zenon DEF InStage, StageInv
    <3>2. Cardinality(InStage(g)') = Cardinality(InStage(g)) + 1
      BY <3>1, StageCount, Zenon
    <3> QED BY <1>3, <2>1, <2>3, <3>2, Zenon
  <2>4. CASE g # old /\ g # h
    <3>1. InStage(g)' = InStage(g)
      BY <2>4, Zenon DEF InStage, StageInv
    <3> QED BY <1>3, <2>1, <2>4, <3>1, Zenon
  <2> QED BY <2>2, <2>3, <2>4, Zenon
<1> QED BY <1>3, <1>4, Zenon

\* A stage that is begun ends the one before it.
LEMMA StageStep ==
    ASSUME StageInv, NEW r \in Runners, NEW phase \in Phases, NEW h \in Gauges \cup {Absent},
           h = StageOf(phase), h # gaugeOf[r],
           gaugeOf' = [gaugeOf EXCEPT ![r] = h], runner' = [runner EXCEPT ![r] = phase],
           gauge' = IF h = Absent THEN StopStage(r) ELSE [StopStage(r) EXCEPT ![h] = @ + 1]
    PROVE  StageInv'
<1>1. runner' \in [Runners -> Phases] /\ gaugeOf' \in [Runners -> Gauges \cup {Absent}]
  BY Zenon DEF StageInv
<1>2. \A u \in Runners : gaugeOf'[u] = StageOf(runner'[u])
  BY Zenon DEF StageInv
<1> QED BY <1>1, <1>2, Restage, Zenon DEF StageInv

\* Steps of a runner within a stage, and those of everybody else, leave the gauges alone.
LEMMA SameStage ==
    ASSUME StageInv, NEW r \in Runners, NEW phase \in Phases,
           StageOf(phase) = gaugeOf[r], Goes(r, phase) \/ UNCHANGED <<runner, gaugeOf, gauge>>
    PROVE  StageInv'
<1>1. gaugeOf' = gaugeOf /\ gauge' = gauge
  BY Zenon DEF Goes
<1>2. runner' \in [Runners -> Phases] /\ \A u \in Runners : gaugeOf'[u] = StageOf(runner'[u])
  BY <1>1, Zenon DEF Goes, StageInv
<1> QED BY <1>1, <1>2, Zenon DEF StageInv, InStage

\* Every stage of a runner that was begun is ended once, on whichever path it ends.
THEOREM GaugesRight == ScaleSpec => []GaugesCountRunners
<1> USE DEF StageOf, Phases, Gauges, Absent
<1>1. ScaleInit => StageInv
  <2> SUFFICES ASSUME ScaleInit PROVE StageInv
    BY Zenon
  <2>1. ASSUME NEW g \in Gauges PROVE InStage(g) = {} /\ gauge[g] = 0
    BY <2>1, Zenon DEF ScaleInit, InStage
  <2>2. \A g \in Gauges : gauge[g] = Cardinality(InStage(g))
    BY <2>1, FS_EmptySet, Zenon
  <2>3. gauge \in [Gauges -> Int] /\ runner \in [Runners -> Phases]
    BY DEF ScaleInit
  <2>4. gaugeOf \in [Runners -> Gauges \cup {Absent}] /\ \A r \in Runners : gaugeOf[r] = StageOf(runner[r])
    BY Zenon DEF ScaleInit
  <2> QED BY <2>2, <2>3, <2>4, Zenon DEF StageInv
<1>2. StageInv /\ [ScaleNext]_scaleVars => StageInv'
  <2> SUFFICES ASSUME StageInv, [ScaleNext]_scaleVars PROVE StageInv'
    BY Zenon
  <2>1. ASSUME UNCHANGED <<runner, gaugeOf, gauge>> PROVE StageInv'
    BY <2>1, Zenon DEF StageInv, InStage
  <2>2. ASSUME NEW r \in Runners, runner[r] \in {"creating", "watching", "deleting"}, EndsRunner(r)
        PROVE  StageInv'
    <3>1. gaugeOf[r] = "creating"
      BY <2>2, Zenon DEF StageInv
    <3> QED BY <2>2, <3>1, StageStep, Zenon DEF EndsRunner
  <2>3. ASSUME NEW r \in Runners, Spawn(r) PROVE StageInv'
    <3>1. gaugeOf[r] = Absent /\ Goes(r, "start")
      BY <2>3, Zenon DEF Spawn, Goes, StageInv
    <3> QED BY <3>1, SameStage, Zenon
  <2>4. ASSUME NEW r \in Runners, Waits(r) PROVE StageInv'
    <3>1. gaugeOf[r] = Absent
      BY <2>4, Zenon DEF Waits, StageInv
    <3> QED BY <2>4, <3>1, StageStep, Zenon DEF Waits, StartStage
  <2>5. ASSUME NEW r \in Runners, Creates(r) PROVE StageInv'
    <3>1. gaugeOf[r] = "waiting"
      BY <2>5, Zenon DEF Creates, StageInv
    <3> QED BY <2>5, <3>1, StageStep, Zenon DEF Creates, StartStage
  <2>6. ASSUME NEW r \in Runners, CreateTicket(r) \/ WatchAssignments(r) \/ DeleteTicket(r)
        PROVE  StageInv'
    <3>1. gaugeOf[r] = "creating"
      BY <2>6, Zenon DEF CreateTicket, WatchAssignments, DeleteTicket, StageInv
    <3>2. EndsRunner(r) \/ Goes(r, "watching") \/ Goes(r, "deleting")
      BY <2>6, Zenon DEF CreateTicket, WatchAssignments, DeleteTicket
    <3>3. runner[r] \in {"creating", "watching", "deleting"}
      BY <2>6, Zenon DEF CreateTicket, WatchAssignments, DeleteTicket
    <3> QED BY <2>2, <3>1, <3>2, <3>3, SameStage, Zenon
  <2>7. ASSUME NEW p \in Profiles, FetcherStep(p) PROVE UNCHANGED <<runner, gaugeOf, gauge>>
    BY <2>7, Zenon DEF FetcherStep, Receives, SendToAssign, SendToAcknowledge, frontVars
  <2>8. ASSUME NEW w \in Workers, WorkerStep(w) PROVE UNCHANGED <<runner, gaugeOf, gauge>>
    BY <2>8, Zenon DEF WorkerStep, TakeAssign, AssignTickets, TakeAcknowledge,
       AcknowledgeBackfill, SendToDelete, TakeDelete, DeleteBackfill, frontVars
  <2>9. ASSUME CreateBackfill \/ Tick \/ UNCHANGED scaleVars PROVE UNCHANGED <<runner, gaugeOf, gauge>>
    BY <2>9, Zenon DEF CreateBackfill, Tick, scaleVars, frontVars
  <2> QED
    BY <2>1, <2>3, <2>4, <2>5, <2>6, <2>7, <2>8, <2>9, Zenon DEF ScaleNext, RunnerStep
<1>3. StageInv => GaugesCountRunners
  <2> SUFFICES ASSUME StageInv PROVE GaugesCountRunners
    BY Zenon
  <2>1. InStage("waiting") = {r \in Runners : runner[r] = "waiting"}
    BY Zenon DEF StageInv, InStage
  <2>2. InStage("creating") = {r \in Runners : runner[r] \in {"creating", "watching", "deleting"}}
    BY Zenon DEF StageInv, InStage
  <2> QED BY <2>1, <2>2, Zenon DEF StageInv, GaugesCountRunners
<1> QED BY <1>1, <1>2, <1>3, PTL DEF ScaleSpec

-----------------------------------------------------------------------------
(* What the goroutines of the scale backend have in hand.                  *)

MatchRecords == [tickets : SUBSET Runners, backfill : OpenBackfills \cup {Absent}, slots : Nat]
FetcherStates ==
    {Idle, [at |-> "fetch"]} \cup [at : {"toAssign", "toAcknowledge"}, match : MatchRecords]
WorkerStates == {Idle} \cup [at : {"call", "send"}, match : MatchRecords]

HandTypes ==
    /\ openSlots \in [OpenBackfills -> -1..Slots]
    /\ fetcher \in [Profiles -> FetcherStates] /\ worker \in [Roles -> [Workers -> WorkerStates]]
    /\ toAssign \in Seq(MatchRecords) /\ toAcknowledge \in Seq(MatchRecords)
    /\ toDelete \in Seq(MatchRecords)
    /\ count \in [Counters -> Nat]

\* What Open Match returns is a match that may be handed on.
LEMMA Fetchable ==
    ASSUME HandTypes PROVE FetchedMatches \subseteq MatchRecords
BY ScaleAssumption DEF HandTypes, FetchedMatches, MatchRecords

LEMMA HeldTypes ==
    ASSUME NEW e \in MatchRecords
    PROVE  /\ Holds(e, "toAssign") \in FetcherStates /\ Holds(e, "toAcknowledge") \in FetcherStates
           /\ Holds(e, "call") \in WorkerStates /\ Holds(e, "send") \in WorkerStates
BY DEF Holds, FetcherStates, WorkerStates

\* What a goroutine that is not idle has in hand is a match.
LEMMA InHand ==
    ASSUME HandTypes
    PROVE  /\ \A p \in Profiles : fetcher[p].at \in {"toAssign", "toAcknowledge"}
                => fetcher[p].match \in MatchRecords
           /\ \A k \in Roles, w \in Workers : worker[k][w].at \in {"call", "send"}
                => worker[k][w].match \in MatchRecords
<1>1. ASSUME NEW p \in Profiles, fetcher[p].at \in {"toAssign", "toAcknowledge"}
      PROVE  fetcher[p].match \in MatchRecords
  <2>1. fetcher[p] \in FetcherStates
    BY DEF HandTypes
  <2> QED BY <1>1, <2>1 DEF FetcherStates, Idle
<1>2. ASSUME NEW k \in Roles, NEW w \in Workers, worker[k][w].at \in {"call", "send"}
      PROVE  worker[k][w].match \in MatchRecords
  <2>1. worker[k][w] \in WorkerStates
    BY DEF HandTypes
  <2> QED BY <1>2, <2>1 DEF WorkerStates, Idle
<1> QED BY <1>1, <1>2, Zenon

\* A goroutine that becomes something it may be leaves the others what they are.
LEMMA BecomesType ==
    ASSUME HandTypes, NEW k \in Roles, NEW w \in Workers, NEW what \in WorkerStates,
           Becomes(k, w, what)
    PROVE  /\ worker' \in [Roles -> [Workers -> WorkerStates]]
           /\ worker'[k][w] = what
           /\ \A j \in Roles, v \in Workers : <<j, v>> # <<k, w>> => worker'[j][v] = worker[j][v]
BY DEF HandTypes, Becomes

\* A channel from which the head is taken, and one to which a match is sent.
LEMMA Channels ==
    ASSUME NEW q \in Seq(MatchRecords)
    PROVE  /\ \A e \in MatchRecords : /\ Append(q, e) \in Seq(MatchRecords)
                                      /\ Len(Append(q, e)) = Len(q) + 1
           /\ q # <<>> => /\ Tail(q) \in Seq(MatchRecords) /\ Head(q) \in MatchRecords
                          /\ Len(Tail(q)) = Len(q) - 1
           /\ Len(q) \in Nat
OBVIOUS

LEMMA HandTypesInit == ScaleInit => HandTypes
<1> SUFFICES ASSUME ScaleInit PROVE HandTypes
  BY Zenon
<1>1. openSlots \in [OpenBackfills -> -1..Slots] /\ count \in [Counters -> Nat]
  BY ScaleAssumption DEF ScaleInit
<1>2. fetcher \in [Profiles -> FetcherStates] /\ worker \in [Roles -> [Workers -> WorkerStates]]
  BY DEF ScaleInit, FetcherStates, WorkerStates
<1>3. \A q \in {toAssign, toAcknowledge, toDelete} : q \in Seq(MatchRecords)
  <2>1. <<>> \in Seq(MatchRecords)
    OBVIOUS
  <2> QED BY <2>1, Zenon DEF ScaleInit
<1> QED BY <1>1, <1>2, <1>3, Zenon DEF HandTypes

\* The steps of a worker.
LEMMA HandTypesWorker ==
    ASSUME HandTypes, NEW w \in Workers, WorkerStep(w) PROVE HandTypes'
<1> USE DEF Roles
<1>1. Idle \in WorkerStates
  BY Zenon DEF WorkerStates
<1>2. CASE TakeAssign(w)
  <2>1. Head(toAssign) \in MatchRecords /\ toAssign' \in Seq(MatchRecords)
    BY <1>2, Channels, Zenon DEF TakeAssign, HandTypes
  <2>2. worker' \in [Roles -> [Workers -> WorkerStates]]
    BY <1>2, <2>1, HeldTypes, BecomesType, Zenon DEF TakeAssign
  <2> QED BY <1>2, <2>1, <2>2, Zenon DEF HandTypes, TakeAssign, storeVars
<1>3. CASE AssignTickets(w)
  <2>1. worker' \in [Roles -> [Workers -> WorkerStates]]
    BY <1>1, <1>3, BecomesType, Zenon DEF AssignTickets
  <2>2. count' \in [Counters -> Nat]
    <3>1. \E c \in Counters : count' = [count EXCEPT ![c] = @ + 1]
      BY <1>3, Zenon DEF AssignTickets, Counted, FailedAssign, Counters
    <3> QED BY <3>1 DEF HandTypes
  <2> QED BY <1>3, <2>1, <2>2, Zenon DEF HandTypes, AssignTickets
<1>4. CASE TakeAcknowledge(w)
  <2>1. Head(toAcknowledge) \in MatchRecords /\ toAcknowledge' \in Seq(MatchRecords)
    BY <1>4, Channels, Zenon DEF TakeAcknowledge, HandTypes
  <2>2. worker' \in [Roles -> [Workers -> WorkerStates]]
    BY <1>1, <1>4, <2>1, HeldTypes, BecomesType, Zenon DEF TakeAcknowledge
  <2> QED BY <1>4, <2>1, <2>2, Zenon DEF HandTypes, TakeAcknowledge, storeVars
<1>5. CASE AcknowledgeBackfill(w)
  <2>1. worker["acknowledge"][w].match \in MatchRecords
    BY <1>5, InHand, Zenon DEF AcknowledgeBackfill
  <2>2. worker' \in [Roles -> [Workers -> WorkerStates]]
    BY <1>1, <1>5, <2>1, HeldTypes, BecomesType, Zenon DEF AcknowledgeBackfill,
      NotAcknowledged
  <2> QED BY <1>5, <2>2, Zenon DEF HandTypes, AcknowledgeBackfill
<1>6. CASE SendToDelete(w)
  <2>1. worker["acknowledge"][w].match \in MatchRecords
    BY <1>6, InHand, Zenon DEF SendToDelete
  <2>2. worker' \in [Roles -> [Workers -> WorkerStates]]
    BY <1>1, <1>6, BecomesType, Zenon DEF SendToDelete
  <2>3. toDelete' \in Seq(MatchRecords)
    BY <1>6, <2>1, Channels, Zenon DEF SendToDelete, HandTypes
  <2> QED BY <1>6, <2>2, <2>3, Zenon DEF HandTypes, SendToDelete, storeVars
<1>7. CASE TakeDelete(w)
  <2>1. Head(toDelete) \in MatchRecords /\ toDelete' \in Seq(MatchRecords)
    BY <1>7, Channels, Zenon DEF TakeDelete, HandTypes
  <2>2. worker' \in [Roles -> [Workers -> WorkerStates]]
    BY <1>1, <1>7, <2>1, HeldTypes, BecomesType, Zenon DEF TakeDelete
  <2> QED BY <1>7, <2>1, <2>2, Zenon DEF HandTypes, TakeDelete, storeVars
<1>8. CASE DeleteBackfill(w)
  <2>1. worker' \in [Roles -> [Workers -> WorkerStates]]
    BY <1>1, <1>8, BecomesType, Zenon DEF DeleteBackfill
  <2>2. openSlots' \in [OpenBackfills -> -1..Slots]
    <3>1. -1 \in -1..Slots
      BY ScaleAssumption
    <3> QED BY <1>8, <3>1, Zenon DEF DeleteBackfill, HandTypes
  <2> QED BY <1>8, <2>1, <2>2, Zenon DEF HandTypes, DeleteBackfill
<1> QED BY <1>2, <1>3, <1>4, <1>5, <1>6, <1>7, <1>8, Zenon DEF WorkerStep

\* The steps of a call for matches.
LEMMA HandTypesFetcher ==
    ASSUME HandTypes, NEW p \in Profiles, FetcherStep(p) PROVE HandTypes'
<1>1. Idle \in FetcherStates /\ [at |-> "fetch"] \in FetcherStates
  BY Zenon DEF FetcherStates
<1>2. CASE Receives(p)
  <2>1. count' \in [Counters -> Nat]
    <3>1. \E c \in Counters : count' = [count EXCEPT ![c] = @ + 1]
      BY <1>2, Zenon DEF Receives, Counted, Counters
    <3> QED BY <3>1 DEF HandTypes
  <2>2. fetcher' \in [Profiles -> FetcherStates]
    <3>1. ASSUME NEW e \in FetchedMatches, fetcher' = [fetcher EXCEPT ![p] = Holds(e, "toAssign")]
          PROVE  fetcher' \in [Profiles -> FetcherStates]
      <4>1. Holds(e, "toAssign") \in FetcherStates
        BY HeldTypes, Fetchable, Zenon
      <4> QED BY <3>1, <4>1, Zenon DEF HandTypes
    <3> QED BY <1>1, <1>2, <3>1, Zenon DEF Receives, HandTypes
  <2>3. openSlots' \in [OpenBackfills -> -1..Slots]
    <3>1. CASE UNCHANGED storeVars
      BY <3>1, Zenon DEF HandTypes, storeVars
    <3>2. ASSUME NEW e \in FetchedMatches,
                 openSlots' = [b \in OpenBackfills |-> IF b = e.backfill THEN e.slots ELSE openSlots[b]]
          PROVE  openSlots' \in [OpenBackfills -> -1..Slots]
      BY <3>2, ScaleAssumption DEF FetchedMatches, HandTypes
    <3> QED BY <1>2, <3>1, <3>2, Zenon DEF Receives
  <2> QED BY <1>2, <2>1, <2>2, <2>3, Zenon DEF HandTypes, Receives
<1>3. CASE SendToAssign(p)
  <2>1. fetcher[p].match \in MatchRecords
    BY <1>3, InHand, Zenon DEF SendToAssign
  <2>2. toAssign' \in Seq(MatchRecords)
    BY <1>3, <2>1, Channels, Zenon DEF SendToAssign, SentOn, HandTypes
  <2>3. fetcher' = [fetcher EXCEPT ![p] = Holds(fetcher[p].match, "toAcknowledge")]
    <3>1. fetcher[p] \in FetcherStates /\ fetcher[p].at = "toAssign"
      BY <1>3 DEF HandTypes, SendToAssign
    <3>2. fetcher[p] \in [at : {"toAssign", "toAcknowledge"}, match : MatchRecords]
      BY <3>1 DEF FetcherStates, Idle
    <3>3. [fetcher[p] EXCEPT !.at = "toAcknowledge"] = Holds(fetcher[p].match, "toAcknowledge")
      BY <3>2 DEF Holds
    <3> QED BY <1>3, <3>3, Zenon DEF SendToAssign
  <2>4. fetcher' \in [Profiles -> FetcherStates]
    BY <2>1, <2>3, HeldTypes, Zenon DEF HandTypes
  <2> QED BY <1>3, <2>2, <2>4, Zenon DEF HandTypes, SendToAssign, storeVars
<1>4. CASE SendToAcknowledge(p)
  <2>1. fetcher[p].match \in MatchRecords
    BY <1>4, InHand, Zenon DEF SendToAcknowledge
  <2>2. toAcknowledge' \in Seq(MatchRecords)
    BY <1>4, <2>1, Channels, Zenon DEF SendToAcknowledge, SentOn, HandTypes
  <2>3. fetcher' \in [Profiles -> FetcherStates]
    BY <1>1, <1>4, Zenon DEF SendToAcknowledge, HandTypes
  <2> QED BY <1>4, <2>2, <2>3, Zenon DEF HandTypes, SendToAcknowledge, storeVars
<1> QED BY <1>2, <1>3, <1>4, Zenon DEF FetcherStep

LEMMA HandTypesStep ==
    ASSUME HandTypes, [ScaleNext]_scaleVars PROVE HandTypes'
<1>1. CASE UNCHANGED <<openSlots, backVars>>
  BY <1>1, Zenon DEF HandTypes, backVars
<1>2. CASE CreateBackfill
  <2>1. openSlots' \in [OpenBackfills -> -1..Slots]
    BY <1>2, ScaleAssumption DEF CreateBackfill, HandTypes
  <2> QED BY <1>2, <2>1, Zenon DEF HandTypes, CreateBackfill, backVars
<1>3. CASE Tick
  <2>1. fetcher' \in [Profiles -> FetcherStates]
    BY <1>3, Zenon DEF Tick, FetcherStates
  <2>2. Cardinality(Profiles) \in Nat
    BY ScaleAssumption, FS_CardinalityType, Zenon
  <2>3. count' \in [Counters -> Nat]
    BY <1>3, <2>2 DEF Tick, HandTypes, Counters
  <2> QED BY <1>3, <2>1, <2>3, Zenon DEF HandTypes, Tick, storeVars
<1>4. ASSUME NEW r \in Runners, RunnerStep(r) PROVE UNCHANGED <<openSlots, backVars>>
  BY <1>4, Zenon DEF RunnerStep, Spawn, Waits, Creates, CreateTicket,
    WatchAssignments, DeleteTicket, storeVars
<1>5. CASE UNCHANGED scaleVars
  BY <1>1, <1>5, Zenon DEF scaleVars, storeVars
<1> QED
  BY <1>1, <1>2, <1>3, <1>4, <1>5, HandTypesFetcher, HandTypesWorker, Zenon DEF
    ScaleNext

-----------------------------------------------------------------------------
(* When the scale backend deletes a backfill.                              *)

TicketStates == {"no", "open", "pending", "assigned", "deleted"}
Settled == {"assigned", "deleted"}
Created == {"watching", "deleting", "done"}

\* There is an open ticket, and one matched with a backfill, only once its runner
\* has created it, and there are runners only once the backfills have been created.
CreatedInv ==
    /\ creating \in Nat
    /\ runner \in [Runners -> Phases] /\ ticket \in [Runners -> TicketStates]
    /\ matched \in [OpenBackfills -> SUBSET Runners]
    /\ \A r \in Runners : runner[r] # "no" => creating = 0
    /\ \A r \in Runners : ticket[r] = "open" => runner[r] \in Created
    /\ \A b \in OpenBackfills : \A r \in matched[b] : runner[r] \in Created

\* What an assignment does to the tickets.
LEMMA AssignedTickets ==
    ASSUME CreatedInv, NEW ts
    PROVE  /\ AssignedTo(ts) \in [Runners -> TicketStates]
           /\ \A r \in Runners : /\ ticket[r] \in Settled => AssignedTo(ts)[r] \in Settled
                                 /\ r \in ts => AssignedTo(ts)[r] \in Settled
                                 /\ AssignedTo(ts)[r] \in {"assigned", ticket[r]}
BY Zenon DEF CreatedInv, AssignedTo, TicketStates, Settled

\* A runner creates its ticket once, so its steps leave a settled ticket settled.
LEMMA RunnerTickets ==
    ASSUME CreatedInv, NEW r \in Runners, RunnerStep(r)
    PROVE  /\ CreatedInv'
           /\ \A s \in Runners : runner[s] \in Created /\ ticket[s] \in Settled
                => ticket'[s] \in Settled
           /\ UNCHANGED <<creating, openSlots, matched, backVars>>
<1> USE DEF TicketStates, Settled, Created, Phases
<1>1. UNCHANGED <<creating, openSlots, matched, backVars>>
  BY Zenon DEF RunnerStep, Spawn, Waits, Creates, CreateTicket, WatchAssignments,
    DeleteTicket, storeVars
<1>2. /\ creating = 0 /\ runner' \in [Runners -> Phases]
      /\ \A s \in Runners : runner[s] \in Created => runner'[s] \in Created
  BY Zenon DEF RunnerStep, Spawn, Waits, Creates, CreateTicket, WatchAssignments,
    DeleteTicket, StartStage, EndsRunner, Goes, CreatedInv
<1>3. \/ ticket' = ticket
      \/ ticket' = [ticket EXCEPT ![r] = "deleted"]
      \/ /\ ticket' = [ticket EXCEPT ![r] = "open"]
         /\ runner[r] \notin Created /\ runner'[r] \in Created
  BY Zenon DEF RunnerStep, Spawn, Waits, Creates, CreateTicket, WatchAssignments,
    DeleteTicket, EndsRunner, Goes, CreatedInv, storeVars
<1>4. /\ ticket' \in [Runners -> TicketStates]
      /\ \A s \in Runners : /\ runner[s] \in Created /\ ticket[s] \in Settled => ticket'[s] \in Settled
                            /\ ticket'[s] = "open" => runner'[s] \in Created
  BY <1>2, <1>3, Zenon DEF CreatedInv
<1>5. \A b \in OpenBackfills : \A s \in matched'[b] : runner'[s] \in Created
  BY <1>1, <1>2, Zenon DEF CreatedInv
<1> QED BY <1>1, <1>2, <1>4, <1>5, Zenon DEF CreatedInv

\* A match is received only when the backfills have been created; it takes
\* tickets that were open, and nothing from a backfill that is full.
LEMMA Received ==
    ASSUME CreatedInv, HandTypes, NEW e \in FetchedMatches,
           ticket' = [r \in Runners |-> IF r \in e.tickets THEN "pending" ELSE ticket[r]],
           openSlots' = [b \in OpenBackfills |-> IF b = e.backfill THEN e.slots ELSE openSlots[b]],
           matched' = [b \in OpenBackfills |->
                        matched[b] \cup (IF b = e.backfill THEN e.tickets ELSE {})],
           UNCHANGED frontVars
    PROVE  /\ CreatedInv' /\ creating = 0
           /\ \A s \in Runners : ticket[s] \in Settled => ticket'[s] \in Settled
           /\ \A b \in OpenBackfills : /\ openSlots'[b] <= openSlots[b]
                                       /\ openSlots[b] <= 0 => matched'[b] = matched[b]
           /\ e.backfill # Absent => e.backfill \in OpenBackfills /\ openSlots'[e.backfill] <= e.slots
<1> USE DEF TicketStates, Settled, Created
<1>1. PICK r \in Runners, c \in {Absent} \cup {d \in OpenBackfills : openSlots[d] > 0} :
        /\ ticket[r] = "open"
        /\ e = [tickets |-> {r}, backfill |-> c, slots |-> IF c = Absent THEN 0 ELSE openSlots[c] - 1]
  BY DEF FetchedMatches
<1>2. creating = 0 /\ runner[r] \in Created
  BY <1>1, Zenon DEF CreatedInv
<1>3. /\ e.tickets = {r} /\ e.backfill = c
      /\ c # Absent => c \in OpenBackfills /\ openSlots[c] > 0 /\ e.slots = openSlots[c] - 1
  BY <1>1
<1>4. /\ ticket' \in [Runners -> TicketStates]
      /\ \A s \in Runners : /\ ticket[s] \in Settled => ticket'[s] \in Settled
                            /\ ticket'[s] = "open" => ticket[s] = "open"
  BY <1>1, <1>3, Zenon DEF CreatedInv
<1>5. /\ matched' \in [OpenBackfills -> SUBSET Runners]
      /\ \A b \in OpenBackfills : \A s \in matched'[b] : runner[s] \in Created
      /\ \A b \in OpenBackfills : matched'[b] # matched[b] => b = c
  BY <1>2, <1>3, Zenon DEF CreatedInv
<1>6. CreatedInv'
  BY <1>2, <1>4, <1>5, Zenon DEF CreatedInv, frontVars
<1>7. ASSUME NEW b \in OpenBackfills
      PROVE  /\ openSlots'[b] <= openSlots[b]
             /\ openSlots[b] <= 0 => matched'[b] = matched[b]
             /\ b = c => openSlots'[b] <= e.slots
  <2>1. openSlots[b] \in Int /\ b # Absent
    BY ScaleAssumption DEF HandTypes
  <2>2. CASE b = c
    BY <1>3, <2>1, <2>2
  <2>3. CASE b # c
    BY <1>3, <1>5, <2>1, <2>3
  <2> QED BY <2>2, <2>3, Zenon
<1> QED BY <1>2, <1>3, <1>4, <1>6, <1>7, Zenon

\* Once the backfills have been created, open slots are only taken, a full
\* backfill takes no ticket, and a settled ticket stays so.
LEMMA Forward ==
    ASSUME CreatedInv, HandTypes, [ScaleNext]_scaleVars
    PROVE  /\ CreatedInv'
           /\ \A s \in Runners : runner[s] \in Created /\ ticket[s] \in Settled
                => ticket'[s] \in Settled
           /\ creating = 0 => creating' = 0
           /\ creating = 0 => \A b \in OpenBackfills :
                /\ openSlots'[b] <= openSlots[b]
                /\ openSlots[b] <= 0 => matched'[b] = matched[b]
<1>1. \A b \in OpenBackfills : openSlots[b] <= openSlots[b] /\ -1 <= openSlots[b]
  BY ScaleAssumption DEF HandTypes
<1>2. CASE UNCHANGED <<frontVars, ticket, matched>> /\ UNCHANGED openSlots
  BY <1>1, <1>2, Zenon DEF CreatedInv, frontVars
<1>3. CASE UNCHANGED scaleVars
  BY <1>2, <1>3, Zenon DEF scaleVars, storeVars
<1>4. CASE CreateBackfill
  <2>1. creating # 0 /\ creating' \in Nat
    BY <1>4 DEF CreateBackfill, CreatedInv
  <2>2. UNCHANGED <<runner, ticket, matched>>
    BY <1>4, Zenon DEF CreateBackfill
  <2> QED BY <2>1, <2>2, Zenon DEF CreatedInv
<1>5. CASE Tick
  BY <1>2, <1>5, Zenon DEF Tick, storeVars
<1>6. ASSUME NEW r \in Runners, RunnerStep(r)
      PROVE  /\ CreatedInv' /\ UNCHANGED <<creating, openSlots, matched>>
             /\ \A s \in Runners : runner[s] \in Created /\ ticket[s] \in Settled
                  => ticket'[s] \in Settled
  BY <1>6, RunnerTickets, Zenon
<1>7. ASSUME NEW p \in Profiles, FetcherStep(p),
             ~ (UNCHANGED <<frontVars, ticket, matched>> /\ UNCHANGED openSlots)
      PROVE  \E e \in FetchedMatches :
                /\ ticket' = [r \in Runners |-> IF r \in e.tickets THEN "pending" ELSE ticket[r]]
                /\ openSlots' = [b \in OpenBackfills |->
                                  IF b = e.backfill THEN e.slots ELSE openSlots[b]]
                /\ matched' = [b \in OpenBackfills |->
                                matched[b] \cup (IF b = e.backfill THEN e.tickets ELSE {})]
                /\ UNCHANGED frontVars
  BY <1>7, Zenon DEF FetcherStep, Receives, SendToAssign, SendToAcknowledge, storeVars
<1>8. ASSUME NEW w \in Workers, WorkerStep(w)
      PROVE  /\ UNCHANGED <<frontVars, matched>>
             /\ \/ ticket' = ticket
                \/ \E ts : ticket' = AssignedTo(ts)
             /\ \A b \in OpenBackfills : openSlots'[b] <= openSlots[b]
  <2>1. CASE AssignTickets(w)
    BY <1>1, <2>1, Zenon DEF AssignTickets
  <2>2. CASE AcknowledgeBackfill(w)
    BY <1>1, <2>2, Zenon DEF AcknowledgeBackfill
  <2>3. CASE DeleteBackfill(w)
    <3>1. /\ UNCHANGED <<frontVars, matched, ticket>>
          /\ openSlots' = openSlots \/ \E b : openSlots' = [openSlots EXCEPT ![b] = -1]
      BY <2>3, Zenon DEF DeleteBackfill
    <3>2. openSlots \in [OpenBackfills -> -1..Slots]
      BY DEF HandTypes
    <3>3. \A b \in OpenBackfills : openSlots'[b] \in {openSlots[b], -1}
      BY <3>1, <3>2, Zenon
    <3> QED BY <1>1, <3>1, <3>3, Zenon
  <2> QED
    BY <1>1, <1>8, <2>1, <2>2, <2>3, Zenon DEF WorkerStep, TakeAssign,
      TakeAcknowledge, SendToDelete, TakeDelete, storeVars
<1>9. ASSUME NEW w \in Workers, WorkerStep(w)
      PROVE  CreatedInv' /\ \A s \in Runners : ticket[s] \in Settled => ticket'[s] \in Settled
  <2>1. CASE ticket' = ticket
    BY <1>8, <1>9, <2>1, Zenon DEF CreatedInv, frontVars
  <2>2. ASSUME NEW ts, ticket' = AssignedTo(ts)
        PROVE  CreatedInv' /\ \A s \in Runners : ticket[s] \in Settled => ticket'[s] \in Settled
    <3>1. \A s \in Runners : ticket'[s] = "open" => ticket[s] = "open"
      BY <2>2, AssignedTickets, Zenon
    <3> QED BY <1>8, <1>9, <2>2, <3>1, AssignedTickets, Zenon DEF CreatedInv, frontVars
  <2> QED BY <1>8, <1>9, <2>1, <2>2, Zenon
<1> QED
  BY <1>1, <1>2, <1>3, <1>4, <1>5, <1>6, <1>7, <1>8, <1>9, Received, Zenon DEF
    ScaleNext, frontVars

Queued(e, q) == \E i \in 1..Len(q) : q[i] = e
With(k, phase, e) == \E w \in Workers : worker[k][w] = Holds(e, phase)

\* The matches that may still be acknowledged, and those that have been.
Held(e) ==
    \/ \E p \in Profiles : fetcher[p].at \in {"toAssign", "toAcknowledge"} /\ fetcher[p].match = e
    \/ Queued(e, toAcknowledge) \/ With("acknowledge", "call", e)
Acknowledged(e) ==
    With("acknowledge", "send", e) \/ Queued(e, toDelete) \/ With("delete", "call", e)

\* The copy a match has of its backfill shows no fewer open slots than there are ...
Copied(e) == creating = 0 /\ (e.backfill # Absent => openSlots[e.backfill] <= e.slots)

\* ... and if it shows none, its acknowledgement has assigned all that is matched.
Assigned(e) ==
    /\ Copied(e) /\ e.backfill # Absent
    /\ e.slots = 0 => \A r \in matched[e.backfill] : ticket[r] \in Settled

DoneInv ==
    /\ CreatedInv /\ HandTypes
    /\ \A e \in MatchRecords : /\ Held(e) => Copied(e)
                               /\ Acknowledged(e) => Assigned(e)
                               /\ With("acknowledge", "call", e) => e.backfill # Absent
                               /\ With("delete", "call", e) => e.slots <= 0

\* What was true of a copy stays true of it.
LEMMA CopiesKept ==
    ASSUME DoneInv, [ScaleNext]_scaleVars, NEW e \in MatchRecords
    PROVE  (Copied(e) => Copied(e)') /\ (Assigned(e) => Assigned(e)')
<1>1. CreatedInv /\ HandTypes
  BY Zenon DEF DoneInv
<1>2. ASSUME Copied(e) PROVE Copied(e)'
  <2>1. creating' = 0
    BY <1>1, <1>2, Forward, Zenon DEF Copied
  <2>2. ASSUME e.backfill # Absent PROVE openSlots'[e.backfill] <= e.slots
    <3>1. e.backfill \in OpenBackfills /\ e.slots \in Nat
      BY <2>2 DEF MatchRecords
    <3>2. openSlots'[e.backfill] <= openSlots[e.backfill] /\ openSlots[e.backfill] <= e.slots
      BY <1>1, <1>2, <2>2, <3>1, Forward, Zenon DEF Copied
    <3>3. openSlots[e.backfill] \in Int /\ openSlots'[e.backfill] \in Int
      <4>1. HandTypes'
        BY <1>1, HandTypesStep, Zenon
      <4> QED BY <1>1, <3>1, <4>1 DEF HandTypes
    <3> QED BY <3>1, <3>2, <3>3
  <2> QED BY <2>1, <2>2, Zenon DEF Copied
<1>3. ASSUME Assigned(e), e.slots = 0 PROVE \A r \in matched'[e.backfill] : ticket'[r] \in Settled
  <2>1. e.backfill \in OpenBackfills
    BY <1>3 DEF MatchRecords, Assigned
  <2>2. openSlots[e.backfill] <= 0 /\ creating = 0
    BY <1>3, Zenon DEF Assigned, Copied
  <2>3. matched'[e.backfill] = matched[e.backfill]
    BY <1>1, <2>1, <2>2, Forward, Zenon
  <2>4. \A r \in matched[e.backfill] : r \in Runners /\ runner[r] \in Created
    BY <1>1, <2>1, Zenon DEF CreatedInv
  <2> QED BY <1>1, <1>3, <2>3, <2>4, Forward, Zenon DEF Assigned
<1> QED BY <1>2, <1>3, Zenon DEF Assigned

\* What is in a channel after its head is taken or a match is sent.
LEMMA QueuedIn ==
    ASSUME NEW q \in Seq(MatchRecords)
    PROVE  /\ q # <<>> => Queued(Head(q), q) /\ \A e : Queued(e, Tail(q)) => Queued(e, q)
           /\ \A n \in MatchRecords : \A e : Queued(e, Append(q, n)) => Queued(e, q) \/ e = n
<1>1. ASSUME q # <<>> PROVE Queued(Head(q), q)
  BY <1>1 DEF Queued
<1>2. ASSUME q # <<>>, NEW e, Queued(e, Tail(q)) PROVE Queued(e, q)
  <2>1. PICK i \in 1..Len(Tail(q)) : Tail(q)[i] = e
    BY <1>2, Zenon DEF Queued
  <2>2. i + 1 \in 1..Len(q) /\ q[i + 1] = e
    BY <1>2, <2>1
  <2> QED BY <2>2, Zenon DEF Queued
<1>3. ASSUME NEW n \in MatchRecords, NEW e, Queued(e, Append(q, n)) PROVE Queued(e, q) \/ e = n
  <2>1. PICK i \in 1..Len(Append(q, n)) : Append(q, n)[i] = e
    BY <1>3, Zenon DEF Queued
  <2> QED BY <2>1 DEF Queued
<1> QED BY <1>1, <1>2, <1>3, Zenon

LEMMA HeldDistinct ==
    ASSUME NEW e, NEW n, NEW phase
    PROVE  /\ Holds(e, "call") # Holds(n, "send") /\ Holds(e, phase) = Holds(n, phase) => e = n
           /\ Holds(e, "call") # Idle /\ Holds(e, "send") # Idle
           /\ Holds(e, phase).at = phase /\ Holds(e, phase).match = e
BY DEF Holds, Idle

\* A worker that is not idle holds its match.
LEMMA WorkerHolds ==
    ASSUME HandTypes, NEW k \in Roles, NEW w \in Workers
    PROVE  worker[k][w].at \in {"call", "send"} =>
             /\ worker[k][w] = Holds(worker[k][w].match, worker[k][w].at)
             /\ worker[k][w].match \in MatchRecords
<1>1. worker[k][w] \in WorkerStates
  BY DEF HandTypes
<1> QED BY <1>1 DEF WorkerStates, Holds, Idle

\* What a worker has in hand after a step of one of them.
LEMMA WithStep ==
    ASSUME HandTypes, NEW k \in Roles, NEW w \in Workers, NEW what \in WorkerStates,
           Becomes(k, w, what), NEW j \in Roles, NEW phase, NEW e, With(j, phase, e)'
    PROVE  With(j, phase, e) \/ (j = k /\ what = Holds(e, phase))
<1>1. PICK v \in Workers : worker'[j][v] = Holds(e, phase)
  BY Zenon DEF With, Holds
<1>2. <<j, v>> = <<k, w>> => worker'[j][v] = what
  BY BecomesType
<1>3. <<j, v>> # <<k, w>> => worker'[j][v] = worker[j][v]
  BY BecomesType
<1>4. CASE <<j, v>> # <<k, w>>
  BY <1>1, <1>3, <1>4, Zenon DEF With
<1>5. CASE <<j, v>> = <<k, w>>
  BY <1>1, <1>2, <1>5
<1> QED BY <1>4, <1>5, Zenon

\* Where a match is that somebody has after a step.
HandsKept(e) ==
    /\ Held(e)' => Held(e) \/ Copied(e)'
    /\ Acknowledged(e)' => Acknowledged(e) \/ Assigned(e)'
    /\ With("acknowledge", "call", e)' => With("acknowledge", "call", e) \/ e.backfill # Absent
    /\ With("delete", "call", e)' => With("delete", "call", e) \/ e.slots <= 0

LEMMA WorkerHands ==
    ASSUME DoneInv, NEW w \in Workers, WorkerStep(w), NEW e \in MatchRecords, [ScaleNext]_scaleVars
    PROVE  HandsKept(e)
<1> USE DEF Roles
<1>1. CreatedInv /\ HandTypes /\ Idle \in WorkerStates
  BY Zenon DEF DoneInv, WorkerStates
<1>2. /\ toAcknowledge # <<>> => Queued(Head(toAcknowledge), toAcknowledge)
      /\ toAcknowledge # <<>> /\ Queued(e, Tail(toAcknowledge)) => Queued(e, toAcknowledge)
      /\ toDelete # <<>> => Queued(Head(toDelete), toDelete)
      /\ toDelete # <<>> /\ Queued(e, Tail(toDelete)) => Queued(e, toDelete)
      /\ \A n \in MatchRecords : Queued(e, Append(toDelete, n)) => Queued(e, toDelete) \/ e = n
  BY <1>1, QueuedIn, Zenon DEF HandTypes
<1>3. ASSUME NEW k \in Roles, NEW what \in WorkerStates, Becomes(k, w, what)
      PROVE  /\ With("acknowledge", "call", e)' => \/ With("acknowledge", "call", e)
                                                   \/ k = "acknowledge" /\ what = Holds(e, "call")
             /\ With("acknowledge", "send", e)' => \/ With("acknowledge", "send", e)
                                                   \/ k = "acknowledge" /\ what = Holds(e, "send")
             /\ With("delete", "call", e)' => \/ With("delete", "call", e)
                                              \/ k = "delete" /\ what = Holds(e, "call")
  BY <1>1, <1>3, WithStep, Zenon
<1>4. UNCHANGED fetcher
  BY Zenon DEF WorkerStep, TakeAssign, AssignTickets, TakeAcknowledge,
    AcknowledgeBackfill, SendToDelete, TakeDelete, DeleteBackfill
<1>5. ASSUME UNCHANGED toAcknowledge,
             With("acknowledge", "call", e)' => With("acknowledge", "call", e)
      PROVE  Held(e)' => Held(e)
  BY <1>4, <1>5, Zenon DEF Held, Queued
<1>6. ASSUME UNCHANGED toDelete,
             With("acknowledge", "send", e)' => With("acknowledge", "send", e),
             With("delete", "call", e)' => With("delete", "call", e)
      PROVE  Acknowledged(e)' => Acknowledged(e)
  BY <1>6, Zenon DEF Acknowledged, Queued
<1>7. CASE TakeAssign(w)
  <2>1. Head(toAssign) \in MatchRecords
    BY <1>1, <1>7, Channels, Zenon DEF TakeAssign, HandTypes
  <2>2. Holds(Head(toAssign), "call") \in WorkerStates
    BY <2>1, HeldTypes, Zenon
  <2> QED BY <1>3, <1>5, <1>6, <1>7, <2>2, Zenon DEF TakeAssign, HandsKept
<1>8. CASE AssignTickets(w)
  BY <1>1, <1>3, <1>5, <1>6, <1>8, Zenon DEF AssignTickets, HandsKept
<1>9. CASE TakeAcknowledge(w)
  <2> DEFINE n == Head(toAcknowledge)
  <2>1. n \in MatchRecords /\ toAcknowledge # <<>> /\ toAcknowledge' = Tail(toAcknowledge)
    BY <1>1, <1>9, Channels, Zenon DEF TakeAcknowledge, HandTypes
  <2>2. PICK what \in WorkerStates : /\ Becomes("acknowledge", w, what)
                                     /\ what = Idle \/ (what = Holds(n, "call") /\ n.backfill # Absent)
    BY <1>1, <1>9, <2>1, HeldTypes, Zenon DEF TakeAcknowledge
  <2>3. UNCHANGED toDelete
    BY <1>9, Zenon DEF TakeAcknowledge
  <2>4. With("acknowledge", "call", e)' => With("acknowledge", "call", e) \/ (e = n /\ e.backfill # Absent)
    <3>1. /\ Holds(n, "call") = Holds(e, "call") => n = e
          /\ Holds(e, "call") # Idle
      BY DEF Holds, Idle
    <3> QED BY <1>3, <2>2, <3>1, Zenon
  <2>5. With("acknowledge", "send", e)' => With("acknowledge", "send", e)
    BY <1>3, <2>2, HeldDistinct, Zenon
  <2>6. With("delete", "call", e)' => With("delete", "call", e)
    BY <1>3, <2>2, Zenon
  <2>7. Queued(e, toAcknowledge)' => Queued(e, toAcknowledge)
    BY <1>2, <2>1, Zenon DEF Queued
  <2> QED
    BY <1>2, <1>4, <1>6, <2>1, <2>3, <2>4, <2>5, <2>6, <2>7, Zenon DEF HandsKept, Held
<1>10. CASE AcknowledgeBackfill(w)
  <2> DEFINE n == worker["acknowledge"][w].match
  <2>1. n \in MatchRecords /\ worker["acknowledge"][w] = Holds(n, "call")
    BY <1>1, <1>10, WorkerHolds, Zenon DEF AcknowledgeBackfill
  <2>2. PICK what \in WorkerStates :
          /\ Becomes("acknowledge", w, what)
          /\ \/ what = Idle
             \/ what = Holds(n, "send") /\ ticket' = AssignedTo(matched[n.backfill])
    BY <1>1, <1>10, <2>1, HeldTypes, Zenon DEF AcknowledgeBackfill, NotAcknowledged
  <2>3. UNCHANGED <<toDelete, toAcknowledge, matched>>
    BY <1>10, Zenon DEF AcknowledgeBackfill
  <2>4. With("acknowledge", "call", e)' => With("acknowledge", "call", e)
    BY <1>3, <2>2, HeldDistinct, Zenon
  <2>5. With("acknowledge", "send", e)' => \/ With("acknowledge", "send", e)
                                           \/ e = n /\ ticket' = AssignedTo(matched[n.backfill])
    <3>1. /\ Holds(n, "send") = Holds(e, "send") => n = e
          /\ Holds(e, "send") # Idle
      BY DEF Holds, Idle
    <3> QED BY <1>3, <2>2, <3>1, Zenon
  <2>6. With("delete", "call", e)' => With("delete", "call", e)
    BY <1>3, <2>2, Zenon
  <2>7. ASSUME e = n, ticket' = AssignedTo(matched[n.backfill]) PROVE Assigned(e)'
    <3>1. Copied(e) /\ e.backfill # Absent
      BY <2>1, <2>7, Zenon DEF DoneInv, Held, With
    <3>2. e.backfill \in OpenBackfills
      BY <3>1 DEF MatchRecords
    <3>3. \A r \in matched[e.backfill] : r \in Runners
      BY <1>1, <3>2, Zenon DEF CreatedInv
    <3>4. \A r \in matched'[e.backfill] : ticket'[r] \in Settled
      BY <1>1, <2>3, <2>7, <3>3, AssignedTickets, Zenon
    <3> QED BY <3>1, <3>4, CopiesKept, Zenon DEF Assigned
  <2>8. Queued(e, toDelete)' => Queued(e, toDelete)
    BY <2>3, Zenon DEF Queued
  <2> QED BY <1>5, <2>3, <2>4, <2>5, <2>6, <2>7, <2>8, Zenon DEF HandsKept, Acknowledged
<1>11. CASE SendToDelete(w)
  <2> DEFINE n == worker["acknowledge"][w].match
  <2>1. n \in MatchRecords /\ worker["acknowledge"][w] = Holds(n, "send")
    BY <1>1, <1>11, WorkerHolds, Zenon DEF SendToDelete
  <2>2. toDelete' = Append(toDelete, n) /\ UNCHANGED toAcknowledge /\ Becomes("acknowledge", w, Idle)
    BY <1>11, Zenon DEF SendToDelete
  <2>3. /\ With("acknowledge", "call", e)' => With("acknowledge", "call", e)
        /\ With("acknowledge", "send", e)' => With("acknowledge", "send", e)
        /\ With("delete", "call", e)' => With("delete", "call", e)
    BY <1>1, <1>3, <2>2, HeldDistinct, Zenon
  <2>4. Queued(e, toDelete)' => Queued(e, toDelete) \/ e = n
    BY <1>2, <2>1, <2>2, Zenon DEF Queued
  <2>5. With("acknowledge", "send", n)
    BY <2>1, Zenon DEF With
  <2> QED BY <1>5, <2>2, <2>3, <2>4, <2>5, Zenon DEF HandsKept, Acknowledged
<1>12. CASE TakeDelete(w)
  <2> DEFINE n == Head(toDelete)
  <2>1. n \in MatchRecords /\ toDelete # <<>> /\ toDelete' = Tail(toDelete)
    BY <1>1, <1>12, Channels, Zenon DEF TakeDelete, HandTypes
  <2>2. PICK what \in WorkerStates : /\ Becomes("delete", w, what)
                                     /\ what = Idle \/ (what = Holds(n, "call") /\ n.slots <= 0)
    BY <1>1, <1>12, <2>1, HeldTypes, Zenon DEF TakeDelete, BackfillDeleteCond
  <2>3. UNCHANGED toAcknowledge
    BY <1>12, Zenon DEF TakeDelete
  <2>4. With("delete", "call", e)' => With("delete", "call", e) \/ (e = n /\ e.slots <= 0)
    <3>1. /\ Holds(n, "call") = Holds(e, "call") => n = e
          /\ Holds(e, "call") # Idle
      BY DEF Holds, Idle
    <3> QED BY <1>3, <2>2, <3>1, Zenon
  <2>5. /\ With("acknowledge", "call", e)' => With("acknowledge", "call", e)
        /\ With("acknowledge", "send", e)' => With("acknowledge", "send", e)
    BY <1>3, <2>2, Zenon
  <2>6. Queued(e, toDelete)' => Queued(e, toDelete)
    BY <1>2, <2>1, Zenon DEF Queued
  <2> QED BY <1>2, <1>5, <2>1, <2>3, <2>4, <2>5, <2>6, Zenon DEF HandsKept, Acknowledged
<1>13. CASE DeleteBackfill(w)
  <2>1. /\ With("acknowledge", "call", e)' => With("acknowledge", "call", e)
        /\ With("acknowledge", "send", e)' => With("acknowledge", "send", e)
        /\ With("delete", "call", e)' => With("delete", "call", e)
    BY <1>1, <1>3, <1>13, HeldDistinct, Zenon DEF DeleteBackfill
  <2> QED BY <1>5, <1>6, <1>13, <2>1, Zenon DEF HandsKept, DeleteBackfill
<1> QED BY <1>7, <1>8, <1>9, <1>10, <1>11, <1>12, <1>13, Zenon DEF WorkerStep

\* A match that comes into a hand was fetched.
LEMMA FetcherHands ==
    ASSUME DoneInv, NEW p \in Profiles, FetcherStep(p), NEW e \in MatchRecords, [ScaleNext]_scaleVars
    PROVE  HandsKept(e)
<1>1. CreatedInv /\ HandTypes
  BY Zenon DEF DoneInv
<1>2. UNCHANGED <<worker, toDelete>>
  BY Zenon DEF FetcherStep, Receives, SendToAssign, SendToAcknowledge
<1>3. /\ With("acknowledge", "call", e)' => With("acknowledge", "call", e)
      /\ Acknowledged(e)' => Acknowledged(e)
      /\ With("delete", "call", e)' => With("delete", "call", e)
  BY <1>2, Zenon DEF With, Acknowledged, Queued
<1> DEFINE Fetched == {"toAssign", "toAcknowledge"}
           InFetcher == \E q \in Profiles : fetcher[q].at \in Fetched /\ fetcher[q].match = e
           InFetcherThen == \E q \in Profiles : fetcher'[q].at \in Fetched /\ fetcher'[q].match = e
<1>4. ASSUME NEW what, fetcher' = [fetcher EXCEPT ![p] = what], InFetcherThen
      PROVE  InFetcher \/ (what.at \in Fetched /\ what.match = e)
  <2>1. PICK q \in Profiles : fetcher'[q].at \in Fetched /\ fetcher'[q].match = e
    BY <1>4, Zenon
  <2>2. CASE q = p
    BY <1>1, <1>4, <2>1, <2>2, Zenon DEF HandTypes
  <2>3. CASE q # p
    BY <1>1, <1>4, <2>1, <2>3, Zenon DEF HandTypes
  <2> QED BY <2>2, <2>3, Zenon
<1>5. Idle.at \notin Fetched /\ [at |-> "fetch"].at \notin Fetched
  BY DEF Idle
<1>6. CASE Receives(p)
  <2>1. toAcknowledge' = toAcknowledge
    BY <1>6, Zenon DEF Receives
  <2>2. CASE fetcher' = [fetcher EXCEPT ![p] = Idle]
    <3>1. InFetcherThen => InFetcher
      BY <1>4, <1>5, <2>2, Zenon
    <3> QED BY <1>3, <2>1, <3>1, Zenon DEF HandsKept, Held, Queued
  <2>3. ASSUME NEW n \in FetchedMatches, fetcher' = [fetcher EXCEPT ![p] = Holds(n, "toAssign")],
               ticket' = [r \in Runners |-> IF r \in n.tickets THEN "pending" ELSE ticket[r]],
               openSlots' = [b \in OpenBackfills |-> IF b = n.backfill THEN n.slots ELSE openSlots[b]],
               matched' = [b \in OpenBackfills |->
                            matched[b] \cup (IF b = n.backfill THEN n.tickets ELSE {})]
        PROVE  HandsKept(e)
    <3>1. UNCHANGED frontVars
      BY <1>6, Zenon DEF Receives
    <3>2. creating = 0 /\ (n.backfill # Absent => openSlots'[n.backfill] <= n.slots)
      BY <1>1, <2>3, <3>1, Received, Zenon
    <3>3. Copied(n)'
      BY <3>1, <3>2, Zenon DEF Copied, frontVars
    <3>4. InFetcherThen => InFetcher \/ n = e
      <4>1. Holds(n, "toAssign").match = n
        BY DEF Holds
      <4> QED BY <1>4, <2>3, <4>1, Zenon
    <3> QED BY <1>3, <2>1, <3>3, <3>4, Zenon DEF HandsKept, Held, Queued
  <2> QED BY <1>6, <2>2, <2>3, Zenon DEF Receives
<1>7. CASE SendToAssign(p)
  <2>1. toAcknowledge' = toAcknowledge /\ fetcher[p].at \in Fetched
    BY <1>7, Zenon DEF SendToAssign
  <2>2. fetcher' = [fetcher EXCEPT ![p] = [fetcher[p] EXCEPT !.at = "toAcknowledge"]]
    BY <1>7 DEF SendToAssign
  <2>3. [fetcher[p] EXCEPT !.at = "toAcknowledge"].match = fetcher[p].match
    <3>1. fetcher[p] \in FetcherStates /\ fetcher[p].at = "toAssign"
      BY <1>1, <1>7 DEF HandTypes, SendToAssign
    <3>2. fetcher[p] \in [at : {"toAssign", "toAcknowledge"}, match : MatchRecords]
      BY <3>1 DEF FetcherStates, Idle
    <3> QED BY <3>2
  <2>4. InFetcherThen => InFetcher
    BY <1>4, <2>1, <2>2, <2>3, Zenon
  <2> QED BY <1>3, <2>1, <2>4, Zenon DEF HandsKept, Held, Queued
<1>8. CASE SendToAcknowledge(p)
  <2> DEFINE n == fetcher[p].match
  <2>1. fetcher[p].at \in Fetched /\ fetcher' = [fetcher EXCEPT ![p] = [at |-> "fetch"]]
    BY <1>8, Zenon DEF SendToAcknowledge
  <2>2. InFetcherThen => InFetcher
    BY <1>4, <1>5, <2>1, Zenon
  <2>3. n \in MatchRecords /\ (n = e => InFetcher)
    BY <1>1, <2>1, InHand, Zenon
  <2>4. toAcknowledge' \in {toAcknowledge, Append(toAcknowledge, n)}
    BY <1>8, Zenon DEF SendToAcknowledge, SentOn
  <2>5. Queued(e, Append(toAcknowledge, n)) => Queued(e, toAcknowledge) \/ e = n
    BY <1>1, <2>3, QueuedIn, Zenon DEF HandTypes
  <2>6. Queued(e, toAcknowledge)' => Queued(e, toAcknowledge) \/ e = n
    BY <2>4, <2>5, Zenon DEF Queued
  <2> QED BY <1>3, <2>2, <2>3, <2>6, Zenon DEF HandsKept, Held
<1> QED BY <1>6, <1>7, <1>8, Zenon DEF FetcherStep

\* The frontend and the ticks of the backend take no match and hand none on.
LEMMA OtherHands ==
    ASSUME DoneInv, NEW e \in MatchRecords,
           CreateBackfill \/ Tick \/ UNCHANGED scaleVars \/ \E r \in Runners : RunnerStep(r)
    PROVE  HandsKept(e)
<1>1. UNCHANGED <<worker, toAcknowledge, toDelete>>
  BY Zenon DEF CreateBackfill, Tick, scaleVars, backVars, RunnerStep, Spawn, Waits,
    Creates, CreateTicket, WatchAssignments, DeleteTicket
<1>2. \/ UNCHANGED fetcher
      \/ \A q \in Profiles : fetcher'[q] = [at |-> "fetch"]
  BY Zenon DEF CreateBackfill, Tick, scaleVars, backVars, RunnerStep, Spawn, Waits,
    Creates, CreateTicket, WatchAssignments, DeleteTicket
<1>3. [at |-> "fetch"].at \notin {"toAssign", "toAcknowledge"}
  OBVIOUS
<1>4. (\E q \in Profiles : fetcher'[q].at \in {"toAssign", "toAcknowledge"} /\ fetcher'[q].match = e)
      => \E q \in Profiles : fetcher[q].at \in {"toAssign", "toAcknowledge"} /\ fetcher[q].match = e
  BY <1>2, <1>3, Zenon
<1> QED BY <1>1, <1>4, Zenon DEF HandsKept, Held, Acknowledged, With, Queued

LEMMA DoneInvInit == ScaleInit => DoneInv
<1> SUFFICES ASSUME ScaleInit PROVE DoneInv
  BY Zenon
<1>1. HandTypes
  BY HandTypesInit, Zenon
<1>2. CreatedInv
  <2>1. creating \in Nat
    BY ScaleAssumption, FS_CardinalityType, Zenon DEF ScaleInit
  <2> QED BY <2>1, Zenon DEF ScaleInit, CreatedInv, Phases, TicketStates
<1>3. ASSUME NEW e PROVE ~ Held(e) /\ ~ Acknowledged(e)
  <2>1. Idle.at \notin {"toAssign", "toAcknowledge"} /\ \A ph : ~ Queued(e, <<>>)
    BY DEF Idle, Queued
  <2>2. \A k \in Roles : ~ With(k, "call", e) /\ ~ With(k, "send", e)
    BY HeldDistinct, Zenon DEF With, ScaleInit
  <2> QED BY <2>1, <2>2, Zenon DEF Held, Acknowledged, ScaleInit, Roles
<1> QED BY <1>1, <1>2, <1>3, Zenon DEF DoneInv, Held, Acknowledged

LEMMA DoneInvStep == DoneInv /\ [ScaleNext]_scaleVars => DoneInv'
<1> SUFFICES ASSUME DoneInv, [ScaleNext]_scaleVars PROVE DoneInv'
  BY Zenon
<1>1. CreatedInv' /\ HandTypes'
  BY Forward, HandTypesStep, Zenon DEF DoneInv
<1>2. ASSUME NEW e \in MatchRecords
      PROVE  /\ Held(e)' => Copied(e)'
             /\ Acknowledged(e)' => Assigned(e)'
             /\ With("acknowledge", "call", e)' => e.backfill # Absent
             /\ With("delete", "call", e)' => e.slots <= 0
  <2>1. HandsKept(e)
    BY WorkerHands, FetcherHands, OtherHands, Zenon DEF ScaleNext
  <2> QED BY <2>1, CopiesKept, Zenon DEF HandsKept, DoneInv
<1> QED BY <1>1, <1>2, Zenon DEF DoneInv, MatchRecords

\* A backfill that the scale backend deletes is full and its tickets are settled.
THEOREM DeletesWhenDone == ScaleSpec => DeletedWhenDone
<1> DEFINE Done == \A b \in OpenBackfills : openSlots[b] # -1 /\ openSlots'[b] = -1
               => openSlots[b] = 0 /\ \A r \in matched[b] : ticket[r] \in {"assigned", "deleted"}
<1>1. DoneInv /\ [ScaleNext]_scaleVars => [Done]_scaleVars
  <2> SUFFICES ASSUME DoneInv, ScaleNext, NEW b \in OpenBackfills, openSlots[b] # -1, openSlots'[b] = -1
               PROVE  openSlots[b] = 0 /\ \A r \in matched[b] : ticket[r] \in {"assigned", "deleted"}
    BY Zenon
  <2>1. CreatedInv /\ HandTypes /\ openSlots[b] \in -1..Slots /\ Slots \in Nat
    BY ScaleAssumption DEF DoneInv, HandTypes
  <2>2. PICK w \in Workers : DeleteBackfill(w) /\ worker["delete"][w].match.backfill = b
    <3>1. openSlots' # openSlots
      BY Zenon
    <3>2. ~ CreateBackfill
      <4>1. Slots # -1 /\ openSlots \in [OpenBackfills -> -1..Slots]
        BY <2>1 DEF HandTypes
      <4> QED BY <3>1, <4>1, Zenon DEF CreateBackfill
    <3>3. ASSUME NEW p \in Profiles PROVE ~ Receives(p)
      <4>1. \A n \in FetchedMatches : n.slots \in Nat
        BY <2>1, Fetchable DEF MatchRecords
      <4>2. -1 \notin Nat
        OBVIOUS
      <4>3. ASSUME NEW n \in FetchedMatches PROVE n.slots # -1
        BY <4>1, <4>2, Zenon
      <4>4. ASSUME Receives(p)
            PROVE  \E n \in FetchedMatches : openSlots'[b] = IF b = n.backfill THEN n.slots ELSE openSlots[b]
        BY <3>1, <4>4, Zenon DEF Receives, storeVars
      <4> QED BY <4>3, <4>4, Zenon
    <3>4. ASSUME NEW w \in Workers, DeleteBackfill(w) PROVE worker["delete"][w].match.backfill = b
      <4>1. openSlots \in [OpenBackfills -> -1..Slots]
        BY <2>1 DEF HandTypes
      <4> QED BY <3>1, <3>4, <4>1, Zenon DEF DeleteBackfill
    <3>5. ASSUME NEW r \in Runners PROVE ~ RunnerStep(r)
      BY <2>1, <3>1, RunnerTickets, Zenon
    <3> QED
      BY <3>1, <3>2, <3>3, <3>4, <3>5, Zenon DEF ScaleNext, Tick, FetcherStep,
        SendToAssign, SendToAcknowledge, WorkerStep, TakeAssign, AssignTickets,
        TakeAcknowledge, AcknowledgeBackfill, SendToDelete, TakeDelete, storeVars
  <2> DEFINE e == worker["delete"][w].match
  <2>3. e \in MatchRecords /\ worker["delete"][w] = Holds(e, "call")
    BY <2>1, <2>2, WorkerHolds, Zenon DEF DeleteBackfill, Roles
  <2>4. With("delete", "call", e)
    BY <2>3, Zenon DEF With
  <2>5. Assigned(e) /\ e.slots <= 0
    BY <2>3, <2>4, Zenon DEF DoneInv, Acknowledged
  <2>6. openSlots[b] <= e.slots /\ e.slots \in Nat
    BY <2>2, <2>3, <2>5 DEF Assigned, Copied, MatchRecords
  <2>7. openSlots[b] = 0 /\ e.slots = 0
    BY <2>1, <2>5, <2>6
  <2> QED BY <2>2, <2>5, <2>7, Zenon DEF Assigned, Settled
<1> QED BY <1>1, DoneInvInit, DoneInvStep, PTL DEF ScaleSpec, DeletedWhenDone

-----------------------------------------------------------------------------
(* The counters of the scale backend.                                      *)

Calling == {p \in Profiles : fetcher[p] # Idle}
Sending == {p \in Profiles : fetcher[p].at = "toAssign"}
Assigning == {w \in Workers : worker["assign"][w].at = "call"}

Finished == count["successes"] + count["errors"]
Ended == count["assigned"] + count["assignsFailed"]
Carried == Len(toAssign) + Cardinality(Assigning) + Cardinality(Sending)

\* CountersBalance in terms of who is busy with what.
Balanced ==
    /\ count["calls"] = Finished + Cardinality(Calling)
    /\ "assigns" \in scenario => count["returned"] = Ended + Carried

LEMMA BusyCounts ==
    ASSUME HandTypes
    PROVE  /\ Cardinality(Calling) \in Nat /\ Cardinality(Sending) \in Nat
           /\ Cardinality(Assigning) \in Nat /\ Len(toAssign) \in Nat
           /\ count["calls"] \in Nat /\ count["returned"] \in Nat
           /\ Finished \in Nat /\ Ended \in Nat /\ Carried \in Nat
<1>1. IsFiniteSet(Calling) /\ IsFiniteSet(Sending) /\ IsFiniteSet(Assigning)
  BY ScaleAssumption, FS_Subset, Zenon DEF Calling, Sending, Assigning
<1>2. Len(toAssign) \in Nat
  BY Channels, Zenon DEF HandTypes
<1>3. \A c \in Counters : count[c] \in Nat
  BY Zenon DEF HandTypes
<1>4. Finished \in Nat /\ Ended \in Nat
  BY <1>3 DEF Finished, Ended, Counters
<1>5. Cardinality(Calling) \in Nat /\ Cardinality(Sending) \in Nat /\ Cardinality(Assigning) \in Nat
  BY <1>1, FS_CardinalityType, Zenon
<1>6. Carried \in Nat
  BY <1>2, <1>5 DEF Carried
<1> QED BY <1>2, <1>3, <1>4, <1>5, <1>6, Zenon DEF Counters

\* One event counts once.
LEMMA CountedOnce ==
    ASSUME HandTypes, NEW c \in Counters, count' = [count EXCEPT ![c] = @ + 1]
    PROVE  \A d \in Counters : count[d] \in Nat /\ count'[d] = IF d = c THEN count[d] + 1 ELSE count[d]
BY DEF HandTypes

LEMMA BalancedInit == ScaleInit => Balanced
<1> SUFFICES ASSUME ScaleInit PROVE Balanced
  BY Zenon
<1>1. Calling = {} /\ Sending = {} /\ Assigning = {}
  BY DEF ScaleInit, Calling, Sending, Assigning, Idle, Roles
<1>2. Cardinality({}) = 0
  BY FS_EmptySet, Zenon
<1>3. Len(toAssign) = 0 /\ \A c \in Counters : count[c] = 0
  BY DEF ScaleInit
<1>4. Cardinality(Calling) = 0 /\ Cardinality(Sending) = 0 /\ Cardinality(Assigning) = 0
  BY <1>1, <1>2, Zenon
<1> QED BY <1>3, <1>4 DEF Balanced, Finished, Ended, Carried, Counters

\* A call counts as begun, ended or failed when it is, and a match as returned
\* before it is sent on.
LEMMA BalancedFetcher ==
    ASSUME HandTypes, Balanced, NEW p \in Profiles, FetcherStep(p) PROVE Balanced'
<1>1. /\ Cardinality(Calling) \in Nat /\ Cardinality(Sending) \in Nat
      /\ Cardinality(Assigning) \in Nat /\ Len(toAssign) \in Nat
      /\ count["calls"] \in Nat /\ count["returned"] \in Nat
      /\ Finished \in Nat /\ Ended \in Nat /\ Carried \in Nat
      /\ fetcher \in [Profiles -> FetcherStates] /\ toAssign \in Seq(MatchRecords)
  BY BusyCounts, Zenon DEF HandTypes
<1>2. /\ p \in Calling => Cardinality(Calling \ {p}) = Cardinality(Calling) - 1
      /\ p \in Sending => Cardinality(Sending \ {p}) = Cardinality(Sending) - 1
      /\ p \notin Sending => Cardinality(Sending \cup {p}) = Cardinality(Sending) + 1
  BY ScaleAssumption, OneMoreOrLess, Zenon DEF Calling, Sending
<1>3. Assigning' = Assigning /\ UNCHANGED scenario
  BY Zenon DEF FetcherStep, Receives, SendToAssign, SendToAcknowledge, Assigning
<1>4. /\ Idle.at # "toAssign" /\ Idle # [at |-> "fetch"]
      /\ \A e : Holds(e, "toAssign") # Idle /\ Holds(e, "toAssign").at = "toAssign"
      /\ \A e : Holds(e, "toAcknowledge") # Idle /\ Holds(e, "toAcknowledge").at = "toAcknowledge"
  BY DEF Idle, Holds
<1>5. CASE Receives(p)
  <2>1. p \in Calling /\ p \notin Sending /\ UNCHANGED toAssign
    BY <1>5 DEF Receives, Calling, Sending, Idle
  <2>2. ASSUME fetcher' = [fetcher EXCEPT ![p] = Idle], Counted("successes") \/ Counted("errors")
        PROVE  Balanced'
    <3>1. Calling' = Calling \ {p} /\ Sending' = Sending
      BY <1>1, <1>4, <2>1, <2>2, Zenon DEF Calling, Sending
    <3>2. Cardinality(Calling') = Cardinality(Calling) - 1
      BY <1>2, <2>1, <3>1, Zenon
    <3>3. UNCHANGED Carried
      BY <1>3, <2>1, <3>1, Zenon DEF Carried
    <3>4. /\ count'["calls"] = count["calls"] /\ count'["returned"] = count["returned"]
          /\ Ended' = Ended /\ Finished' = Finished + 1
      <4>1. CASE Counted("successes")
        BY <4>1, CountedOnce DEF Counted, Counters, Ended, Finished
      <4>2. CASE Counted("errors")
        BY <4>2, CountedOnce DEF Counted, Counters, Ended, Finished
      <4> QED BY <2>2, <4>1, <4>2, Zenon
    <3>5. count'["calls"] = Finished' + Cardinality(Calling')
      BY <1>1, <3>2, <3>4 DEF Balanced
    <3> QED BY <1>3, <3>3, <3>4, <3>5, Zenon DEF Balanced
  <2>3. ASSUME NEW e, fetcher' = [fetcher EXCEPT ![p] = Holds(e, "toAssign")], Counted("returned")
        PROVE  Balanced'
    <3>1. Calling' = Calling /\ Sending' = Sending \cup {p}
      BY <1>1, <1>4, <2>1, <2>3, Zenon DEF Calling, Sending
    <3>2. Cardinality(Sending') = Cardinality(Sending) + 1
      BY <1>2, <2>1, <3>1, Zenon
    <3>3. Carried' = Len(toAssign) + Cardinality(Assigning) + Cardinality(Sending')
      BY <1>3, <2>1, Zenon DEF Carried
    <3>4. Carried' = Carried + 1
      BY <1>1, <3>2, <3>3 DEF Carried
    <3>5. /\ count'["calls"] = count["calls"] /\ count'["returned"] = count["returned"] + 1
          /\ Ended' = Ended /\ Finished' = Finished
      BY <2>3, CountedOnce DEF Counted, Counters, Ended, Finished
    <3>6. "assigns" \in scenario => count'["returned"] = Ended' + Carried'
      BY <1>1, <3>4, <3>5 DEF Balanced
    <3> QED BY <1>3, <3>1, <3>5, <3>6, Zenon DEF Balanced
  <2> QED BY <1>5, <2>2, <2>3, Zenon DEF Receives
<1>6. CASE SendToAssign(p)
  <2> DEFINE e == fetcher[p].match
  <2>1. p \in Sending /\ p \in Calling /\ UNCHANGED count /\ e \in MatchRecords
    <3>1. fetcher[p].at = "toAssign" /\ UNCHANGED count
      BY <1>6, Zenon DEF SendToAssign
    <3>2. e \in MatchRecords
      BY <3>1, InHand, Zenon
    <3> QED BY <1>4, <3>1, <3>2, Zenon DEF Sending, Calling
  <2>2. fetcher'[p].at = "toAcknowledge" /\ \A q \in Profiles \ {p} : fetcher'[q] = fetcher[q]
    <3>1. fetcher[p] \in [at : {"toAssign", "toAcknowledge"}, match : MatchRecords]
      <4>1. fetcher[p] \in FetcherStates /\ fetcher[p].at = "toAssign"
        BY <1>1, <2>1, Zenon DEF Sending
      <4> QED BY <4>1 DEF FetcherStates, Idle
    <3> QED BY <1>1, <1>6, <3>1 DEF SendToAssign
  <2>3. Calling' = Calling /\ Sending' = Sending \ {p}
    <3>1. fetcher'[p] # Idle /\ fetcher'[p].at # "toAssign"
      BY <2>2 DEF Idle
    <3> QED BY <2>1, <2>2, <3>1, Zenon DEF Calling, Sending
  <2>4. Cardinality(Sending') = Cardinality(Sending) - 1
    BY <1>2, <2>1, <2>3, Zenon
  <2>5. "assigns" \in scenario => Len(toAssign') = Len(toAssign) + 1
    <3>1. "assigns" \in scenario => toAssign' = Append(toAssign, e)
      BY <1>6, Zenon DEF SendToAssign, SentOn
    <3>2. Len(Append(toAssign, e)) = Len(toAssign) + 1
      BY <1>1, <2>1, Channels, Zenon
    <3> QED BY <3>1, <3>2, Zenon
  <2>6. "assigns" \in scenario => Carried' = Carried
    <3>1. Cardinality(Assigning') = Cardinality(Assigning)
      BY <1>3, Zenon
    <3>2. "assigns" \in scenario
            => Carried' = (Len(toAssign) + 1) + Cardinality(Assigning) + (Cardinality(Sending) - 1)
      BY <2>4, <2>5, <3>1, Zenon DEF Carried
    <3>3. Len(toAssign) \in Nat /\ Cardinality(Assigning) \in Nat /\ Cardinality(Sending) \in Nat
      BY <1>1, Zenon
    <3>4. (Len(toAssign) + 1) + Cardinality(Assigning) + (Cardinality(Sending) - 1) = Carried
      BY <3>3 DEF Carried
    <3> QED BY <3>2, <3>4, Zenon
  <2> QED BY <1>3, <2>1, <2>3, <2>6, Zenon DEF Balanced, Finished, Ended
<1>7. CASE SendToAcknowledge(p)
  <2>1. /\ fetcher' = [fetcher EXCEPT ![p] = [at |-> "fetch"]] /\ UNCHANGED <<toAssign, count>>
        /\ fetcher[p].at = "toAcknowledge"
    BY <1>7, Zenon DEF SendToAcknowledge
  <2>2. p \in Calling /\ p \notin Sending /\ [at |-> "fetch"] # Idle /\ [at |-> "fetch"].at # "toAssign"
    BY <2>1 DEF Calling, Sending, Idle
  <2>3. Calling' = Calling /\ Sending' = Sending
    BY <1>1, <2>1, <2>2, Zenon DEF Calling, Sending
  <2> QED BY <1>3, <2>1, <2>3, Zenon DEF Balanced, Finished, Ended, Carried
<1> QED BY <1>5, <1>6, <1>7, Zenon DEF FetcherStep

\* A match that was taken counts as assigned or as failed when the call has ended.
LEMMA BalancedWorker ==
    ASSUME HandTypes, Balanced, NEW w \in Workers, WorkerStep(w) PROVE Balanced'
<1> USE DEF Roles
<1>1. /\ Cardinality(Sending) \in Nat /\ Cardinality(Assigning) \in Nat /\ Len(toAssign) \in Nat
      /\ count["returned"] \in Nat /\ Ended \in Nat /\ Carried \in Nat
      /\ toAssign \in Seq(MatchRecords) /\ Idle \in WorkerStates
  BY BusyCounts, Zenon DEF HandTypes, WorkerStates
<1>2. /\ w \in Assigning => Cardinality(Assigning \ {w}) = Cardinality(Assigning) - 1
      /\ w \notin Assigning => Cardinality(Assigning \cup {w}) = Cardinality(Assigning) + 1
  BY ScaleAssumption, OneMoreOrLess, Zenon DEF Assigning
<1>3. Calling' = Calling /\ Sending' = Sending /\ UNCHANGED scenario
  BY Zenon DEF WorkerStep, TakeAssign, AssignTickets, TakeAcknowledge,
    AcknowledgeBackfill, SendToDelete, TakeDelete, DeleteBackfill, Calling, Sending
<1>4. Idle.at # "call" /\ \A e : Holds(e, "call").at = "call"
  BY DEF Idle, Holds
<1>5. CASE TakeAssign(w)
  <2>1. toAssign # <<>> /\ toAssign' = Tail(toAssign) /\ UNCHANGED count /\ w \notin Assigning
    BY <1>4, <1>5, Zenon DEF TakeAssign, Assigning
  <2>2. Head(toAssign) \in MatchRecords /\ Len(toAssign') = Len(toAssign) - 1
    BY <1>1, <2>1, Channels, Zenon
  <2>3. Holds(Head(toAssign), "call") \in WorkerStates
    BY <2>2, HeldTypes, Zenon
  <2>4. /\ worker'["assign"][w] = Holds(Head(toAssign), "call")
        /\ \A v \in Workers : <<"assign", v>> # <<"assign", w>> => worker'["assign"][v] = worker["assign"][v]
    BY <1>5, <2>3, BecomesType, Zenon DEF TakeAssign
  <2>5. Assigning' = Assigning \cup {w}
    BY <1>4, <2>4, Zenon DEF Assigning
  <2>6. Cardinality(Assigning') = Cardinality(Assigning) + 1
    BY <1>2, <2>1, <2>5, Zenon
  <2>7. Carried' = Len(toAssign') + Cardinality(Assigning') + Cardinality(Sending)
    BY <1>3, Zenon DEF Carried
  <2>8. Carried' = Carried
    BY <1>1, <2>2, <2>6, <2>7 DEF Carried
  <2> QED BY <1>3, <2>1, <2>8, Zenon DEF Balanced, Finished, Ended
<1>6. CASE AssignTickets(w)
  <2>1. UNCHANGED toAssign /\ w \in Assigning
    BY <1>6, Zenon DEF AssignTickets, Assigning
  <2>2. /\ worker'["assign"][w] = Idle
        /\ \A v \in Workers : <<"assign", v>> # <<"assign", w>> => worker'["assign"][v] = worker["assign"][v]
    BY <1>1, <1>6, BecomesType, Zenon DEF AssignTickets
  <2>3. Assigning' = Assigning \ {w}
    BY <1>4, <2>2, Zenon DEF Assigning
  <2>4. Cardinality(Assigning') = Cardinality(Assigning) - 1
    BY <1>2, <2>1, <2>3, Zenon
  <2>5. /\ count'["calls"] = count["calls"] /\ count'["returned"] = count["returned"]
        /\ Finished' = Finished /\ Ended' = Ended + 1
    <3>1. CASE count' = [count EXCEPT !["assigned"] = @ + 1]
      BY <3>1, CountedOnce DEF Counters, Ended, Finished
    <3>2. CASE count' = [count EXCEPT !["assignsFailed"] = @ + 1]
      BY <3>2, CountedOnce DEF Counters, Ended, Finished
    <3> QED BY <1>6, <3>1, <3>2, Zenon DEF AssignTickets, Counted, FailedAssign
  <2>6. Carried' = Len(toAssign) + Cardinality(Assigning') + Cardinality(Sending)
    BY <1>3, <2>1, Zenon DEF Carried
  <2>7. Carried' = Carried - 1
    BY <1>1, <2>4, <2>6 DEF Carried
  <2>8. "assigns" \in scenario => count'["returned"] = Ended' + Carried'
    BY <1>1, <2>5, <2>7 DEF Balanced
  <2> QED BY <1>3, <2>5, <2>8, Zenon DEF Balanced
<1>7. ASSUME NEW k \in Roles \ {"assign"}, NEW what \in WorkerStates, Becomes(k, w, what),
             UNCHANGED <<toAssign, count>>
      PROVE  Balanced'
  <2>1. \A v \in Workers : <<"assign", v>> # <<k, w>> => worker'["assign"][v] = worker["assign"][v]
    BY <1>7, BecomesType, Zenon
  <2>2. Assigning' = Assigning
    BY <2>1, Zenon DEF Assigning
  <2> QED BY <1>3, <1>7, <2>2, Zenon DEF Balanced, Finished, Ended, Carried
<1>8. CASE TakeAcknowledge(w)
  <2>1. Head(toAcknowledge) \in MatchRecords
    BY <1>8, Channels, Zenon DEF TakeAcknowledge, HandTypes
  <2>2. Holds(Head(toAcknowledge), "call") \in WorkerStates
    BY <2>1, HeldTypes, Zenon
  <2> QED BY <1>1, <1>7, <1>8, <2>2, Zenon DEF TakeAcknowledge
<1>9. CASE AcknowledgeBackfill(w)
  <2>1. worker["acknowledge"][w].match \in MatchRecords
    BY <1>9, InHand, Zenon DEF AcknowledgeBackfill
  <2>2. Holds(worker["acknowledge"][w].match, "send") \in WorkerStates
    BY <2>1, HeldTypes, Zenon
  <2> QED BY <1>1, <1>7, <1>9, <2>2, Zenon DEF AcknowledgeBackfill, NotAcknowledged
<1>10. CASE TakeDelete(w)
  <2>1. Head(toDelete) \in MatchRecords
    BY <1>10, Channels, Zenon DEF TakeDelete, HandTypes
  <2>2. Holds(Head(toDelete), "call") \in WorkerStates
    BY <2>1, HeldTypes, Zenon
  <2> QED BY <1>1, <1>7, <1>10, <2>2, Zenon DEF TakeDelete
<1>11. CASE SendToDelete(w) \/ DeleteBackfill(w)
  BY <1>1, <1>7, <1>11, Zenon DEF SendToDelete, DeleteBackfill
<1> QED BY <1>5, <1>6, <1>8, <1>9, <1>10, <1>11, Zenon DEF WorkerStep

\* No call and no match is lost between the counters of the scale backend.
THEOREM CountersRight == ScaleSpec => []CountersBalance
<1>1. HandTypes /\ Balanced /\ [ScaleNext]_scaleVars => Balanced'
  <2> SUFFICES ASSUME HandTypes, Balanced, [ScaleNext]_scaleVars PROVE Balanced'
    BY Zenon
  <2>1. CASE UNCHANGED <<scenario, backVars>>
    BY <2>1, Zenon DEF Balanced, Finished, Ended, Carried, Calling, Sending,
      Assigning, backVars
  <2>2. CASE Tick
    <3>1. Calling = {} /\ Calling' = Profiles /\ Sending = {} /\ Sending' = {}
      BY <2>2 DEF Tick, Calling, Sending, Idle
    <3>2. Assigning' = Assigning /\ UNCHANGED <<scenario, toAssign>>
      BY <2>2, Zenon DEF Tick, Assigning
    <3>3. Cardinality(Calling) = 0 /\ Cardinality(Calling') = Cardinality(Profiles)
      BY <3>1, FS_EmptySet, Zenon
    <3>4. Cardinality(Profiles) \in Nat
      BY ScaleAssumption, FS_CardinalityType, Zenon
    <3>5. /\ count'["calls"] = count["calls"] + Cardinality(Profiles)
          /\ \A c \in Counters \ {"calls"} : count'[c] = count[c]
      BY <2>2, <3>4 DEF Tick, Counters, HandTypes
    <3>6. count'["returned"] = count["returned"] /\ Finished' = Finished /\ Ended' = Ended
      BY <3>5, Zenon DEF Counters, Finished, Ended
    <3>7. Carried' = Carried
      BY <3>1, <3>2, Zenon DEF Carried
    <3>8. Finished \in Nat
      BY BusyCounts, Zenon
    <3>9. count'["calls"] = Finished' + Cardinality(Calling')
      BY <3>3, <3>4, <3>5, <3>6, <3>8 DEF Balanced
    <3> QED BY <3>2, <3>6, <3>7, <3>9, Zenon DEF Balanced
  <2>3. ASSUME NEW r \in Runners, RunnerStep(r) PROVE UNCHANGED <<scenario, backVars>>
    BY <2>3, Zenon DEF RunnerStep, Spawn, Waits, Creates, CreateTicket,
      WatchAssignments, DeleteTicket
  <2>4. CASE CreateBackfill \/ UNCHANGED scaleVars
    BY <2>1, <2>4, Zenon DEF CreateBackfill, scaleVars
  <2> QED
    BY <2>1, <2>2, <2>3, <2>4, BalancedFetcher, BalancedWorker, Zenon DEF ScaleNext
<1>2. HandTypes /\ Balanced => CountersBalance
  <2> SUFFICES ASSUME HandTypes, Balanced PROVE CountersBalance
    BY Zenon
  <2>1. /\ Len(toAssign) \in Nat /\ Cardinality(Assigning) \in Nat /\ Cardinality(Sending) \in Nat
        /\ Ended \in Nat
    BY BusyCounts, Zenon
  <2>2. Ended + Carried = Ended + Len(toAssign) + Cardinality(Assigning) + Cardinality(Sending)
    BY <2>1 DEF Carried
  <2>3. Busy("assign", "call") = Cardinality(Assigning)
    BY Zenon DEF Busy, Assigning
  <2> QED
    BY <2>2, <2>3, Zenon DEF Balanced, Finished, Ended, CountersBalance, Calling,
      Sending
<1>3. HandTypes /\ [ScaleNext]_scaleVars => HandTypes'
  BY HandTypesStep, Zenon
<1> QED BY <1>1, <1>2, <1>3, HandTypesInit, BalancedInit, PTL DEF ScaleSpec
=============================================================================
