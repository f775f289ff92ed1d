-------------------------------- MODULE Scale --------------------------------
(***************************************************************************)
(* The programs of the scale test: a frontend whose runners each create a  *)
(* ticket and wait for its assignment, and a backend that fetches matches  *)
(* at every tick and hands them, over bounded channels, to workers that    *)
(* assign tickets, acknowledge backfills and delete backfills.             *)
(*                                                                         *)
(* A match is its tickets, its backfill and the slots open in its copy of  *)
(* the backfill.                                                           *)
(***************************************************************************)
EXTENDS Naturals, Integers, FiniteSets, Sequences

CONSTANTS
    Runners, Profiles, Workers,
    OpenBackfills,  \* the backfills that the frontend may create
    Slots,          \* the open slots of a new backfill
    Capacity,       \* of each channel; 30000 in the code
    MaxTicks,       \* bound: iterations of the backend
    Scenarios       \* what the active scenario may ask for

Absent == "none"

ASSUME ScaleAssumption ==
    /\ IsFiniteSet(Runners) /\ IsFiniteSet(Profiles) /\ IsFiniteSet(Workers)
    /\ IsFiniteSet(OpenBackfills)
    /\ Slots \in Nat \ {0} /\ Capacity \in Nat \ {0} /\ MaxTicks \in Nat
    /\ Absent \notin OpenBackfills
    /\ Scenarios \subseteq SUBSET {"assigns", "acknowledges", "deletes", "deletesTickets", "faults"}

VARIABLES
    scenario,       \* the member of Scenarios, never changed
    runner, gaugeOf, gauge,     \* the goroutines of the frontend, and its gauges
    creating,       \* the backfills the frontend has yet to create
    ticket,         \* Open Match: the state of the ticket of each runner,
    openSlots,      \* the open slots of each backfill, -1 when there is none,
    matched,        \* and the tickets matched with it
    ticks, fetcher, \* the backend: iterations begun, and the calls of this one
    toAssign, toAcknowledge, toDelete,      \* its channels
    worker,         \* what each worker does, by kind
    count           \* the counters of the backend

frontVars == <<runner, gaugeOf, gauge, creating>>
storeVars == <<ticket, openSlots, matched>>
backVars == <<ticks, fetcher, toAssign, toAcknowledge, toDelete, worker, count>>
scaleVars == <<scenario, frontVars, storeVars, backVars>>

Roles == {"assign", "acknowledge", "delete"}
Gauges == {"waiting", "creating"}
Counters == {"calls", "successes", "errors", "returned", "assigned", "assignsFailed"}
Idle == [at |-> "idle"]
Holds(m, phase) == [at |-> phase, match |-> m]

ScaleTypes ==
    /\ runner \in [Runners ->
                    {"no", "start", "waiting", "creating", "watching", "deleting", "done"}]
    /\ gaugeOf \in [Runners -> Gauges \cup {Absent}]
    /\ creating \in Nat
    /\ ticket \in [Runners -> {"no", "open", "pending", "assigned", "deleted"}]
    /\ openSlots \in [OpenBackfills -> -1..Slots] /\ matched \in [OpenBackfills -> SUBSET Runners]
    /\ \A q \in {toAssign, toAcknowledge, toDelete} : Len(q) <= Capacity
    /\ count \in [Counters -> Nat]

ScaleInit ==
    /\ scenario \in Scenarios
    /\ runner = [r \in Runners |-> "no"] /\ gaugeOf = [r \in Runners |-> Absent]
    /\ gauge = [g \in Gauges |-> 0]
    /\ creating = Cardinality(OpenBackfills)
    /\ ticket = [r \in Runners |-> "no"]
    /\ openSlots = [b \in OpenBackfills |-> -1] /\ matched = [b \in OpenBackfills |-> {}]
    /\ ticks = 0 /\ fetcher = [p \in Profiles |-> Idle]
    /\ toAssign = <<>> /\ toAcknowledge = <<>> /\ toDelete = <<>>
    /\ worker = [k \in Roles |-> [w \in Workers |-> Idle]]
    /\ count = [c \in Counters |-> 0]

Fails == "faults" \in scenario

-----------------------------------------------------------------------------
(* The frontend.                                                           *)

\* createBackfills: the first failure ends it, and is not reported.
CreateBackfill ==
    /\ creating > 0
    /\ \/ \E b \in OpenBackfills :
            /\ openSlots[b] = -1 /\ openSlots' = [openSlots EXCEPT ![b] = Slots]
            /\ creating' = creating - 1
       \/ Fails /\ creating' = 0 /\ UNCHANGED openSlots
    /\ UNCHANGED <<scenario, runner, gaugeOf, gauge, ticket, matched, backVars>>

\* run starts a runner only when the backfills have been created.
Spawn(r) ==
    /\ creating = 0 /\ runner[r] = "no" /\ runner' = [runner EXCEPT ![r] = "start"]
    /\ UNCHANGED <<scenario, gaugeOf, gauge, creating, storeVars, backVars>>

\* stateGauge.stop and start, and the deferred stop of a runner that ends.
Add(g, d) == IF g = Absent THEN gauge ELSE [gauge EXCEPT ![g] = @ + d]

StopStage(r) == Add(gaugeOf[r], -1)

StartStage(r, phase, g) ==
    /\ gauge' = [StopStage(r) EXCEPT ![g] = @ + 1]
    /\ gaugeOf' = [gaugeOf EXCEPT ![r] = g]
    /\ runner' = [runner EXCEPT ![r] = phase]

EndsRunner(r) ==
    /\ gauge' = StopStage(r) /\ gaugeOf' = [gaugeOf EXCEPT ![r] = Absent]
    /\ runner' = [runner EXCEPT ![r] = "done"]

Goes(r, phase) == runner' = [runner EXCEPT ![r] = phase] /\ UNCHANGED <<gaugeOf, gauge>>

Waits(r) ==
    /\ runner[r] = "start" /\ StartStage(r, "waiting", "waiting")
    /\ UNCHANGED <<scenario, creating, storeVars, backVars>>

Creates(r) ==
    /\ runner[r] = "waiting" /\ StartStage(r, "creating", "creating")
    /\ UNCHANGED <<scenario, creating, storeVars, backVars>>

\* The ticket may have been created although the call fails.
CreateTicket(r) ==
    /\ runner[r] = "creating"
    /\ \/ Goes(r, "watching") /\ ticket' = [ticket EXCEPT ![r] = "open"]
       \/ Fails /\ EndsRunner(r) /\ ticket' \in {ticket, [ticket EXCEPT ![r] = "open"]}
    /\ UNCHANGED <<scenario, creating, openSlots, matched, backVars>>

\* With or without an assignment, the ticket is deleted if the scenario says so.
WatchAssignments(r) ==
    /\ runner[r] = "watching" /\ (ticket[r] = "assigned" \/ Fails)
    /\ IF "deletesTickets" \in scenario THEN Goes(r, "deleting") ELSE EndsRunner(r)
    /\ UNCHANGED <<scenario, creating, storeVars, backVars>>

DeleteTicket(r) ==
    /\ runner[r] = "deleting" /\ EndsRunner(r)
    /\ ticket' \in {[ticket EXCEPT ![r] = "deleted"]} \cup (IF Fails THEN {ticket} ELSE {})
    /\ UNCHANGED <<scenario, creating, openSlots, matched, backVars>>

-----------------------------------------------------------------------------
(* The backend.                                                            *)

Counted(c) == count' = [count EXCEPT ![c] = @ + 1]

\* A tick, once the calls of the last one have ended: a call per profile.
Tick ==
    /\ ticks < MaxTicks /\ \A p \in Profiles : fetcher[p] = Idle
    /\ ticks' = ticks + 1
    /\ fetcher' = [p \in Profiles |-> [at |-> "fetch"]]
    /\ count' = [count EXCEPT !["calls"] = @ + Cardinality(Profiles)]
    /\ UNCHANGED <<scenario, frontVars, storeVars, toAssign, toAcknowledge, toDelete, worker>>

\* What Open Match returns: a match of tickets that are in no other, perhaps
\* with a backfill that has room for them and is stored with fewer slots.
FetchedMatches ==
    {[tickets |-> {r}, backfill |-> b, slots |-> IF b = Absent THEN 0 ELSE openSlots[b] - 1] :
        r \in {s \in Runners : ticket[s] = "open"},
        b \in {Absent} \cup {c \in OpenBackfills : openSlots[c] > 0}}

\* Recv: the end of the stream, an error, or a match, which is then sent.
Receives(p) ==
    /\ fetcher[p].at = "fetch"
    /\ \/ Counted("successes") /\ fetcher' = [fetcher EXCEPT ![p] = Idle] /\ UNCHANGED storeVars
       \/ /\ Fails /\ Counted("errors") /\ fetcher' = [fetcher EXCEPT ![p] = Idle]
          /\ UNCHANGED storeVars
       \/ \E m \in FetchedMatches :
            /\ Counted("returned") /\ fetcher' = [fetcher EXCEPT ![p] = Holds(m, "toAssign")]
            /\ ticket' = [r \in Runners |-> IF r \in m.tickets THEN "pending" ELSE ticket[r]]
            /\ openSlots' = [b \in OpenBackfills |->
                              IF b = m.backfill THEN m.slots ELSE openSlots[b]]
            /\ matched' = [b \in OpenBackfills |->
                            matched[b] \cup (IF b = m.backfill THEN m.tickets ELSE {})]
    /\ UNCHANGED <<scenario, frontVars, ticks, toAssign, toAcknowledge, toDelete, worker>>

\* Mutant: the last place of a channel is not used.
KeepsOneFree(queue) == Len(queue) + 1 < Capacity

Room(queue) == Len(queue) < Capacity

SentOn(wanted, queue, m) == IF wanted THEN Append(queue, m) ELSE queue

SendToAssign(p) ==
    /\ fetcher[p].at = "toAssign" /\ ("assigns" \in scenario => Room(toAssign))
    /\ toAssign' = SentOn("assigns" \in scenario, toAssign, fetcher[p].match)
    /\ fetcher' = [fetcher EXCEPT ![p].at = "toAcknowledge"]
    /\ UNCHANGED <<scenario, frontVars, storeVars, ticks, toAcknowledge, toDelete, worker, count>>

SendToAcknowledge(p) ==
    /\ fetcher[p].at = "toAcknowledge"
    /\ "acknowledges" \in scenario => Room(toAcknowledge)
    /\ toAcknowledge' = SentOn("acknowledges" \in scenario, toAcknowledge, fetcher[p].match)
    /\ fetcher' = [fetcher EXCEPT ![p] = [at |-> "fetch"]]
    /\ UNCHANGED <<scenario, frontVars, storeVars, ticks, toAssign, toDelete, worker, count>>

Becomes(k, w, what) == worker' = [worker EXCEPT ![k][w] = what]

\* runAssignments.
TakeAssign(w) ==
    /\ worker["assign"][w] = Idle /\ toAssign # <<>>
    /\ Becomes("assign", w, Holds(Head(toAssign), "call")) /\ toAssign' = Tail(toAssign)
    /\ UNCHANGED <<scenario, frontVars, storeVars, ticks, fetcher, toAcknowledge, toDelete, count>>

\* Only tickets that are still there are assigned.
AssignedTo(tickets) ==
    [r \in Runners |-> IF r \in tickets /\ ticket[r] # "deleted" THEN "assigned" ELSE ticket[r]]

\* Mutant: a failed assignment is not counted.
NotCounted == count

FailedAssign == [count EXCEPT !["assignsFailed"] = @ + 1]

AssignTickets(w) ==
    /\ worker["assign"][w].at = "call" /\ Becomes("assign", w, Idle)
    /\ \/ Counted("assigned") /\ ticket' = AssignedTo(worker["assign"][w].match.tickets)
       \/ /\ Fails /\ count' = FailedAssign
          /\ ticket' \in {ticket, AssignedTo(worker["assign"][w].match.tickets)}
    /\ UNCHANGED <<scenario, frontVars, openSlots, matched, ticks, fetcher, toAssign,
                   toAcknowledge, toDelete>>

\* runAcknowledgeBackfills: a match without a backfill is skipped.
TakeAcknowledge(w) ==
    /\ worker["acknowledge"][w] = Idle /\ toAcknowledge # <<>>
    /\ LET m == Head(toAcknowledge) IN
       Becomes("acknowledge", w, IF m.backfill = Absent THEN Idle ELSE Holds(m, "call"))
    /\ toAcknowledge' = Tail(toAcknowledge)
    /\ UNCHANGED <<scenario, frontVars, storeVars, ticks, fetcher, toAssign, toDelete, count>>

ToBeDeleted == "deletes" \in scenario

\* Mutant: a backfill that could not be acknowledged is handed on too.
HandedOnAnyway(m) == IF ToBeDeleted THEN Holds(m, "send") ELSE Idle

NotAcknowledged(m) == Idle

\* Acknowledging assigns every ticket matched with the backfill.
AcknowledgeBackfill(w) ==
    LET m == worker["acknowledge"][w].match IN
    /\ worker["acknowledge"][w].at = "call"
    /\ \/ /\ openSlots[m.backfill] # -1 /\ ticket' = AssignedTo(matched[m.backfill])
          /\ Becomes("acknowledge", w, IF ToBeDeleted THEN Holds(m, "send") ELSE Idle)
       \/ /\ openSlots[m.backfill] = -1 \/ Fails
          /\ ticket' \in {ticket} \cup (IF openSlots[m.backfill] = -1 THEN {}
                                         ELSE {AssignedTo(matched[m.backfill])})
          /\ Becomes("acknowledge", w, NotAcknowledged(m))
    /\ UNCHANGED <<scenario, frontVars, openSlots, matched, ticks, fetcher, toAssign,
                   toAcknowledge, toDelete, count>>

SendToDelete(w) ==
    /\ worker["acknowledge"][w].at = "send" /\ Room(toDelete)
    /\ toDelete' = Append(toDelete, worker["acknowledge"][w].match)
    /\ Becomes("acknowledge", w, Idle)
    /\ UNCHANGED <<scenario, frontVars, storeVars, ticks, fetcher, toAssign, toAcknowledge, count>>

BackfillDeleteCond(m) == m.slots <= 0

\* runDeleteBackfills.
TakeDelete(w) ==
    /\ "deletes" \in scenario /\ worker["delete"][w] = Idle /\ toDelete # <<>>
    /\ Becomes("delete", w, IF BackfillDeleteCond(Head(toDelete))
                            THEN Holds(Head(toDelete), "call") ELSE Idle)
    /\ toDelete' = Tail(toDelete)
    /\ UNCHANGED <<scenario, frontVars, storeVars, ticks, fetcher, toAssign, toAcknowledge, count>>

DeleteBackfill(w) ==
    LET b == worker["delete"][w].match.backfill IN
    /\ worker["delete"][w].at = "call" /\ Becomes("delete", w, Idle)
    /\ openSlots' \in {[openSlots EXCEPT ![b] = -1]} \cup (IF Fails THEN {openSlots} ELSE {})
    /\ UNCHANGED <<scenario, frontVars, ticket, matched, ticks, fetcher, toAssign,
                   toAcknowledge, toDelete, count>>

-----------------------------------------------------------------------------
RunnerStep(r) ==
    Spawn(r) \/ Waits(r) \/ Creates(r) \/ CreateTicket(r) \/ WatchAssignments(r) \/ DeleteTicket(r)

FetcherStep(p) == Receives(p) \/ SendToAssign(p) \/ SendToAcknowledge(p)

WorkerStep(w) ==
    \/ TakeAssign(w) \/ AssignTickets(w)
    \/ TakeAcknowledge(w) \/ AcknowledgeBackfill(w) \/ SendToDelete(w)
    \/ TakeDelete(w) \/ DeleteBackfill(w)

ScaleNext ==
    \/ CreateBackfill \/ \E r \in Runners : RunnerStep(r)
    \/ Tick \/ \E p \in Profiles : FetcherStep(p)
    \/ \E w \in Workers : WorkerStep(w)

ScaleSpec == ScaleInit /\ [][ScaleNext]_scaleVars

-----------------------------------------------------------------------------
(* Properties.                                                             *)

\* The gauges of the frontend show how many runners are in each stage: every
\* stage that was begun is ended once, on the failing paths too.
GaugesCountRunners ==
    /\ gauge["waiting"] = Cardinality({r \in Runners : runner[r] = "waiting"})
    /\ gauge["creating"] =
         Cardinality({r \in Runners : runner[r] \in {"creating", "watching", "deleting"}})

Busy(k, phase) == Cardinality({w \in Workers : worker[k][w].at = phase})

\* No call and no match is lost between the counters: those that were begun
\* are those that ended, those in a channel and those somebody works on.
CountersBalance ==
    /\ count["calls"] = count["successes"] + count["errors"]
                          + Cardinality({p \in Profiles : fetcher[p] # Idle})
    /\ "assigns" \in scenario =>
        count["returned"] = count["assigned"] + count["assignsFailed"] + Len(toAssign)
            + Busy("assign", "call") + Cardinality({p \in Profiles : fetcher[p].at = "toAssign"})

\* When a backfill is deleted it is full, although the copy the decision is made
\* on may be old, and every ticket matched with it has been assigned, whatever
\* match the acknowledgement was made for.
DeletedWhenDone ==
    [][\A b \in OpenBackfills : openSlots[b] # -1 /\ openSlots'[b] = -1
         => openSlots[b] = 0 /\ \A r \in matched[b] : ticket[r] \in {"assigned", "deleted"}]_scaleVars

\* Every iteration of the backend ends and the channels run empty, although
\* the channels are bounded and one kind of worker fills the channel of another.
IterationsEnd ==
    <>[](\A p \in Profiles : fetcher[p] = Idle /\ toAssign \o toAcknowledge \o toDelete = <<>>)
=============================================================================
