----------------------------- MODULE MCPrograms -----------------------------
(***************************************************************************)
(* Programs that share nothing: the demo, the scale test, the tutorials,   *)
(* the connection pools of the state store and the reaper.  A behaviour is *)
(* one of one of them.                                                     *)
(***************************************************************************)
EXTENDS Demo, Scale, Tutorials, RedisPool, Reaper

Page(who, faults, updates) ==
    [part |-> "page", who |-> who, faults |-> faults, rounds |-> 1, updates |-> updates]

Play == [part |-> "play", who |-> {"p1", "p2", "director"}, faults |-> {"rpc"},
         rounds |-> 2, updates |-> 1]

MCCasts ==
    {Page({"p1", "uptime"}, {"viewer", "rpc"}, 2), Page({"p1", "uptime"}, {"viewer", "cancel"}, 1),
     Page({"p1", "p2"}, {"cancel"}, 2), Page({"director", "p1"}, {"rpc"}, 2), Play}

Acknowledging == {"acknowledges", "deletes", "deletesTickets"}

MCScenarios ==
    {Acknowledging, {"assigns", "faults"}, {"acknowledges"}, {"acknowledges", "deletes", "faults"}}

\* Tickets in the pools of both profiles, as old as each other or not.
Both == {"a", "b"}
Drawn == [tags |-> <<{"a"}, Both, Both, {"a"}>>, entered |-> <<1, 2, 2, 3>>]
MCDraws == {Drawn, [tags |-> <<Both, Both, Both, {"b"}>>, entered |-> <<2, 1, 3, 1>>]}

PoolOf(limit, sentinel) == [maxActive |-> limit, maxIdle |-> 1, sentinel |-> sentinel]
Unlimited == PoolOf(0, "unset")
MCConfigs == {Unlimited, PoolOf(2, "unset"), PoolOf(1, "set"), PoolOf(2, "set")}

\* The first name is used again.
MCLives == <<2, 1, 1>>

VARIABLE program

vars == <<program, demoVars, scaleVars, tutorialVars, poolVars, reaperVars>>

Init ==
    /\ program \in {"demo", "scale", "tutorial", "pool", "reaper"}
    /\ DemoInit /\ ScaleInit /\ TutorialInit /\ PoolInit /\ ReaperInit
    /\ program # "demo" => cast = Play
    /\ program # "scale" => scenario = Acknowledging
    /\ program # "tutorial" => makeTicket = Drawn
    /\ program # "pool" => config = Unlimited

DemoRuns ==
    program = "demo" /\ UNCHANGED <<program, scaleVars, tutorialVars, poolVars, reaperVars>>
ScaleRuns ==
    program = "scale" /\ UNCHANGED <<program, demoVars, tutorialVars, poolVars, reaperVars>>
TutorialRuns ==
    program = "tutorial" /\ UNCHANGED <<program, demoVars, scaleVars, poolVars, reaperVars>>
PoolRuns ==
    program = "pool" /\ UNCHANGED <<program, demoVars, scaleVars, tutorialVars, reaperVars>>
ReaperRuns ==
    program = "reaper" /\ UNCHANGED <<program, demoVars, scaleVars, tutorialVars, poolVars>>

Next ==
    \/ DemoRuns /\ DemoNext
    \/ ScaleRuns /\ ScaleNext
    \/ TutorialRuns /\ TutorialNext
    \/ PoolRuns /\ PoolNext
    \/ ReaperRuns /\ ReaperNext

\* Goroutines run.  The bounds make every program come to rest, so that one
\* condition for all goroutines of a program is enough.  Calls need not fail.
Spec ==
    /\ Init /\ [][Next]_vars
    /\ WF_vars(DemoRuns /\ Goroutines)
    /\ WF_vars(ScaleRuns /\ ScaleNext)
    /\ WF_vars(TutorialRuns /\ TutorialNext /\ UNCHANGED failures)
    /\ WF_vars(PoolRuns /\ StoreStep)

\* Every variable of the programs stays in its type; in particular no channel
\* of the scale backend holds more than its capacity.
TypeOK == DemoTypes /\ ScaleTypes /\ TutorialTypes /\ PoolTypes /\ ReaperTypes

\* The programs keep their books: what a player, a gauge, a counter, a match or
\* a pool says agrees with the goroutines and tickets it is about.
ProgramsInv ==
    /\ TypeOK /\ PlaysWithOpponent /\ GaugesCountRunners /\ CountersBalance
    /\ FetchedDisjoint /\ NothingLeftPending /\ TokensHeld
=============================================================================
