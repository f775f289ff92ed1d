----------------------------- MODULE MCMatchRun -----------------------------
(***************************************************************************)
(* MatchRun with two overlapping pools, three tickets in them and one that *)
(* is in neither, and two backfills.                                       *)
(***************************************************************************)
EXTENDS MatchRun, FilterCases

CONSTANTS t1, t2, t3, other, b1, b2, low, any

Entities(skill, tags) == [doubles |-> [x \in {"skill"} |-> skill],
                          strings |-> [x \in {"mode"} |-> "cp"],
                          tags |-> tags, created |-> 1]

MCEntity == t1 :> Entities(0, {"eu"}) @@ t2 :> Entities(1, {"eu"})
            @@ t3 :> Entities(2, {"eu", "us"})
            @@ other :> [Entities(0, {}) EXCEPT !.doubles = <<>>]
            @@ b1 :> Entities(1, {"eu"}) @@ b2 :> Entities(0, {"eu", "us"})

Skilled(min, max, exclude) ==
    [ranges |-> {[arg |-> "skill", min |-> min, max |-> max, exclude |-> exclude]},
     equals |-> {[arg |-> "mode", value |-> "cp"]}, tags |-> {"eu"},
     after |-> 0, before |-> Unset]
MCPool == any :> Skilled(0, 2, {}) @@ low :> Skilled(0, 2, {"max"})

MCTicketsAt == 0 :> {t1, t2, t3, other} @@ 1 :> {t2, t3, other}

\* No pool has the ticket other, so that its place does not matter.
MCOrders == {ts \o <<other>> \o bs : ts \in SetToSeqs({t1, t2, t3}), 
                                  bs \in SetToSeqs({b1, b2})}
MCBackfillsAt == 0 :> (b1 :> 1) @@ 1 :> (b1 :> Unset @@ b2 :> 0)
MCPoolSeq == <<any, low>>

\* Who belongs to the pools: the skill of t3 is an end, which one of them excludes.
Belong == any :> {t1, t2, t3, b1, b2} @@ low :> {t1, t2, b1, b2}
-----------------------------------------------------------------------------

\* The filter is what its test cases say, also at the ends of a range, at infinity
\* and where a bound or a value is not a number, however an end is excluded; and
\* what a handler streams is what belongs to the pool of its request, and all of
\* that which the cache has.
FilterDecidesCases ==
    /\ Wrong = {}
    /\ \A q \in Queries : gor[q] = "stream" => Results(q) = EveryRow(q) \cap Belong[q[2]]
=============================================================================
