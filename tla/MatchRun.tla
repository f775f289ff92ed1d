------------------------------ MODULE MatchRun ------------------------------
(***************************************************************************)
(* One run of a match function, from its pool queries (PoolQueries) to the *)
(* matches an evaluator accepts, for the match functions of the examples.  *)
(***************************************************************************)
EXTENDS PoolQueries, MatchFunctions

CONSTANT Orders  \* the orders that Go may give tickets and backfills in a map

VARIABLES
    phase,      \* Run, once it has its results: make, send, ok, error
    function,   \* the match function
    proposals, sent,  \* its proposals, and how many are sent
    accepted    \* the matches accepted by the scenario's evaluator

matchVars == <<phase, function, proposals, sent, accepted>>
allVars == <<queryVars, matchVars>>

Skill == [t \in DOMAIN Entity |-> IF "skill" \in DOMAIN Entity[t].doubles
                                  THEN Entity[t].doubles["skill"] ELSE 0]

RunInit ==
    /\ QueryInit /\ phase = "make"
    /\ function = None /\ proposals = <<>> /\ sent = 0 /\ accepted = <<>>
-----------------------------------------------------------------------------
(* Making and sending matches. *)

\* What a query has returned, if its handler saw the map in that order.
Received(what, p, order) ==
    SelectSeq(order, LAMBDA e : e \in Results(<<what, p>>))

Seen == UNION {Results(<<"tickets", p>>) : p \in Pools}

\* Backfills with their slots when they were read.
ReceivedBackfills(p, order) ==
    LET b == Received("backfills", p, order)
    IN  [i \in DOMAIN b |-> [id |-> b[i], slots |-> BackfillsAt[bAnswer[p]][b[i]]]]

FunctionsOf == [pools |-> {"soloduel", "tutorial"},
                scenario |-> {"firstmatch", "battleroyal", "teamshooter", "statefull",
                              "stateless"},
                sequence |-> {"backfill"}, ids |-> {"none"}]

\* What a match function returns.  soloduel puts the tickets of all pools in a map; the
\* backfill example works on one pool after the other.
MatchesOf(f, order) ==
    LET tickets == Received("tickets", Pool1, order)
        backfills == ReceivedBackfills(Pool1, order)
    IN  CASE f = "soloduel" -> Chunks(SelectSeq(order, LAMBDA t : t \in Seen), 2)
          [] f = "tutorial" ->
                PerPoolMatches([p \in Pools |-> Received("tickets", p, order)], 1)
          [] f = "backfill" -> FlattenSeq([i \in DOMAIN PoolSeq |->
                BackfillMatches(Received("tickets", PoolSeq[i], order),
                                ReceivedBackfills(PoolSeq[i], order))])
          [] f = "firstmatch" -> Chunks(tickets, 2)
          [] f = "battleroyal" -> Chunks(tickets, PlayersPerMatch)
          [] f = "teamshooter" -> SkillWindows(tickets, Skill)
          [] f = "statefull" -> statefullMMF(tickets, backfills)
          [] f = "stateless" -> statelessMMF(tickets, backfills)
          [] f = "none" -> <<>>

Make ==
    /\ main = "results" /\ phase = "make" /\ phase' = "send"
    /\ \E f \in FunctionsOf[plan], order \in Orders :
          function' = f /\ proposals' = MatchesOf(f, order)
    /\ UNCHANGED <<queryVars, sent, accepted>>

\* One proposal is sent; the stream fails once the caller has gone.
SendProposal ==
    /\ phase = "send" /\ sent < Len(proposals)
    /\ \/ sent' = sent + 1 /\ UNCHANGED phase
       \/ ctx = "done" /\ phase' = "error" /\ UNCHANGED sent
    /\ UNCHANGED <<queryVars, function, proposals, accepted>>

\* Run returns.  The evaluator of a scenario gets its proposals and those of a second
\* run for the same profile, which saw the pool in another order.
Return ==
    /\ phase = "send" /\ sent = Len(proposals) /\ phase' = "ok"
    /\ IF plan # "scenario" THEN UNCHANGED accepted
       ELSE \E order \in Orders :
              LET all == proposals \o MatchesOf(function, order)
              IN  accepted' = IF function = "teamshooter" THEN qualityEvaluate(all, Skill)
                              ELSE fifoEvaluate(all)
    /\ UNCHANGED <<queryVars, function, proposals, sent>>
-----------------------------------------------------------------------------
\* A run that has returned has no caller to lose; its goroutines go on.
RunNext ==
    \/ QueryNext /\ (phase \in {"ok", "error"} => ctx' = ctx) /\ UNCHANGED matchVars
    \/ Make \/ SendProposal \/ Return

RunSpec == RunInit /\ [][RunNext]_allVars

\* As long as some goroutine can run, one does: every step here uses up something, so
\* that no more is needed.  Make and Return are never blocked.
Goroutines ==
    \/ SendProposal
    \/ /\ \/ Cache \/ CollectCancelled
          \/ \E r \in Requests : CacheRequest(r) \/ HandlerEnds(r)
          \/ \E q \in Queries : Query(q) \/ Collect(q) \/ Abandon(q)
       /\ UNCHANGED matchVars

FairRunSpec ==
    /\ RunSpec /\ WF_allVars(Goroutines)
    /\ WF_phase(main = "results" /\ phase = "make" /\ phase' = "send")
    /\ WF_phase(phase = "send" /\ sent = Len(proposals) /\ phase' = "ok")
-----------------------------------------------------------------------------
(* Properties. *)

\* The states of the store that an answer to a query of the run may reflect.
StatesSince(since0) == IF since0 = None THEN {} ELSE since0 .. version

\* A proposal only has tickets that were in the store, and in a pool of the profile,
\* after the run had asked for them: a ticket that left before is never proposed.
TicketsFresh ==
    \A i \in DOMAIN proposals : \A t \in ToSet(proposals[i].tickets) :
        \E p \in Pools : /\ In(Pool[p], Entity[t])
                         /\ \E v \in StatesSince(asked[p]) : t \in TicketsAt[v]

Placed == UNION {ToSet(proposals[i].tickets) : i \in DOMAIN proposals}
PerMatch == IF function = "battleroyal" THEN PlayersPerMatch ELSE 2

\* The functions that open backfills propose every ticket of their pools; those that
\* make full matches leave out fewer tickets than a match has, and use none twice.
AllPlaced ==
    phase \in {"send", "ok"} =>
        /\ function = "backfill" => Placed = Seen
        /\ function = "statefull" => Placed = Results(<<"tickets", Pool1>>)
        /\ function \in {"firstmatch", "battleroyal", "soloduel"} =>
             /\ Cardinality(IF function = "soloduel" THEN Seen ELSE Results(<<"tickets", Pool1>>))
                  - Cardinality(Placed) < PerMatch
             /\ \A i, j \in DOMAIN proposals : i # j =>
                  ToSet(proposals[i].tickets) \cap ToSet(proposals[j].tickets) = {}
             /\ \A i \in DOMAIN proposals : Len(proposals[i].tickets) = PerMatch

\* The open slots of a proposed backfill are those it had in a state of the store after
\* the run began, less the tickets of the match, and never negative: two runs of a
\* function never promise more places than the game server has.
SlotsBalance ==
    function \in {"backfill", "statefull"} => \A i \in DOMAIN proposals :
        LET m == proposals[i] IN m.backfill # NoBackfill =>
          /\ m.open >= 0 /\ m.tickets # <<>>
          /\ IF m.backfill = New THEN m.open + Len(m.tickets) = PlayersPerMatch
             ELSE \E p \in Pools : \E v \in StatesSince(bAsked[p]) :
                    /\ m.backfill \in DOMAIN BackfillsAt[v]
                    /\ m.open + Len(m.tickets)
                         = getOpenSlots([slots |-> BackfillsAt[v][m.backfill]])

\* What a run proposes is what the store held after it had asked: the tickets, and the
\* open slots of the backfills they join.
ProposalsFresh == TicketsFresh /\ SlotsBalance

\* The evaluators of the scenarios accept no ticket twice, also when two runs propose it.
EvaluatedDisjoint ==
    \A i, j \in DOMAIN accepted : i # j =>
        ToSet(accepted[i].tickets) \cap ToSet(accepted[j].tickets) = {}

\* Two players whom teamshooter may put in one match are both in the pool of some
\* profile: sharding by skill separates nobody who could meet.
ShardsCover ==
    \A x, y \in -5 .. 5 : x - y \in 0 .. SkillDifference =>
        \E pool \in teamProfiles({"eu", "us"}, {"cp", "pl"}, <<-9, 0, 9>>) :
            \A v \in {x, y} : In(pool, [doubles |-> [a \in {"skill"} |-> v],
                                        strings |-> [a \in {"mode"} |-> "pl"],
                                        tags |-> {"us"}, created |-> 1])

\* Profiles, functions and evaluators together leave nobody out and use nobody twice.
EveryoneMatched == AllPlaced /\ EvaluatedDisjoint /\ ShardsCover

\* A run returns, and the goroutines of its queries with it, whether their results were
\* taken or not; the cache answers every request it was sent, cancelled or not.
RunEnds ==
    /\ <>((main = "error" \/ phase \in {"ok", "error"})
         /\ \A q \in Queries : gor[q] \in {"off", "taken", "gone"})
    /\ <>[](\A r \in Requests : req[r] \in {"idle", "done"})
=============================================================================
