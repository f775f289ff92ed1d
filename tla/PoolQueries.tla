---------------------------- MODULE PoolQueries ----------------------------
(***************************************************************************)
(* The pool queries of one run of a match function: the handlers of the    *)
(* query service on top of the ticket cache (QueryCache), and the          *)
(* goroutines of QueryPools and QueryBackfillPools.  The backfill cache is *)
(* used through what it promises, FreshRead.                               *)
(*                                                                         *)
(* A request of the ticket cache is a QueryTickets or QueryTicketIds call  *)
(* for the pool of that name.                                              *)
(***************************************************************************)
EXTENDS QueryCache, PoolFilter

CONSTANTS
    PoolSeq,     \* the names of the profile's pools, in order
    Pool,        \* name -> pool
    Entity,      \* ticket or backfill -> its search fields and create time
    TicketsAt,   \* state of the store -> tickets in it
    BackfillsAt, \* state of the store -> backfills in it, with their slots
    PageSizes,   \* configured page sizes
    Plans,       \* clients: "pools", "scenario", "sequence", "ids"
    Faults       \* what may fail: "query", "caller"

VARIABLES
    plan,       \* how the match function queries its pools
    stage,      \* the index of the query that it makes or made last
    main,       \* Run, as far as it queries: query, results, error
    ctx,        \* the context of Run: "live" or "done"
    gor,        \* query -> its goroutine: off, ready, call, stream, offer, taken, gone
    start,      \* query -> the first row of the next page
    got,        \* query -> number of rows the client has received, or Error
    pageSize,   \* the page size of the handlers
    bAsked, bAnswer  \* the backfill cache, as asked and answer

clientVars == <<plan, stage, main, ctx, gor, start, got, pageSize, bAsked, bAnswer>>
queryVars == <<vars, clientVars>>

Pools == {PoolSeq[i] : i \in DOMAIN PoolSeq}

ASSUME QueryConstants ==
    /\ Pools \subseteq Requests /\ IsFiniteSet(DOMAIN Entity)
    /\ PageSizes \subseteq Int \cup {Unset}

BC == INSTANCE FreshRead WITH Requests <- Pools, asked <- bAsked, answer <- bAnswer

\* A query is what it asks for and the name of the pool.
Queries == {"tickets", "backfills", "ids"} \X Pools

\* The profiles of the scenarios have one pool.
Pool1 == PoolSeq[1]

\* The queries of a match function, in the order it makes them: QueryPools; then
\* QueryBackfillPools in the scenarios of scale; or pool by pool.  The client of
\* QueryTicketIds is not a match function.
Stages ==
    [pools    |-> <<{"tickets"} \X Pools>>,
     scenario |-> <<{<<"tickets", Pool1>>}, {<<"backfills", Pool1>>}>>,
     ids      |-> [i \in DOMAIN PoolSeq |-> {<<"ids", PoolSeq[i]>>}],
     sequence |-> [i \in 1 .. 2 * Len(PoolSeq) |->
                     {<<IF i % 2 = 1 THEN "tickets" ELSE "backfills", PoolSeq[(i + 1) \div 2]>>}]]
Stage == Stages[plan][stage]
Concurrent == plan \in {"pools", "scenario"}

QueryInit ==
    /\ Init
    /\ plan \in Plans /\ stage = 1 /\ main = "query" /\ ctx = "live"
    /\ gor = [q \in Queries |-> IF q \in Stage THEN "ready" ELSE "off"]
    /\ start = [q \in Queries |-> 0] /\ got = [q \in Queries |-> 0]
    /\ pageSize \in {getPageSize(c) : c \in PageSizes}
    /\ bAsked = [p \in Pools |-> None] /\ bAnswer = [p \in Pools |-> None]

\* The context of a query: that of Run, cancelled also when QueryPools returns.
QueryCtxDone(q) ==
    \/ ctx = "done"
    \/ Concurrent /\ ~(main = "query" /\ q \in Stage)
-----------------------------------------------------------------------------
(* The query service: QueryTickets, QueryTicketIds and QueryBackfills. *)

QueryFrame == <<plan, stage, main, ctx, pageSize>>

\* The call, up to the request it makes of the cache.
Call(q) ==
    /\ gor[q] = "ready"
    /\ gor' = [gor EXCEPT ![q] = "call"]
    /\ IF q[1] = "backfills" THEN BC!Ask(q[2]) /\ UNCHANGED vars
       ELSE Request(q[2]) /\ UNCHANGED <<bAsked, bAnswer>>
    /\ UNCHANGED <<start, got, QueryFrame>>

\* The entities that a pool's filter lets in.
Members == [p \in Pools |-> {e \in DOMAIN Entity : In(Pool[p], Entity[e])}]

\* The whole map that the cache hands over.
EveryRow(q) == IF q[1] = "backfills" THEN DOMAIN BackfillsAt[bAnswer[q[2]]]
               ELSE TicketsAt[answer[q[2]]]

\* The entities that the function passed to the cache collects: those of the pool.  Their
\* order, that of a Go map, is left open until the match function uses it.
Results(q) == EveryRow(q) \cap Members[q[2]]

\* The cache has answered; its error ends the call.
Collected(q, state) ==
    IF state = Error
    THEN got' = [got EXCEPT ![q] = Error] /\ gor' = [gor EXCEPT ![q] = "offer"]
    ELSE gor' = [gor EXCEPT ![q] = "stream"] /\ UNCHANGED got

TicketsCollected(q) ==
    /\ gor[q] = "call" /\ q[1] # "backfills"
    /\ Finish(q[2]) \/ Cancelled(q[2])
    /\ Collected(q, answer'[q[2]])
    /\ UNCHANGED <<start, bAsked, bAnswer, QueryFrame>>

BackfillsCollected(q) ==
    /\ gor[q] = "call" /\ q[1] = "backfills"
    /\ \E v \in (0 .. version) \cup {Error} : BC!Answer(q[2], v)
    /\ Collected(q, bAnswer'[q[2]])
    /\ UNCHANGED <<vars, start, QueryFrame>>

\* The least of two numbers.
Lesser(a, b) == IF a <= b THEN a ELSE b

\* Mutant: the end is the last row of the page, not the one after it.
ShortEnd(first, count) == Lesser(first + pageSize - 1, count)

PageEnd(first, count) == Lesser(first + pageSize, count)

\* The handler sends a page, and the client appends it.
Page(q) ==
    /\ gor[q] = "stream" /\ start[q] < Cardinality(Results(q))
    /\ got' = [got EXCEPT ![q] = @ + PageEnd(start[q], Cardinality(Results(q))) - start[q]]
    /\ start' = [start EXCEPT ![q] = @ + pageSize]
    /\ UNCHANGED <<vars, gor, bAsked, bAnswer, QueryFrame>>

\* The handler has returned nil, and the client gets EOF.
EndOfPages(q) ==
    /\ gor[q] = "stream" /\ start[q] >= Cardinality(Results(q))
    /\ gor' = [gor EXCEPT ![q] = "offer"]
    /\ UNCHANGED <<vars, start, got, bAsked, bAnswer, QueryFrame>>

\* The stream breaks, or the context of the query is done.  The handler may still be
\* in the cache.
QueryFails(q) ==
    /\ gor[q] \in {"call", "stream"} /\ ("query" \in Faults \/ QueryCtxDone(q))
    /\ gor' = [gor EXCEPT ![q] = "offer"] /\ got' = [got EXCEPT ![q] = Error]
    /\ UNCHANGED <<vars, start, bAsked, bAnswer, QueryFrame>>

Query(q) == \/ Call(q) \/ TicketsCollected(q) \/ BackfillsCollected(q) \/ Page(q)
            \/ EndOfPages(q) \/ (QueryCtxDone(q) /\ QueryFails(q))
-----------------------------------------------------------------------------
(* QueryPools, QueryBackfillPools and the loop over pools. *)

RunFrame == <<vars, plan, ctx, start, got, pageSize, bAsked, bAnswer>>

\* The main goroutine takes the result of one query.  The first error ends the call.
Collect(q) ==
    /\ main = "query" /\ q \in Stage /\ gor[q] = "offer"
    /\ LET taken == [gor EXCEPT ![q] = "taken"]
           last == \A r \in Stage : taken[r] = "taken"
       IN  IF got[q] = Error
           THEN main' = "error" /\ gor' = taken /\ UNCHANGED stage
           ELSE IF ~last THEN gor' = taken /\ UNCHANGED <<main, stage>>
           ELSE IF stage = Len(Stages[plan])
           THEN main' = "results" /\ gor' = taken /\ UNCHANGED stage
           ELSE /\ stage' = stage + 1 /\ UNCHANGED main
                /\ gor' = [r \in Queries |-> IF r \in Stages[plan][stage + 1]
                                             THEN "ready" ELSE taken[r]]
    /\ UNCHANGED RunFrame

\* ctx.Done in the select of QueryPools.
CollectCancelled ==
    /\ main = "query" /\ Concurrent /\ ctx = "done"
    /\ main' = "error"
    /\ UNCHANGED <<RunFrame, stage, gor>>

\* Mutant: only the context of Run counts, which nobody cancels when QueryPools returns.
NotCancelled(q) == ctx = "done"

Abandons(q) == QueryCtxDone(q)

\* ctx.Done in the select of a query's goroutine.
Abandon(q) ==
    /\ Concurrent /\ gor[q] = "offer" /\ Abandons(q)
    /\ gor' = [gor EXCEPT ![q] = "gone"]
    /\ UNCHANGED <<RunFrame, stage, main>>

\* The caller of a run goes away.
CallerGone ==
    /\ "caller" \in Faults /\ ctx = "live" /\ main \in {"query", "results"}
    /\ ctx' = "done"
    /\ UNCHANGED <<vars, plan, stage, main, gor, start, got, pageSize, bAsked, bAnswer>>
-----------------------------------------------------------------------------
QueryOf(r) == <<IF plan = "ids" THEN "ids" ELSE "tickets", r>>

\* A handler whose client has given up leaves the cache.
HandlerEnds(r) ==
    /\ gor[QueryOf(r)] # "call" /\ (Finish(r) \/ Cancelled(r))
    /\ UNCHANGED clientVars

\* The context of a handler is done some time after that of its client, or when the
\* client has left.
HandlerCancelled(r) ==
    /\ QueryCtxDone(QueryOf(r)) \/ gor[QueryOf(r)] \in {"offer", "taken", "gone"}
    /\ CancelCtx(r) /\ UNCHANGED clientVars

Cache == Run /\ UNCHANGED clientVars
CacheRequest(r) == (StartRun(r) \/ SendRequest(r)) /\ UNCHANGED clientVars

QueryNext ==
    \/ StoreChanges /\ UNCHANGED clientVars
    \/ Cache \/ CollectCancelled \/ CallerGone
    \/ \E r \in Requests : CacheRequest(r) \/ HandlerEnds(r) \/ HandlerCancelled(r)
    \/ \E q \in Queries : Query(q) \/ QueryFails(q) \/ Collect(q) \/ Abandon(q)

QuerySpec == QueryInit /\ [][QueryNext]_queryVars
-----------------------------------------------------------------------------
(* Properties. *)

\* A query that succeeds has returned every entity of its pool, in the state of the
\* store its request was answered with, whatever the page size.
PagesComplete ==
    \A q \in Queries : gor[q] \in {"offer", "taken"} /\ got[q] # Error =>
        got[q] = Cardinality(Results(q))

\* An answer is one whole state of the store: the cache is not updated under a reader,
\* and no page of the answer is left out or sent twice.
AnswersWhole == NoReadDuringUpdate /\ PagesComplete
=============================================================================
