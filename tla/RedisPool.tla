------------------------------ MODULE RedisPool ------------------------------
(***************************************************************************)
(* The connection pools of the state store.  A call of the store takes a   *)
(* connection from the Redis pool and gives it back.  Where a sentinel is  *)
(* configured, dialling the master takes a connection from the sentinel    *)
(* pool first.  The health check has a pool of its own.                    *)
(*                                                                         *)
(* The pools are those of the library, with Wait set: a pool of MaxActive  *)
(* connections has as many tokens, one for each connection in use, and no  *)
(* limit when MaxActive is 0.                                              *)
(***************************************************************************)
EXTENDS Naturals, FiniteSets

CONSTANTS
    Calls, Checks,      \* calls of the store, and health checks
    Configs             \* redis.pool.maxActive, maxIdle and sentinelHostname

ASSUME PoolAssumption ==
    /\ IsFiniteSet(Calls)
    /\ \A c \in Configs : c.maxActive \in Nat /\ c.maxIdle \in Nat /\ c.sentinel \in {"set", "unset"}

VARIABLES
    config,     \* the member of Configs, never changed
    call,       \* where each call is
    inUse,      \* the tokens taken from each pool
    idle,       \* the idle connections of each pool
    expired,    \* the calls whose context has ended
    check       \* where each health check is

poolVars == <<config, call, inUse, idle, expired, check>>

Pools == {"redis", "sentinel", "health"}

PoolTypes ==
    /\ call \in [Calls -> {"none", "start", "wait", "dial", "ask", "master", "do", "ok", "error"}]
    /\ check \in [Checks -> {"none", "start", "dial", "ping", "ok", "unavailable"}]
    /\ inUse \in [Pools -> Nat] /\ idle \in [Pools -> Nat] /\ expired \subseteq Calls

PoolInit ==
    /\ config \in Configs
    /\ call = [c \in Calls |-> "none"] /\ check = [h \in Checks |-> "none"]
    /\ inUse = [p \in Pools |-> 0] /\ idle = [p \in Pools |-> 0] /\ expired = {}

-----------------------------------------------------------------------------
(* The pools of the library.                                               *)

Limit(p) == IF p = "health" THEN 0 ELSE config.maxActive
MaxIdle(p) == IF p = "health" THEN 3 ELSE config.maxIdle
Free(p) == Limit(p) = 0 \/ inUse[p] < Limit(p)

\* A connection is taken: an idle one that passes testOnBorrow, after those
\* that do not have been closed, or one that is to be dialled.
Take(p) ==
    /\ Free(p)
    /\ inUse' = [inUse EXCEPT ![p] = @ + 1]
    /\ \E left \in 0 .. idle[p] : idle' = [idle EXCEPT ![p] = left]

\* An idle connection was found: it, and perhaps others, are idle no more.
Borrowed(p) == idle'[p] < idle[p]

\* A connection that has an error is closed, and one too many is closed too.
PutBack(p, fate) ==
    /\ inUse' = [inUse EXCEPT ![p] = @ - 1]
    /\ idle' = [idle EXCEPT ![p] = IF fate = "kept" /\ @ < MaxIdle(p) THEN @ + 1 ELSE @]

Moves(c, to) == call' = [call EXCEPT ![c] = to]

-----------------------------------------------------------------------------
(* A call of the store.                                                    *)

Expire(c) ==
    /\ call[c] \notin {"none", "ok", "error"} /\ expired' = expired \cup {c} /\ c \notin expired
    /\ UNCHANGED <<config, call, inUse, idle, check>>

Begin(c) ==
    /\ call[c] = "none" /\ Moves(c, "start")
    /\ UNCHANGED <<config, inUse, idle, expired, check>>

\* GetContext of the Redis pool.
Get(c) ==
    /\ call[c] = "start" /\ Take("redis")
    /\ \/ Borrowed("redis") /\ Moves(c, "do")
       \/ idle'["redis"] = 0 /\ Moves(c, IF config.sentinel = "set" THEN "wait" ELSE "master")
    /\ UNCHANGED <<config, expired, check>>

GetExpired(c) ==
    /\ call[c] = "start" /\ c \in expired /\ Moves(c, "error")
    /\ UNCHANGED <<config, inUse, idle, expired, check>>

GivesUp(c) == c \in expired

\* dialFunc fails: the library takes back the token of the Redis pool.
DialFails(c) ==
    /\ \/ call[c] = "wait" /\ GivesUp(c)
       \/ call[c] = "master"
    /\ Moves(c, "error") /\ PutBack("redis", "closed")
    /\ UNCHANGED <<config, expired, check>>

\* The sentinel pool: its connections are never given back, so none is idle.
SentinelGet(c) ==
    /\ call[c] = "wait" /\ Take("sentinel") /\ Moves(c, "dial")
    /\ UNCHANGED <<config, expired, check>>

SentinelDial(c) ==
    /\ call[c] = "dial"
    /\ \/ Moves(c, "ask") /\ UNCHANGED <<inUse, idle>>
       \/ /\ Moves(c, "error") /\ idle' = idle
          /\ inUse' = [inUse EXCEPT !["redis"] = @ - 1, !["sentinel"] = @ - 1]
    /\ UNCHANGED <<config, expired, check>>

\* The connection to the sentinel stays taken, whatever it answers.
AskMaster(c) ==
    /\ call[c] = "ask"
    /\ \/ Moves(c, "master") /\ UNCHANGED <<inUse, idle>>
       \/ Moves(c, "error") /\ PutBack("redis", "closed")
    /\ UNCHANGED <<config, expired, check>>

DialMaster(c) ==
    /\ call[c] = "master" /\ Moves(c, "do")
    /\ UNCHANGED <<config, inUse, idle, expired, check>>

\* Mutant: a call that fails does not close its connection.
Leaks(c, to) ==
    /\ Moves(c, to)
    /\ IF to = "error" THEN UNCHANGED <<inUse, idle>> ELSE PutBack("redis", "kept")

handleConnectionClose(c, to) ==
    /\ Moves(c, to) /\ PutBack("redis", IF to = "error" THEN "closed" ELSE "kept")

Do(c) ==
    /\ call[c] = "do" /\ \E to \in {"ok", "error"} : handleConnectionClose(c, to)
    /\ UNCHANGED <<config, expired, check>>

-----------------------------------------------------------------------------
(* HealthCheck.                                                            *)

healthCheckPool == "health"

BeginCheck(h) ==
    /\ check[h] = "none" /\ check' = [check EXCEPT ![h] = "start"]
    /\ UNCHANGED <<config, call, inUse, idle, expired>>

HealthCheck(h) ==
    /\ check[h] = "start" /\ Take(healthCheckPool)
    /\ \/ Borrowed(healthCheckPool) /\ check' = [check EXCEPT ![h] = "ping"]
       \/ idle'[healthCheckPool] = 0 /\ check' = [check EXCEPT ![h] = "dial"]
    /\ UNCHANGED <<config, call, expired>>

HealthDial(h) ==
    /\ check[h] = "dial"
    /\ \/ check' = [check EXCEPT ![h] = "ping"] /\ UNCHANGED <<inUse, idle>>
       \/ check' = [check EXCEPT ![h] = "unavailable"] /\ PutBack(healthCheckPool, "closed")
    /\ UNCHANGED <<config, call, expired>>

Ping(h) ==
    /\ check[h] = "ping"
    /\ \/ check' = [check EXCEPT ![h] = "ok"] /\ PutBack(healthCheckPool, "kept")
       \/ check' = [check EXCEPT ![h] = "unavailable"] /\ PutBack(healthCheckPool, "closed")
    /\ UNCHANGED <<config, call, expired>>

StoreStep ==
    \/ \E c \in Calls : \/ Get(c) \/ GetExpired(c) \/ DialFails(c) \/ SentinelGet(c)
                        \/ SentinelDial(c) \/ AskMaster(c) \/ DialMaster(c) \/ Do(c)
    \/ \E h \in Checks : HealthCheck(h) \/ HealthDial(h) \/ Ping(h)

PoolNext ==
    \/ StoreStep
    \/ \E c \in Calls : Begin(c) \/ Expire(c)
    \/ \E h \in Checks : BeginCheck(h)

PoolSpec == PoolInit /\ [][PoolNext]_poolVars

-----------------------------------------------------------------------------
(* Properties.                                                             *)

\* A token of the Redis pool is out exactly for every call between its Get and
\* its Close: no failing path keeps one, and none gives back two.
TokensHeld ==
    inUse["redis"] = Cardinality({c \in Calls : call[c] \in {"wait", "dial", "ask", "master", "do"}})

\* A call waits for a connection for ever only when a sentinel is configured
\* and MaxActive of its connections have been taken: without a sentinel, and
\* with no limit, every call ends.
WaitsOnlyForSentinel ==
    <>[](\/ \A c \in Calls : call[c] \in {"none", "ok", "error"}
         \/ config.sentinel = "set" /\ config.maxActive > 0 /\ ~Free("sentinel"))

\* A health check ends although every connection of the calls is in use and
\* every call waits for ever.
HealthCheckEnds == <>[](\A h \in Checks : check[h] \in {"none", "ok", "unavailable"})

\* A call whose context ends is not held up by the pools.
ExpiredCallEnds == <>[](\A c \in expired : call[c] \in {"ok", "error"})

\* Nobody waits for a connection for ever but for one that the sentinel's pool
\* never gets back, and even then not longer than the context says.
PoolsLetGo == WaitsOnlyForSentinel /\ HealthCheckEnds /\ ExpiredCallEnds
=============================================================================
