-------------------------- MODULE SmallPartsProofs --------------------------
(***************************************************************************)
(* Proofs about three parts that stand alone: the default evaluator, the   *)
(* connection pool of the state store, and the reaper of test namespaces.  *)
(***************************************************************************)
EXTENDS Evaluator, RedisPool, Reaper, FiniteSetTheorems, TLAPS

-----------------------------------------------------------------------------
(* The default evaluator, for any proposals, scores and stream failures.   *)

\* The decollider marks exactly what the accepted matches use, and accepted
\* matches do not collide.
UsedInv ==
    /\ \A m \in resultIDs : tickets[m] \subseteq ticketsUsed
    /\ \A m \in resultIDs : backfill[m] # None => backfill[m] \in backfillsUsed
    /\ \A t \in ticketsUsed : \E n \in resultIDs : t \in tickets[n]
    /\ \A b \in backfillsUsed : \E n \in resultIDs : backfill[n] = b
    /\ \A m, n \in resultIDs : m # n => ~Conflict(m, n)

\* Accepted matches score at least as high as the ones still to be considered,
\* and nothing is accepted before all proposals have been collected.
OrderInv ==
    /\ eval = "collect" => resultIDs = {}
    /\ eval \in {"emit", "done"} => matches = {}
    /\ eval # "collect" => recv = "done"
    /\ \A n \in resultIDs : \A m \in matches : score[n] >= score[m]

Outranked(m) == \E n \in resultIDs : Conflict(m, n) /\ score[n] >= score[m]

\* Unless the call fails, no proposal and no accepted id is lost.
KeptInv ==
    err = "none" =>
      /\ recv = "done" => todo = {}
      /\ \A m \in Matches : \/ m \in todo \cup matches \cup resultIDs \cup malformed
                            \/ m = offered \/ Outranked(m)
      /\ \A m \in resultIDs : m \in responses \cup unsent \/ m = sending
      /\ eval = "done" => unsent = {}
      /\ send # "drain"

IInv == TypeOK /\ UsedInv /\ OrderInv /\ KeptInv
-----------------------------------------------------------------------------
\* The initial state.
LEMMA InitInv == Init => IInv
BY EvaluatorConstants, Zenon DEF Init, IInv, TypeOK, UsedInv, OrderInv, KeptInv

\* Types are preserved.
LEMMA TypeStep ==
  ASSUME TypeOK, [Next]_vars
  PROVE  TypeOK'
<1> USE DEF TypeOK, inputVars, recvVars, evalVars, sendVars
<1>Recv. ASSUME NEW m \in Matches, Recv(m) PROVE TypeOK'
  BY <1>Recv, EvaluatorConstants, Zenon DEF Recv
<1>MaybeAdd. ASSUME NEW m \in Matches, MaybeAdd(m) PROVE TypeOK'
  BY <1>MaybeAdd, EvaluatorConstants DEF MaybeAdd, Marked, BackfillMarked, Best
<1>TakeOut. ASSUME NEW m \in Matches, TakeOut(m) PROVE TypeOK'
  BY <1>TakeOut, EvaluatorConstants, Zenon DEF TakeOut, Receiving
<1>RecvEOF. CASE RecvEOF
  BY <1>RecvEOF, EvaluatorConstants, Zenon DEF RecvEOF
<1>RecvFails. CASE RecvFails
  BY <1>RecvFails, EvaluatorConstants, Zenon DEF RecvFails
<1>RecvCancelled. CASE RecvCancelled
  BY <1>RecvCancelled, EvaluatorConstants, Zenon DEF RecvCancelled
<1>Collect. CASE Collect
  BY <1>Collect, EvaluatorConstants, Zenon DEF Collect
<1>Collected. CASE Collected
  BY <1>Collected, EvaluatorConstants, Zenon DEF Collected
<1>Decollided. CASE Decollided
  BY <1>Decollided, EvaluatorConstants, Zenon DEF Decollided
<1>Emitted. CASE Emitted
  BY <1>Emitted, EvaluatorConstants, Zenon DEF Emitted
<1>Send. CASE Send
  BY <1>Send, EvaluatorConstants DEF Send, AfterFailure
<1>Sent. CASE Sent
  BY <1>Sent, EvaluatorConstants, Zenon DEF Sent, Receiving
<1>unch. CASE UNCHANGED vars
  BY <1>unch DEF vars
<1> QED
  BY <1>Recv, <1>MaybeAdd, <1>TakeOut, <1>RecvEOF, <1>RecvFails, <1>RecvCancelled,
    <1>Collect, <1>Collected, <1>Decollided, <1>Emitted, <1>Send, <1>Sent, <1>unch,
    Zenon DEF Next

\* What is used and what is accepted agree.
LEMMA UsedStep ==
  ASSUME TypeOK, UsedInv, [Next]_vars
  PROVE  UsedInv'
<1> USE DEF TypeOK, UsedInv, Conflict, inputVars, recvVars, evalVars, sendVars
<1>Recv. ASSUME NEW m \in Matches, Recv(m) PROVE UsedInv'
  BY <1>Recv, EvaluatorConstants DEF Recv
<1>MaybeAdd. ASSUME NEW m \in Matches, MaybeAdd(m) PROVE UsedInv'
  <2>1. UNCHANGED <<tickets, backfill, score>>
    BY <1>MaybeAdd, Zenon DEF MaybeAdd
  <2>2. CASE Collides(m)
    BY <1>MaybeAdd, <2>1, <2>2 DEF MaybeAdd
  <2>3. CASE ~Collides(m)
    <3>1. /\ ticketsUsed' = ticketsUsed \cup tickets[m]
          /\ backfillsUsed' = backfillsUsed \cup ({backfill[m]} \ {None})
          /\ resultIDs' = resultIDs \cup {m}
      BY <1>MaybeAdd, <2>3, Zenon DEF MaybeAdd, Marked, BackfillMarked
    <3>2. \A n \in resultIDs : ~Conflict(m, n) /\ ~Conflict(n, m)
      BY <2>3, Zenon DEF Collides
    <3>3. \A n, k \in resultIDs' : n # k => ~Conflict(n, k)
      BY <3>1, <3>2
    <3>4. (\A n, k \in resultIDs : n # k => ~Conflict(n, k))'
      BY <2>1, <3>3, Zenon
    <3>5. \A n \in resultIDs' : /\ tickets[n] \subseteq ticketsUsed'
                                /\ backfill[n] # None => backfill[n] \in backfillsUsed'
      BY <3>1, Zenon
    <3>6. /\ \A t \in ticketsUsed' : \E n \in resultIDs' : t \in tickets[n]
          /\ \A b \in backfillsUsed' : \E n \in resultIDs' : backfill[n] = b
      BY <3>1, Zenon
    <3> QED
      BY <2>1, <3>4, <3>5, <3>6, Zenon
  <2> QED
    BY <2>2, <2>3, Zenon
<1>TakeOut. ASSUME NEW m \in Matches, TakeOut(m) PROVE UsedInv'
  BY <1>TakeOut, EvaluatorConstants DEF TakeOut, Receiving
<1>RecvEOF. CASE RecvEOF
  BY <1>RecvEOF, EvaluatorConstants DEF RecvEOF
<1>RecvFails. CASE RecvFails
  BY <1>RecvFails, EvaluatorConstants DEF RecvFails
<1>RecvCancelled. CASE RecvCancelled
  BY <1>RecvCancelled, EvaluatorConstants DEF RecvCancelled
<1>Collect. CASE Collect
  BY <1>Collect, EvaluatorConstants DEF Collect
<1>Collected. CASE Collected
  BY <1>Collected, EvaluatorConstants DEF Collected
<1>Decollided. CASE Decollided
  BY <1>Decollided, EvaluatorConstants DEF Decollided
<1>Emitted. CASE Emitted
  BY <1>Emitted, EvaluatorConstants DEF Emitted
<1>Send. CASE Send
  BY <1>Send, EvaluatorConstants DEF Send, AfterFailure
<1>Sent. CASE Sent
  BY <1>Sent, EvaluatorConstants DEF Sent, Receiving
<1>unch. CASE UNCHANGED vars
  BY <1>unch DEF vars
<1> QED
  BY <1>Recv, <1>MaybeAdd, <1>TakeOut, <1>RecvEOF, <1>RecvFails, <1>RecvCancelled,
    <1>Collect, <1>Collected, <1>Decollided, <1>Emitted, <1>Send, <1>Sent, <1>unch,
    Zenon DEF Next

\* Matches are considered in the order of their scores.
LEMMA OrderStep ==
  ASSUME TypeOK, OrderInv, [Next]_vars
  PROVE  OrderInv'
<1> USE DEF TypeOK, OrderInv, inputVars, recvVars, evalVars, sendVars
<1>Recv. ASSUME NEW m \in Matches, Recv(m) PROVE OrderInv'
  BY <1>Recv, EvaluatorConstants, Zenon DEF Recv
<1>MaybeAdd. ASSUME NEW m \in Matches, MaybeAdd(m) PROVE OrderInv'
  BY <1>MaybeAdd, EvaluatorConstants, Zenon DEF MaybeAdd, Marked, BackfillMarked, Best
<1>TakeOut. ASSUME NEW m \in Matches, TakeOut(m) PROVE OrderInv'
  BY <1>TakeOut, EvaluatorConstants, Zenon DEF TakeOut, Receiving
<1>RecvEOF. CASE RecvEOF
  BY <1>RecvEOF, EvaluatorConstants, Zenon DEF RecvEOF
<1>RecvFails. CASE RecvFails
  BY <1>RecvFails, EvaluatorConstants, Zenon DEF RecvFails
<1>RecvCancelled. CASE RecvCancelled
  BY <1>RecvCancelled, EvaluatorConstants, Zenon DEF RecvCancelled
<1>Collect. CASE Collect
  BY <1>Collect, EvaluatorConstants, Zenon DEF Collect
<1>Collected. CASE Collected
  BY <1>Collected, EvaluatorConstants, Zenon DEF Collected
<1>Decollided. CASE Decollided
  BY <1>Decollided, EvaluatorConstants, Zenon DEF Decollided
<1>Emitted. CASE Emitted
  BY <1>Emitted, EvaluatorConstants, Zenon DEF Emitted
<1>Send. CASE Send
  BY <1>Send, EvaluatorConstants, Zenon DEF Send, AfterFailure
<1>Sent. CASE Sent
  BY <1>Sent, EvaluatorConstants, Zenon DEF Sent, Receiving
<1>unch. CASE UNCHANGED vars
  BY <1>unch, Zenon DEF vars
<1> QED
  BY <1>Recv, <1>MaybeAdd, <1>TakeOut, <1>RecvEOF, <1>RecvFails, <1>RecvCancelled,
    <1>Collect, <1>Collected, <1>Decollided, <1>Emitted, <1>Send, <1>Sent, <1>unch,
    Zenon DEF Next

\* Nothing is lost while no error is reported.
LEMMA KeptStep ==
  ASSUME TypeOK, UsedInv, OrderInv, KeptInv, [Next]_vars
  PROVE  KeptInv'
<1> USE DEF TypeOK, KeptInv, Outranked, Conflict, inputVars, recvVars, evalVars, sendVars
<1>Recv. ASSUME NEW m \in Matches, Recv(m) PROVE KeptInv'
  BY <1>Recv, EvaluatorConstants, Zenon DEF Recv
<1>MaybeAdd. ASSUME NEW m \in Matches, MaybeAdd(m) PROVE KeptInv'
  <2>1. /\ UNCHANGED <<tickets, backfill, score, malformed, todo, recv, offered, eval>>
        /\ UNCHANGED <<send, sending, responses, err>>
        /\ m \in matches /\ matches' = matches \ {m} /\ eval = "decollide"
    BY <1>MaybeAdd, Zenon DEF MaybeAdd, Best
  <2>2. resultIDs \subseteq resultIDs'
    BY <1>MaybeAdd, Zenon DEF MaybeAdd
  <2>3. Collides(m) => Outranked(m)
    <3>1. \A n \in resultIDs : score[n] >= score[m]
      BY <2>1, Zenon DEF OrderInv
    <3>2. Collides(m) => \E n \in resultIDs : Conflict(m, n)
      BY Zenon DEF Collides, UsedInv
    <3> QED
      BY <3>1, <3>2, Zenon
  <2>4. m \in resultIDs' \/ Outranked(m)
    BY <1>MaybeAdd, <2>3, Zenon DEF MaybeAdd
  <2>5. \A n \in Matches : Outranked(n) => Outranked(n)'
    BY <2>1, <2>2, Zenon
  <2>6. err = "none" => \A n \in resultIDs' : n \in responses \cup unsent' \/ n = sending
    BY <1>MaybeAdd, Zenon DEF MaybeAdd
  <2>7. err = "none" =>
          \A n \in Matches : \/ n \in todo \cup matches \cup resultIDs \cup malformed
                             \/ n = offered \/ Outranked(n)
    BY Zenon
  <2> HIDE DEF Outranked
  <2>8. err = "none" =>
          \A n \in Matches : \/ n \in todo \cup matches' \cup resultIDs' \cup malformed
                             \/ n = offered \/ Outranked(n)'
    BY <2>1, <2>2, <2>4, <2>5, <2>7, Zenon
  <2> QED
    BY <2>1, <2>6, <2>8, Zenon
<1>TakeOut. ASSUME NEW m \in Matches, TakeOut(m) PROVE KeptInv'
  BY <1>TakeOut, EvaluatorConstants DEF TakeOut, Receiving
<1>RecvEOF. CASE RecvEOF
  BY <1>RecvEOF, EvaluatorConstants, Zenon DEF RecvEOF
<1>RecvFails. CASE RecvFails
  BY <1>RecvFails, EvaluatorConstants, Zenon DEF RecvFails
<1>RecvCancelled. CASE RecvCancelled
  BY <1>RecvCancelled, EvaluatorConstants, Zenon DEF RecvCancelled
<1>Collect. CASE Collect
  BY <1>Collect, EvaluatorConstants, Zenon DEF Collect
<1>Collected. CASE Collected
  BY <1>Collected, EvaluatorConstants, Zenon DEF Collected
<1>Decollided. CASE Decollided
  BY <1>Decollided, EvaluatorConstants, Zenon DEF Decollided
<1>Emitted. CASE Emitted
  BY <1>Emitted, EvaluatorConstants, Zenon DEF Emitted
<1>Send. CASE Send
  BY <1>Send, EvaluatorConstants, Zenon DEF Send, AfterFailure
<1>Sent. CASE Sent
  BY <1>Sent, EvaluatorConstants, Zenon DEF Sent, Receiving
<1>unch. CASE UNCHANGED vars
  BY <1>unch, Zenon DEF vars
<1> QED
  BY <1>Recv, <1>MaybeAdd, <1>TakeOut, <1>RecvEOF, <1>RecvFails, <1>RecvCancelled,
    <1>Collect, <1>Collected, <1>Decollided, <1>Emitted, <1>Send, <1>Sent, <1>unch,
    Zenon DEF Next

\* The invariant of a call of the default evaluator.
THEOREM EvaluatorInvariant == Spec => []IInv
<1>1. IInv /\ [Next]_vars => IInv'
  BY TypeStep, UsedStep, OrderStep, KeptStep, Zenon DEF IInv
<1> QED
  BY InitInv, <1>1, PTL DEF Spec

\* Types.
THEOREM EvaluatorTypes == Spec => []TypeOK
<1>1. IInv => TypeOK
  BY Zenon DEF IInv
<1> QED
  BY EvaluatorInvariant, <1>1, PTL

\* What one Evaluate call returns never contains a ticket or an existing backfill
\* twice, also when its input was cut short by a failing stream.
THEOREM AcceptedDoNotCollide == Spec => []AcceptedDisjoint
<1>1. IInv => AcceptedDisjoint
  BY Zenon DEF IInv, TypeOK, UsedInv, AcceptedDisjoint
<1> QED
  BY EvaluatorInvariant, <1>1, PTL

\* A call that succeeds rejects a proposal only if it is malformed or collides
\* with an accepted one whose score is at least as high.
THEOREM RejectedAreOutranked == Spec => []RejectedForBetter
<1>1. IInv => RejectedForBetter
  <2> SUFFICES ASSUME IInv, Returned, err = "none", NEW m \in Matches \ responses,
                      m \notin malformed
               PROVE  \E n \in responses : Conflict(m, n) /\ score[n] >= score[m]
    BY Zenon DEF RejectedForBetter
  <2>1. todo = {} /\ matches = {} /\ offered = None /\ sending = None /\ unsent = {}
    BY Zenon DEF IInv, TypeOK, OrderInv, KeptInv, Returned
  <2>2. resultIDs = responses
    BY <2>1, EvaluatorConstants DEF IInv, TypeOK, KeptInv
  <2>3. m # offered
    BY <2>1, EvaluatorConstants, Zenon
  <2> QED
    BY <2>1, <2>2, <2>3, Zenon DEF IInv, KeptInv, Outranked
<1> QED
  BY EvaluatorInvariant, <1>1, PTL

\* Both together: what an Evaluate call returns is a greedy choice by score.
THEOREM ChoiceIsGreedy == Spec => []GreedyChoice
<1>1. AcceptedDisjoint /\ RejectedForBetter => GreedyChoice
  BY Zenon DEF GreedyChoice
<1> QED
  BY <1>1, AcceptedDoNotCollide, RejectedAreOutranked, PTL

\* A set of those that are at something, with one more of them and one less.
LEMMA OneMoreOrLess ==
    ASSUME NEW S, IsFiniteSet(S), NEW T \in SUBSET S, NEW x \in S
    PROVE  /\ x \in T => Cardinality(T \ {x}) = Cardinality(T) - 1
           /\ x \notin T => Cardinality(T \cup {x}) = Cardinality(T) + 1
<1>1. IsFiniteSet(T)
  BY FS_Subset, Zenon
<1> QED BY <1>1, FS_RemoveElement, FS_AddElement, Zenon

-----------------------------------------------------------------------------
(* The connections of the state store.                                     *)

Holders == {c \in Calls : call[c] \in {"wait", "dial", "ask", "master", "do"}}

\* The calls and the counts of the pools as far as the tokens of the Redis pool go.
TokenInv ==
    /\ call \in [Calls -> {"none", "start", "wait", "dial", "ask", "master", "do", "ok", "error"}]
    /\ DOMAIN inUse = Pools /\ inUse = [p \in Pools |-> inUse[p]]
    /\ TokensHeld

\* A call that comes to hold a token, or holds one no more, is one holder more or less.
LEMMA HoldersCount ==
    /\ \A c \in Holders : Cardinality(Holders \ {c}) = Cardinality(Holders) - 1
    /\ \A c \in Calls \ Holders : Cardinality(Holders \cup {c}) = Cardinality(Holders) + 1
BY PoolAssumption, OneMoreOrLess, Zenon DEF Holders

\* A step that takes the token with the connection keeps the count.
LEMMA Taking ==
    ASSUME TokenInv, NEW c \in Calls, call[c] = "start", Take("redis"),
           NEW to \in {"do", "wait", "master"}, Moves(c, to)
    PROVE  TokenInv'
<1>1. Holders' = Holders \cup {c} /\ c \notin Holders
  BY Zenon DEF TokenInv, Moves, Holders
<1>2. inUse' = [p \in Pools |-> IF p = "redis" THEN inUse["redis"] + 1 ELSE inUse[p]]
  BY Zenon DEF TokenInv, Take, Pools
<1>3. inUse["redis"] = Cardinality(Holders) /\ inUse'["redis"] = inUse["redis"] + 1
  BY <1>2, Zenon DEF TokenInv, TokensHeld, Holders, Pools
<1>4. inUse'["redis"] = Cardinality(Holders')
  BY <1>1, <1>3, HoldersCount, Zenon
<1> QED BY <1>2, <1>4, Zenon DEF TokenInv, TokensHeld, Holders, Moves

\* So does a step that ends a call and gives the token back.
LEMMA GivingBack ==
    ASSUME TokenInv, NEW c \in Holders, NEW to \in {"ok", "error"}, Moves(c, to),
           DOMAIN inUse' = Pools, inUse' = [p \in Pools |-> inUse'[p]],
           inUse'["redis"] = inUse["redis"] - 1
    PROVE  TokenInv'
<1>1. Holders' = Holders \ {c}
  BY Zenon DEF TokenInv, Moves, Holders
<1>2. inUse["redis"] = Cardinality(Holders)
  BY Zenon DEF TokenInv, TokensHeld, Holders
<1>3. inUse'["redis"] = Cardinality(Holders')
  BY <1>1, <1>2, HoldersCount, Zenon
<1> QED BY <1>3, Zenon DEF TokenInv, TokensHeld, Holders, Moves

\* And a step that touches no token of the Redis pool.
LEMMA Keeping ==
    ASSUME TokenInv, call' \in [Calls -> {"none", "start", "wait", "dial", "ask", "master", "do",
                                          "ok", "error"}], Holders' = Holders,
           DOMAIN inUse' = Pools, inUse' = [p \in Pools |-> inUse'[p]],
           inUse'["redis"] = inUse["redis"]
    PROVE  TokenInv'
BY Zenon DEF TokenInv, TokensHeld, Holders

\* A pool other than the one for the calls counts its own tokens.
LEMMA OtherPool ==
    ASSUME TokenInv, NEW p \in {"sentinel", "health"}, NEW fate,
           Take(p) \/ PutBack(p, fate) \/ UNCHANGED inUse
    PROVE  /\ DOMAIN inUse' = Pools /\ inUse' = [q \in Pools |-> inUse'[q]]
           /\ inUse'["redis"] = inUse["redis"]
BY Zenon DEF TokenInv, Take, PutBack, Pools

\* No call of the store keeps a token of the Redis pool when it has ended, on whichever
\* path, and none gives back two.
THEOREM TokensReturn == PoolSpec => []TokensHeld
<1>1. PoolInit => TokenInv
  <2> SUFFICES ASSUME PoolInit PROVE TokenInv
    BY Zenon
  <2>1. Holders = {} /\ Cardinality(Holders) = 0
    BY FS_EmptySet, Zenon DEF PoolInit, Holders
  <2> QED BY <2>1, Zenon DEF PoolInit, TokenInv, TokensHeld, Holders, Pools
<1>2. TokenInv /\ [PoolNext]_poolVars => TokenInv'
  <2> SUFFICES ASSUME TokenInv, [PoolNext]_poolVars PROVE TokenInv'
    BY Zenon
  <2>1. ASSUME NEW c \in Calls, Get(c) PROVE TokenInv'
    BY <2>1, Taking, Zenon DEF Get
  <2>2. ASSUME NEW c \in Calls, PutBack("redis", "closed") \/ PutBack("redis", "kept")
        PROVE  /\ DOMAIN inUse' = Pools /\ inUse' = [p \in Pools |-> inUse'[p]]
               /\ inUse'["redis"] = inUse["redis"] - 1
    BY <2>2, Zenon DEF TokenInv, PutBack, Pools
  <2>3. ASSUME NEW c \in Calls, DialFails(c) PROVE TokenInv'
    <3>1. c \in Holders
      BY <2>3, Zenon DEF DialFails, Holders
    <3> QED BY <2>2, <2>3, <3>1, GivingBack, Zenon DEF DialFails
  <2>4. ASSUME NEW c \in Calls, Do(c) PROVE TokenInv'
    <3>1. c \in Holders
      BY <2>4, Zenon DEF Do, Holders
    <3>2. PICK to \in {"ok", "error"} : handleConnectionClose(c, to)
      BY <2>4, Zenon DEF Do
    <3> QED BY <2>2, <3>1, <3>2, GivingBack, Zenon DEF handleConnectionClose
  <2>5. ASSUME NEW c \in Calls, SentinelDial(c) PROVE TokenInv'
    <3>1. c \in Holders
      BY <2>5, Zenon DEF SentinelDial, Holders
    <3>2. CASE Moves(c, "ask") /\ UNCHANGED <<inUse, idle>>
      <4>1. Holders' = Holders /\ call' \in [Calls -> {"none", "start", "wait", "dial", "ask",
                                                      "master", "do", "ok", "error"}]
        BY <2>5, <3>2, Zenon DEF SentinelDial, Moves, Holders, TokenInv
      <4> QED BY <3>2, <4>1, Keeping, Zenon DEF TokenInv
    <3>3. CASE /\ Moves(c, "error")
               /\ inUse' = [inUse EXCEPT !["redis"] = @ - 1, !["sentinel"] = @ - 1]
      <4>1. /\ DOMAIN inUse' = Pools /\ inUse' = [p \in Pools |-> inUse'[p]]
            /\ inUse'["redis"] = inUse["redis"] - 1
        BY <3>3, Zenon DEF TokenInv, Pools
      <4> QED BY <3>1, <3>3, <4>1, GivingBack, Zenon
    <3> QED BY <2>5, <3>2, <3>3, Zenon DEF SentinelDial
  <2>6. ASSUME NEW c \in Calls, AskMaster(c) PROVE TokenInv'
    <3>1. c \in Holders
      BY <2>6, Zenon DEF AskMaster, Holders
    <3>2. CASE Moves(c, "master") /\ UNCHANGED <<inUse, idle>>
      <4>1. Holders' = Holders /\ call' \in [Calls -> {"none", "start", "wait", "dial", "ask",
                                                      "master", "do", "ok", "error"}]
        BY <2>6, <3>2, Zenon DEF AskMaster, Moves, Holders, TokenInv
      <4> QED BY <3>2, <4>1, Keeping, Zenon DEF TokenInv
    <3>3. CASE Moves(c, "error") /\ PutBack("redis", "closed")
      BY <2>2, <3>1, <3>3, GivingBack, Zenon
    <3> QED BY <2>6, <3>2, <3>3, Zenon DEF AskMaster
  <2>7. ASSUME NEW c \in Calls, GetExpired(c) \/ SentinelGet(c) \/ DialMaster(c) \/ Begin(c)
        PROVE  TokenInv'
    <3>1. Holders' = Holders /\ call' \in [Calls -> {"none", "start", "wait", "dial", "ask",
                                                    "master", "do", "ok", "error"}]
      BY <2>7, Zenon DEF GetExpired, SentinelGet, DialMaster, Begin, Moves, Holders,
        TokenInv
    <3>2. Take("sentinel") \/ UNCHANGED inUse
      BY <2>7, Zenon DEF GetExpired, SentinelGet, DialMaster, Begin
    <3> QED BY <3>1, <3>2, OtherPool, Keeping, Zenon
  <2>8. ASSUME NEW h \in Checks, HealthCheck(h) \/ HealthDial(h) \/ Ping(h) \/ BeginCheck(h)
        PROVE  TokenInv'
    <3>1. call' = call
      BY <2>8, Zenon DEF HealthCheck, HealthDial, Ping, BeginCheck
    <3>2. Take("health") \/ PutBack("health", "closed") \/ PutBack("health", "kept") \/ UNCHANGED inUse
      BY <2>8, Zenon DEF HealthCheck, HealthDial, Ping, BeginCheck, healthCheckPool
    <3> QED BY <3>1, <3>2, OtherPool, Keeping, Zenon DEF Holders, TokenInv
  <2>9. ASSUME (\E c \in Calls : Expire(c)) \/ UNCHANGED poolVars PROVE TokenInv'
    BY <2>9, Zenon DEF Expire, poolVars, TokenInv, TokensHeld
  <2> QED
    BY <2>1, <2>3, <2>4, <2>5, <2>6, <2>7, <2>8, <2>9, Zenon DEF PoolNext, StoreStep
<1> QED BY <1>1, <1>2, PTL DEF PoolSpec, TokenInv
-----------------------------------------------------------------------------
(* The reaper of test namespaces.                                          *)

\* A name is never used for two namespaces at once, and its namespaces come one after
\* the other.
NameInv ==
    /\ namespaces \in [Names -> [used : Nat, there : Nat]]
    /\ \A n \in Names : namespaces[n].there <= namespaces[n].used

\* What a request has in hand was there before, so it is no newer than what has the name.
ItemsInv ==
    /\ items \in [Reaps -> SUBSET Lives]
    /\ \A r \in Reaps : \A i \in items[r] :
         /\ i.life <= namespaces[i.name].used
         /\ namespaces[i.name].there # 0 => i.life <= namespaces[i.name].there

\* An orphan stays one, and as long as it is there it is still to come or was refused.
OrphansInv ==
    /\ orphans \in [Reaps -> SUBSET Lives] /\ refused \in [Reaps -> SUBSET Lives]
    /\ \A r \in Reaps : \A i \in orphans[r] :
         /\ i \in aged /\ i.name \in OpenMatchNames
         /\ i.life <= namespaces[i.name].used
         /\ i \in Present => i \in items[r] \/ i \in refused[r]

RequestInv ==
    /\ reap \in [Reaps -> {"none", "list", "delete", "ok", "error", "cut"}]
    /\ \A r \in Reaps : reap[r] \in {"none", "list"} => items[r] = {} /\ orphans[r] = {}
    /\ \A r \in Reaps : reap[r] \in {"ok", "error"} => items[r] = {}

ReapInv == NameInv /\ ItemsInv /\ OrphansInv /\ RequestInv

\* A namespace is its name and its number.
LEMMA LifeOf ==
    ASSUME NEW i \in Lives
    PROVE  /\ i.name \in Names /\ i.life \in Nat \ {0}
           /\ \A j \in Lives : i.name = j.name /\ i.life = j.life => i = j
<1>1. PICK n \in Names : i \in [name : {n}, life : 1 .. MaxLives[n]]
  BY Zenon DEF Lives
<1>2. i.name = n /\ i.life \in 1 .. MaxLives[n] /\ i = [name |-> i.name, life |-> i.life]
  BY <1>1
<1>3. MaxLives[n] \in Nat
  BY ReaperAssumption
<1>4. i.life \in Nat \ {0}
  BY <1>2, <1>3
<1>5. ASSUME NEW j \in Lives, i.name = j.name, i.life = j.life PROVE i = j
  <2>1. PICK m \in Names : j \in [name : {m}, life : 1 .. MaxLives[m]]
    BY Zenon DEF Lives
  <2>2. j = [name |-> j.name, life |-> j.life]
    BY <2>1
  <2> QED BY <1>2, <1>5, <2>2, Zenon
<1> QED BY <1>2, <1>4, <1>5, Zenon

\* The cluster as the reaper finds it.
LEMMA ReaperStarts == ReaperInit => ReapInv
<1> SUFFICES ASSUME ReaperInit PROVE ReapInv
  BY Zenon
<1>1. NameInv
  BY DEF ReaperInit, NameInv
<1> QED BY <1>1, Zenon DEF ReaperInit, ReapInv, ItemsInv, OrphansInv, RequestInv

\* A build creates a namespace: it is newer than all that had its name.
LEMMA CreateStep == ASSUME ReapInv, NEW n \in Names, CreateNamespace(n) PROVE ReapInv'
<1> DEFINE new == namespaces[n].used + 1
<1>1. /\ namespaces' = [namespaces EXCEPT ![n] = [used |-> new, there |-> new]]
      /\ namespaces[n].there = 0 /\ namespaces[n].used \in Nat
  BY DEF CreateNamespace, ReapInv, NameInv
<1>2. NameInv'
  BY <1>1 DEF ReapInv, NameInv
<1>3. ASSUME NEW i \in Lives, i.life <= namespaces[i.name].used
      PROVE  /\ i.life <= namespaces'[i.name].used
             /\ i \in Present' => i \in Present
  <2>1. i.name \in Names /\ i.life \in Nat
    BY LifeOf, Zenon
  <2>2. CASE i.name = n
    <3>1. namespaces'[i.name].used = new /\ namespaces'[i.name].there = new
      BY <1>1, <2>2 DEF ReapInv, NameInv
    <3>2. i.life <= new /\ i.life # new
      BY <1>1, <1>3, <2>1, <2>2
    <3> QED BY <3>1, <3>2, Zenon DEF Present
  <2>3. CASE i.name # n
    <3>1. namespaces'[i.name] = namespaces[i.name]
      BY <1>1, <2>1, <2>3, Zenon DEF ReapInv, NameInv
    <3> QED BY <1>3, <3>1, Zenon DEF Present
  <2> QED BY <2>2, <2>3, Zenon
<1>4. ItemsInv'
  <2> SUFFICES ASSUME NEW r \in Reaps, NEW i \in items[r]
               PROVE  /\ i.life <= namespaces'[i.name].used
                      /\ namespaces'[i.name].there # 0 => i.life <= namespaces'[i.name].there
    BY Zenon DEF CreateNamespace, ReapInv, ItemsInv
  <2>1. i \in Lives /\ i.life <= namespaces[i.name].used
    BY Zenon DEF ReapInv, ItemsInv
  <2>2. i.name \in Names /\ i.life \in Nat
    BY <2>1, LifeOf, Zenon
  <2>3. CASE i.name = n
    <3>1. namespaces'[i.name].there = namespaces'[i.name].used
      BY <1>1, <2>3 DEF ReapInv, NameInv
    <3> QED BY <1>3, <2>1, <3>1, Zenon
  <2>4. CASE i.name # n
    <3>1. namespaces'[i.name] = namespaces[i.name]
      BY <1>1, <2>2, <2>4, Zenon DEF ReapInv, NameInv
    <3> QED BY <3>1, Zenon DEF ReapInv, ItemsInv
  <2> QED BY <2>3, <2>4, Zenon
<1>5. OrphansInv'
  <2> SUFFICES ASSUME NEW r \in Reaps, NEW i \in orphans[r]
               PROVE  /\ i \in aged /\ i.name \in OpenMatchNames
                      /\ i.life <= namespaces'[i.name].used
                      /\ i \in Present' => i \in items[r] \/ i \in refused[r]
    BY Zenon DEF CreateNamespace, ReapInv, OrphansInv
  <2>1. i \in Lives
    BY Zenon DEF ReapInv, OrphansInv
  <2> QED BY <1>3, <2>1, Zenon DEF ReapInv, OrphansInv
<1> QED BY <1>2, <1>4, <1>5, Zenon DEF CreateNamespace, ReapInv, RequestInv

\* A request makes its list: all of it is there.
LEMMA ListStep == ASSUME ReapInv, NEW r \in Reaps, List(r) PROVE ReapInv'
<1>1. Present \subseteq Lives /\ Present' = Present
  BY Zenon DEF List, Present
<1>2. ASSUME NEW i \in Present
      PROVE  /\ i.life <= namespaces[i.name].used
             /\ namespaces[i.name].there # 0 => i.life <= namespaces[i.name].there
  <2>1. i.name \in Names /\ namespaces[i.name].there = i.life
    BY LifeOf, Zenon DEF Present
  <2>2. namespaces[i.name].there \in Nat /\ namespaces[i.name].there <= namespaces[i.name].used
    BY <2>1 DEF ReapInv, NameInv
  <2> QED BY <2>1, <2>2
<1>3. ItemsInv'
  BY <1>1, <1>2, Zenon DEF List, ReapInv, ItemsInv
<1>4. OrphansInv'
  <2>1. orphans' \in [Reaps -> SUBSET Lives] /\ refused' \in [Reaps -> SUBSET Lives]
    BY <1>1, Zenon DEF List, ReapInv, OrphansInv
  <2>2. ASSUME NEW i \in orphans'[r]
        PROVE  /\ i \in aged' /\ i.name \in OpenMatchNames /\ i.life <= namespaces'[i.name].used
               /\ i \in items'[r]
    BY <1>2, Zenon DEF List, ReapInv, OrphansInv, ItemsInv
  <2>3. ASSUME NEW q \in Reaps, q # r
        PROVE  orphans'[q] = orphans[q] /\ items'[q] = items[q] /\ refused'[q] = refused[q]
    BY <2>3, Zenon DEF List, ReapInv, OrphansInv, ItemsInv
  <2>4. aged' = aged /\ namespaces' = namespaces
    BY Zenon DEF List
  <2> QED BY <1>1, <2>1, <2>2, <2>3, <2>4, Zenon DEF ReapInv, OrphansInv
<1>5. RequestInv'
  <2>1. \A q \in Reaps : \/ q = r /\ reap'[q] = "delete"
                         \/ reap'[q] = reap[q] /\ items'[q] = items[q] /\ orphans'[q] = orphans[q]
    BY Zenon DEF List, ReapInv, RequestInv, ItemsInv, OrphansInv
  <2> QED BY <2>1, Zenon DEF List, ReapInv, RequestInv
<1> QED BY <1>3, <1>4, <1>5, Zenon DEF List, ReapInv, NameInv

\* Deleting by name makes room, and lets nothing appear.
LEMMA Deleting ==
    ASSUME ReapInv, NEW n \in Names, Deleted(n)
    PROVE  /\ NameInv' /\ Present' \subseteq Present /\ \A i \in Present' : i.name # n
           /\ \A m \in Names : /\ namespaces'[m].used = namespaces[m].used
                               /\ \/ namespaces'[m].there = namespaces[m].there
                                  \/ namespaces'[m].there = 0
<1>1. /\ namespaces' \in [Names -> [used : Nat, there : Nat]]
      /\ \A m \in Names : namespaces'[m] = IF m = n THEN [used |-> namespaces[n].used, there |-> 0]
                                          ELSE namespaces[m]
  BY DEF Deleted, ReapInv, NameInv
<1>2. \A m \in Names : /\ namespaces'[m].used = namespaces[m].used
                       /\ \/ namespaces'[m].there = namespaces[m].there /\ m # n
                          \/ namespaces'[m].there = 0
  BY <1>1
<1>3. NameInv'
  BY <1>1, <1>2 DEF ReapInv, NameInv
<1>4. ASSUME NEW i \in Present' PROVE i \in Present /\ i.name # n
  <2>1. i \in Lives /\ i.name \in Names /\ i.life # 0 /\ namespaces'[i.name].there = i.life
    BY <1>4, LifeOf, Zenon DEF Present
  <2>2. namespaces'[n].there = 0
    BY <1>1
  <2> QED BY <1>2, <2>1, <2>2, Zenon DEF Present
<1> QED BY <1>2, <1>3, <1>4, Zenon

\* The item whose turn it is leaves the list: it was no orphan, or is gone, or was refused.
LEMMA ItemStep ==
    ASSUME ReapInv, NEW r \in Reaps, NEW i \in items[r], Skip(r, i) \/ Delete(r, i)
    PROVE  ReapInv'
<1>1. i \in Lives /\ i.name \in Names /\ items' = [items EXCEPT ![r] = @ \ {i}]
  BY LifeOf, Zenon DEF ReapInv, ItemsInv, Skip, Delete
<1>2. Deleted(i.name) \/ namespaces' = namespaces
  BY Zenon DEF Skip, Delete
<1>3. /\ NameInv' /\ Present' \subseteq Present
      /\ \A m \in Names : /\ namespaces'[m].used = namespaces[m].used
                          /\ \/ namespaces'[m].there = namespaces[m].there
                             \/ namespaces'[m].there = 0
  BY <1>1, <1>2, Deleting, Zenon DEF ReapInv, NameInv, Present
<1>4. \A q \in Reaps : items'[q] \subseteq items[q] /\ (q # r => items'[q] = items[q])
  BY <1>1, Zenon DEF ReapInv, ItemsInv
<1>5. ItemsInv'
  <2>1. items' \in [Reaps -> SUBSET Lives]
    BY <1>1, Zenon DEF ReapInv, ItemsInv
  <2>2. ASSUME NEW q \in Reaps, NEW j \in items'[q]
        PROVE  /\ j.life <= namespaces'[j.name].used
               /\ namespaces'[j.name].there # 0 => j.life <= namespaces'[j.name].there
    <3>1. j \in items[q] /\ j \in Lives /\ j.name \in Names
      BY <1>4, <2>2, LifeOf, Zenon DEF ReapInv, ItemsInv
    <3> QED BY <1>3, <3>1, Zenon DEF ReapInv, ItemsInv
  <2> QED BY <2>1, <2>2, Zenon DEF ItemsInv
<1>6. /\ refused' \in [Reaps -> SUBSET Lives] /\ \A q \in Reaps : refused[q] \subseteq refused'[q]
      /\ aged' = aged /\ orphans' = orphans /\ reap' = reap
  <2>1. refused' = refused \/ refused' = [refused EXCEPT ![r] = @ \cup {i}]
    BY Zenon DEF Skip, Delete
  <2>2. aged' = aged /\ orphans' = orphans /\ reap' = reap
    BY Zenon DEF Skip, Delete
  <2>3. refused \in [Reaps -> SUBSET Lives]
    BY Zenon DEF ReapInv, OrphansInv
  <2> QED BY <1>1, <2>1, <2>2, <2>3
<1>7. i \in orphans[r] /\ i \in Present' => i \in refused'[r]
  <2>1. ASSUME Skip(r, i) PROVE i \notin orphans[r]
    BY <2>1, Zenon DEF Skip, isOrphaned, ReapInv, OrphansInv
  <2>2. ASSUME Deleted(i.name) PROVE i \notin Present'
    BY <1>1, <2>2, Deleting, Zenon
  <2>3. ASSUME namespaces' = namespaces, i \in Present',
               refused' = IF i \in Present THEN [refused EXCEPT ![r] = @ \cup {i}] ELSE refused
        PROVE  i \in refused'[r]
    BY <1>3, <2>3, Zenon DEF ReapInv, OrphansInv
  <2> QED BY <2>1, <2>2, <2>3, Zenon DEF Delete
<1>8. OrphansInv'
  <2>1. ASSUME NEW q \in Reaps, NEW j \in orphans[q]
        PROVE  /\ j \in aged /\ j.name \in OpenMatchNames
               /\ j.life <= namespaces'[j.name].used
               /\ j \in Present' => j \in items'[q] \/ j \in refused'[q]
    <3>1. j \in Lives /\ j.name \in Names
      BY <2>1, LifeOf, Zenon DEF ReapInv, OrphansInv
    <3>2. j \in items[q] => j \in items'[q] \/ (q = r /\ j = i)
      BY <1>1, <1>4, Zenon DEF ReapInv, ItemsInv
    <3> QED BY <1>3, <1>6, <1>7, <2>1, <3>1, <3>2, Zenon DEF ReapInv, OrphansInv
  <2> QED BY <1>6, <2>1, Zenon DEF OrphansInv, ReapInv
<1>9. RequestInv'
  BY <1>4, <1>6, Zenon DEF ReapInv, RequestInv
<1> QED BY <1>3, <1>5, <1>8, <1>9, Zenon DEF ReapInv

\* The other steps delete nothing and leave every list alone.
LEMMA QuietStep ==
    ASSUME ReapInv,
           \/ Close \/ \E i \in Present : Age(i)
           \/ \E r \in Reaps : Reap(r) \/ ListFails(r) \/ Answer(r)
           \/ UNCHANGED reaperVars
    PROVE  ReapInv' /\ Present' = Present
<1>1. namespaces' = namespaces /\ items' = items /\ orphans' = orphans /\ refused' = refused
  BY Zenon DEF Close, Age, Reap, ListFails, Answer, reaperVars
<1>2. aged \subseteq aged'
  BY Zenon DEF Close, Age, Reap, ListFails, Answer, reaperVars
<1>3. Present' = Present
  BY <1>1, Zenon DEF Present
<1>4. NameInv' /\ ItemsInv' /\ OrphansInv'
  BY <1>1, <1>2, <1>3, Zenon DEF ReapInv, NameInv, ItemsInv, OrphansInv
<1>5. RequestInv'
  <2>1. ASSUME NEW r \in Reaps, Reap(r) \/ ListFails(r) \/ Answer(r) PROVE RequestInv'
    BY <1>1, <2>1, Zenon DEF Reap, ListFails, Answer, ReapInv, RequestInv
  <2>2. ASSUME Close \/ (\E i \in Present : Age(i)) \/ UNCHANGED reaperVars PROVE RequestInv'
    BY <1>1, <2>2, Zenon DEF Close, Age, reaperVars, ReapInv, RequestInv
  <2> QED BY <2>1, <2>2, Zenon
<1> QED BY <1>3, <1>4, <1>5, Zenon DEF ReapInv

\* What a step deletes is an orphan, or has taken the name of one that a list still has.
LEMMA SparingStep ==
    ASSUME ReapInv, [ReaperNext]_reaperVars, NEW i \in Present, ~(i \in Present')
    PROVE  /\ i.name \in OpenMatchNames
           /\ i \in aged \/ \E r \in Reaps : \E j \in items[r] :
                               j \in aged /\ j.name = i.name /\ j.life < i.life
<1>1. i \in Lives /\ i.name \in Names /\ i.life \in Nat \ {0} /\ namespaces[i.name].there = i.life
  BY LifeOf, Zenon DEF Present
<1>2. ASSUME NEW n \in Names, CreateNamespace(n) PROVE FALSE
  <2>1. i.name # n
    BY <1>1, <1>2, Zenon DEF CreateNamespace
  <2>2. namespaces'[i.name] = namespaces[i.name]
    BY <1>1, <1>2, <2>1, Zenon DEF CreateNamespace, ReapInv, NameInv
  <2> QED BY <1>1, <2>2, Zenon DEF Present
<1>3. ASSUME NEW r \in Reaps, List(r) PROVE FALSE
  BY <1>3, Zenon DEF List, Present
<1>4. PICK r \in Reaps : \E j \in items[r] : Skip(r, j) \/ Delete(r, j)
  BY <1>2, <1>3, QuietStep, Zenon DEF ReaperNext
<1>5. PICK j \in items[r] : Skip(r, j) \/ Delete(r, j)
  BY <1>4, Zenon
<1>6. namespaces' # namespaces
  BY Zenon DEF Present
<1>7. Deleted(j.name) /\ isOrphaned(j)
  BY <1>5, <1>6, Zenon DEF Skip, Delete
<1>8. j \in Lives /\ j.name \in Names /\ j.life \in Nat
  BY LifeOf, Zenon DEF ReapInv, ItemsInv
<1>9. i.name = j.name
  <2>1. i.name # j.name => namespaces'[i.name] = namespaces[i.name]
    BY <1>1, <1>7, Zenon DEF Deleted, ReapInv, NameInv
  <2> QED BY <1>1, <2>1, Zenon DEF Present
<1>10. j.life <= i.life
  BY <1>1, <1>9, Zenon DEF ReapInv, ItemsInv
<1>11. j.life < i.life \/ j.life = i.life
  BY <1>1, <1>8, <1>10
<1>12. j.life = i.life => j = i
  BY <1>1, <1>8, <1>9, LifeOf, Zenon
<1> QED BY <1>7, <1>9, <1>11, <1>12, Zenon DEF isOrphaned

\* ReapNamespaces deletes every orphan of its list that the cluster lets it delete, and
\* nothing that is not one or has the name of one, whatever other requests and builds do
\* to the names meanwhile.
THEOREM ReapsWhatItMay == ReaperSpec => ReapsOrphans
<1>1. ReapInv /\ [ReaperNext]_reaperVars => ReapInv'
  BY CreateStep, ListStep, ItemStep, QuietStep, Zenon DEF ReaperNext
<1>2. ReaperSpec => []ReapInv
  BY <1>1, ReaperStarts, PTL DEF ReaperSpec
<1>3. ReapInv => OrphansAreGone
  BY Zenon DEF ReapInv, OrphansInv, RequestInv, OrphansAreGone
<1> DEFINE Sparing == \A i \in Present : ~(i \in Present') =>
                        /\ i.name \in OpenMatchNames
                        /\ i \in aged \/ \E r \in Reaps : \E j \in items[r] :
                                            j \in aged /\ j.name = i.name /\ j.life < i.life
<1>4. ReapInv /\ [ReaperNext]_reaperVars => [Sparing]_reaperVars
  BY SparingStep, Zenon
<1>5. ReaperSpec => [][Sparing]_reaperVars
  <2> HIDE DEF Sparing
  <2> QED BY <1>2, <1>4, PTL DEF ReaperSpec
<1> QED BY <1>2, <1>3, <1>5, PTL DEF ReapsOrphans, SparesOthers
=============================================================================
