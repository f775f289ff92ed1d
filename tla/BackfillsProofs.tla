--------------------------- MODULE BackfillsProofs ---------------------------
(***************************************************************************)
(* Proofs about Backfills: its types; as long as no lock expires under a   *)
(* working holder, that no update of a backfill is lost and that a match   *)
(* joins the generation its match function saw; and, while nothing fails   *)
(* and calls take less time than a backfill takes to expire, that what     *)
(* queries serve follows what is stored.                                   *)
(***************************************************************************)
EXTENDS Backfills, TLAPS

Creators == {"create", "new"}

\* Where a call may be, by what it does, and what it has read by then.
CallOK(r) ==
    /\ r.op \in Creators => r.at \in {"mmf", "setnx", "zadd", "hset"}
    /\ r.at = "setnx" => r.op \in Creators
    /\ r.at = "mmf" => r.op \in {"fetch", "new"}
    /\ r.at \in {"check", "recheck", "zadd", "assign", "set", "hset"}
         /\ r.op \notin Creators => r.read # None
    /\ r.at = "release" /\ r.op \notin {"delete", "cleanup"} => r.read # None

CallsOK == \A c \in Calls : CallOK(call[c])

IInv == TypeOK /\ CallsOK

\* The places of a call that has read the record and not yet written it.
Reading == {"check", "recheck", "zadd", "assign", "set"}

\* Between Lock and Unlock a call owns the lock.
LockInv == \A c \in Calls : Holds(c) => lock = c

\* What a call read is still stored when it writes.
ReadInv ==
    \A c \in Calls : call[c].at \in Reading /\ Op(c) \notin Creators =>
      /\ stored # None /\ call[c].read = stored
      /\ Op(c) = "fetch" => stored.gen = call[c].seen

\* The record is created once, by the only call that creates it.
CreateInv ==
    /\ known = "no" => stored = None /\ \A c \in Calls : Op(c) \notin Creators
    /\ \A c, d \in Calls : Op(c) \in Creators /\ Op(d) \in Creators => c = d
    /\ \A c \in Calls : Op(c) \in Creators /\ call[c].at \in {"mmf", "setnx"} =>
         stored = None

SafeInv == LockInv /\ ReadInv /\ CreateInv

NoExpiry == "expiry" \notin Faults

\* The steps of a call: it moves on, or it returns.
Ends(c) == call' = [call EXCEPT ![c] = Idle]
-----------------------------------------------------------------------------
\* The expiry time of backfills is a number of ticks.
LEMMA TTLType == TTL \in Nat
BY BackfillConstants DEF TTL

\* An idle call is a call.
LEMMA IdleType == Idle \in CallRecords /\ CallOK(Idle)
BY BackfillConstants DEF Idle, NewCall, CallRecords, Ops, Places, CallOK, Creators

\* A call that moves on keeps everything but its place, and leaves the others.
LEMMA GoFacts ==
  ASSUME CallTypes, NEW c \in Calls, NEW w \in Places, Go(c, w)
  PROVE  /\ CallTypes'
         /\ \A d \in Calls : d # c => call'[d] = call[d]
         /\ call'[c].at = w /\ call'[c].op = call[c].op /\ call'[c].read = call[c].read
         /\ call'[c].seen = call[c].seen /\ call'[c].match = call[c].match
<1>1. call \in [Calls -> CallRecords]
  BY Zenon DEF CallTypes
<1> QED BY <1>1, Zenon DEF CallTypes, CallRecords, Go

\* A call that returns leaves the others.
LEMMA EndFacts ==
  ASSUME CallTypes, NEW c \in Calls, Ends(c)
  PROVE  /\ CallTypes'
         /\ \A d \in Calls : d # c => call'[d] = call[d]
         /\ call'[c] = Idle
BY IdleType, Zenon DEF Ends, CallTypes, CallRecords

\* A new call is a call.
LEMMA NewCallType ==
  ASSUME NEW o \in Ops, NEW w \in Places, NEW g \in Gens \cup {None}
  PROVE  /\ NewCall(o, w, g) \in CallRecords
         /\ NewCall(o, w, g).at = w /\ NewCall(o, w, g).op = o
         /\ NewCall(o, w, g).seen = g
BY BackfillConstants DEF CallRecords, NewCall

\* A call whose record is replaced leaves the others.
LEMMA PutFacts ==
  ASSUME CallTypes, NEW c \in Calls, NEW r \in CallRecords,
         call' = [call EXCEPT ![c] = r]
  PROVE  /\ CallTypes'
         /\ \A d \in Calls : d # c => call'[d] = call[d]
         /\ call'[c] = r
BY Zenon DEF CallTypes

\* Every step of a call keeps the types and the shape of its record.
LEMMA StepTypes ==
  ASSUME IInv, NEW c \in Calls, Step(c) \/ Crash(c)
  PROVE  IInv'
<1> USE DEF At, Op
<1>t. TypeOK /\ CallsOK /\ StoreTypes /\ CallTypes /\ OtherTypes
  BY Zenon DEF IInv, TypeOK
<1>o. CallOK(call[c]) /\ call[c] \in CallRecords
  BY <1>t, Zenon DEF CallsOK, CallTypes
<1>k. /\ PendingTimeout \in Nat /\ MaxFaults \in Nat /\ TTL \in Nat
      /\ None \notin Nat /\ None \notin Calls
      /\ None \notin [gen : Nat, tickets : SUBSET Tickets]
  BY BackfillConstants, TTLType, Zenon
<1>Lock. CASE Lock(c)
  <2>1. \/ \E w \in Places : Go(c, w) /\ (w = (IF Op(c) \in {"delete", "cleanup"} THEN "hdel" ELSE "get"))
        \/ Ends(c)
    BY <1>Lock, Zenon DEF Lock, Acquire, Command, Return, Abort, Ends, Places, Deletes,
      Creators
  <2>3. CallOK(call'[c])
    <3>1. CASE Ends(c)
      BY <1>t, <3>1, EndFacts, IdleType, Zenon
    <3>2. ASSUME NEW w \in Places, Go(c, w), w = (IF Op(c) \in {"delete", "cleanup"} THEN "hdel" ELSE "get")
          PROVE  CallOK(call'[c])
      BY <1>t, <1>o, <1>Lock, <3>2, GoFacts, Zenon DEF Lock, CallOK, Creators, Deletes
    <3> QED BY <2>1, <3>1, <3>2, Zenon
  <2>5. OtherTypes'
    BY <1>t, <1>o, <1>Lock, <1>k DEF OtherTypes, Lock, Acquire, Command, Return,
      Abort, ghostVars, CallRecords, Fault, queryVars
  <2> QED
    BY <1>t, <2>3, <2>5, <2>1, GoFacts, EndFacts, <1>k, <1>Lock, Zenon DEF IInv, TypeOK,
      CallsOK, Lock, Acquire, queryVars, Command, StoreTypes
<1>Unlock. CASE Unlock(c)
  <2>1. \/ \E w \in Places : Go(c, w) /\ (w = "drop" /\ At(c, "reject"))
        \/ Ends(c)
    BY <1>Unlock, Zenon DEF Unlock, Command, Return, Abort, Ends, Places, Deletes,
      Creators
  <2>3. CallOK(call'[c])
    <3>1. CASE Ends(c)
      BY <1>t, <3>1, EndFacts, IdleType, Zenon
    <3>2. ASSUME NEW w \in Places, Go(c, w), w = "drop" /\ At(c, "reject")
          PROVE  CallOK(call'[c])
      BY <1>t, <1>o, <1>Unlock, <3>2, GoFacts, Zenon DEF Unlock, CallOK, Creators,
        Deletes
    <3> QED BY <2>1, <3>1, <3>2, Zenon
  <2>5. OtherTypes'
    BY <1>t, <1>o, <1>Unlock, <1>k DEF OtherTypes, Unlock, Command, Return, Abort,
      ghostVars, CallRecords, Fault, queryVars
  <2> QED
    BY <1>t, <2>3, <2>5, <2>1, GoFacts, EndFacts, <1>k, <1>Unlock, Zenon DEF IInv,
      TypeOK, CallsOK, Unlock, queryVars, Command, StoreTypes
<1>SetNX. CASE SetNX(c)
  <2>1. \/ \E w \in Places : Go(c, w) /\ (w = "zadd")
        \/ Ends(c)
    BY <1>SetNX, Zenon DEF SetNX, Command, Return, Abort, Ends, Places, Deletes,
      Creators
  <2>3. CallOK(call'[c])
    <3>1. CASE Ends(c)
      BY <1>t, <3>1, EndFacts, IdleType, Zenon
    <3>2. ASSUME NEW w \in Places, Go(c, w), w = "zadd"
          PROVE  CallOK(call'[c])
      BY <1>t, <1>o, <1>SetNX, <3>2, GoFacts, Zenon DEF SetNX, CallOK, Creators, Deletes
    <3> QED BY <2>1, <3>1, <3>2, Zenon
  <2>4. StoreTypes'
    BY <1>t, <1>SetNX, <1>o DEF SetNX, Command, StoreTypes, FirstGeneration,
      Records, Gens, CallRecords
  <2>5. OtherTypes'
    BY <1>t, <1>o, <1>SetNX, <1>k DEF OtherTypes, SetNX, Command, Return, Abort,
      ghostVars, CallRecords, Fault, queryVars
  <2> QED
    BY <1>t, <2>3, <2>4, <2>5, <2>1, GoFacts, EndFacts, Zenon DEF IInv, TypeOK, CallsOK
<1>Check. CASE Check(c)
  <2>1. \/ \E w \in Places : Go(c, w) /\ (w \in {"set", "fail"} \/ (w = "zadd" /\ Op(c) = "ack"))
    BY <1>Check, Zenon DEF Check, Command, Return, Abort, Ends, Places, Deletes,
      Creators
  <2>3. CallOK(call'[c])
    <3>1. PICK w \in Places : Go(c, w) /\ (w \in {"set", "fail"} \/ (w = "zadd" /\ Op(c) = "ack"))
      BY <2>1, Zenon
    <3> QED
      BY <1>t, <1>o, <1>Check, <3>1, GoFacts, Zenon DEF Check, CallOK, Creators, Deletes
  <2>5. OtherTypes'
    BY <1>t, <1>o, <1>Check, <1>k DEF OtherTypes, Check, Command, Return, Abort,
      ghostVars, CallRecords, Fault, queryVars
  <2> QED
    BY <1>t, <2>3, <2>5, <2>1, GoFacts, EndFacts, <1>k, <1>Check, Zenon DEF IInv,
      TypeOK, CallsOK, Check, redisVars, Command, StoreTypes
<1>ZAdd. CASE ZAdd(c)
  <2>1. \/ \E w \in Places : Go(c, w) /\ ((w \in {"unlock", "assign", "fail"} /\ Op(c) = "ack") \/ w = "hset")
        \/ Ends(c)
    BY <1>ZAdd, Zenon DEF ZAdd, Command, Return, Abort, Ends, Places, Deletes, Creators
  <2>3. CallOK(call'[c])
    <3>1. CASE Ends(c)
      BY <1>t, <3>1, EndFacts, IdleType, Zenon
    <3>2. ASSUME NEW w \in Places, Go(c, w), (w \in {"unlock", "assign", "fail"} /\ Op(c) = "ack") \/ w = "hset"
          PROVE  CallOK(call'[c])
      BY <1>t, <1>o, <1>ZAdd, <3>2, GoFacts, Zenon DEF ZAdd, CallOK, Creators, Deletes
    <3> QED BY <2>1, <3>1, <3>2, Zenon
  <2>5. OtherTypes'
    BY <1>t, <1>o, <1>ZAdd, <1>k DEF OtherTypes, ZAdd, Command, Return, Abort,
      ghostVars, CallRecords, Fault, queryVars
  <2> QED
    BY <1>t, <2>3, <2>5, <2>1, GoFacts, EndFacts, <1>k, <1>ZAdd DEF IInv, TypeOK,
      CallsOK, ZAdd, Command, StoreTypes
<1>Assign. CASE Assign(c)
  <2>1. \/ \E w \in Places : Go(c, w) /\ (w \in {"recheck", "fail"})
    BY <1>Assign, Zenon DEF Assign, Command, Return, Abort, Ends, Places, Deletes,
      Creators
  <2>3. CallOK(call'[c])
    <3>1. PICK w \in Places : Go(c, w) /\ (w \in {"recheck", "fail"})
      BY <2>1, Zenon
    <3> QED
      BY <1>t, <1>o, <1>Assign, <3>1, GoFacts, Zenon DEF Assign, CallOK, Creators,
        Deletes
  <2>4. StoreTypes'
    BY <1>t, <1>Assign, <1>o, Zenon DEF Assign, Command, StoreTypes, Records, CallOK,
      CallRecords, Creators
  <2>5. OtherTypes'
    BY <1>t, <1>o, <1>Assign, <1>k DEF OtherTypes, Assign, Command, Return, Abort,
      ghostVars, CallRecords, Fault, queryVars
  <2> QED
    BY <1>t, <2>3, <2>4, <2>5, <2>1, GoFacts, EndFacts, Zenon DEF IInv, TypeOK, CallsOK
<1>Set. CASE Set(c)
  <2>1. \/ \E w \in Places : Go(c, w) /\ (w \in {"unlock", "release", "hset", "fail"})
    BY <1>Set, Zenon DEF Set, Command, Return, Abort, Ends, Places, Deletes, Creators
  <2>3. CallOK(call'[c])
    <3>1. PICK w \in Places : Go(c, w) /\ (w \in {"unlock", "release", "hset", "fail"})
      BY <2>1, Zenon
    <3> QED
      BY <1>t, <1>o, <1>Set, <3>1, GoFacts, Zenon DEF Set, CallOK, Creators, Deletes
  <2>4. StoreTypes'
    BY <1>t, <1>Set, <1>o DEF StoreTypes, Set, Command, Written, Records, Gens,
      CallRecords, CallOK, Creators
  <2>5. OtherTypes'
    BY <1>t, <1>o, <1>Set, <1>k DEF OtherTypes, Set, Command, Return, Abort,
      ghostVars, CallRecords, Fault, queryVars
  <2> QED
    BY <1>t, <2>3, <2>4, <2>5, <2>1, GoFacts, EndFacts, Zenon DEF IInv, TypeOK, CallsOK
<1>Release. CASE Release(c)
  <2>1. \/ \E w \in Places : Go(c, w) /\ (w \in {"del", "fail"} \/ (w = "hset" /\ ~Deletes(c)))
    BY <1>Release, Zenon DEF Release, Command, Return, Abort, Ends, Places, Deletes,
      Creators
  <2>3. CallOK(call'[c])
    <3>1. PICK w \in Places : Go(c, w) /\ (w \in {"del", "fail"} \/ (w = "hset" /\ ~Deletes(c)))
      BY <2>1, Zenon
    <3> QED
      BY <1>t, <1>o, <1>Release, <3>1, GoFacts, Zenon DEF Release, CallOK, Creators,
        Deletes
  <2>5. OtherTypes'
    BY <1>t, <1>o, <1>Release, <1>k DEF OtherTypes, Release, Command, Return, Abort,
      ghostVars, CallRecords, Fault, queryVars
  <2> QED
    BY <1>t, <2>3, <2>5, <2>1, GoFacts, EndFacts, <1>Release, <1>k DEF IInv, TypeOK,
      CallsOK, Release, StoreTypes, Command, Unpend
<1>HSet. CASE HSet(c)
  <2>1. \/ \E w \in Places : Go(c, w) /\ (w \in {"unlock", "fail"} /\ Op(c) \notin Creators)
        \/ Ends(c)
    BY <1>HSet, Zenon DEF HSet, Command, Return, Abort, Ends, Places, Deletes, Creators
  <2>3. CallOK(call'[c])
    <3>1. CASE Ends(c)
      BY <1>t, <3>1, EndFacts, IdleType, Zenon
    <3>2. ASSUME NEW w \in Places, Go(c, w), w \in {"unlock", "fail"} /\ Op(c) \notin Creators
          PROVE  CallOK(call'[c])
      BY <1>t, <1>o, <1>HSet, <3>2, GoFacts, Zenon DEF HSet, CallOK, Creators, Deletes
    <3> QED BY <2>1, <3>1, <3>2, Zenon
  <2>4. StoreTypes'
    <3>1. CASE Op(c) \in Creators
      BY <1>t, <1>HSet, <3>1 DEF HSet, Command, StoreTypes, FirstGeneration, Gens,
        Creators
    <3>2. CASE Op(c) \notin Creators
      BY <1>t, <1>HSet, <3>2, <1>o DEF HSet, StoreTypes, Command, Creators, Written,
        Records, Gens, CallOK, CallRecords
    <3> QED BY <3>1, <3>2, Zenon
  <2>5. OtherTypes'
    BY <1>t, <1>o, <1>HSet, <1>k DEF OtherTypes, HSet, Command, Return, Abort,
      ghostVars, CallRecords, Fault, queryVars
  <2> QED
    BY <1>t, <2>3, <2>4, <2>5, <2>1, GoFacts, EndFacts, Zenon DEF IInv, TypeOK, CallsOK
<1>HDel. CASE HDel(c)
  <2>1. \/ \E w \in Places : Go(c, w) /\ (w \in {"get", "fail"})
    BY <1>HDel, Zenon DEF HDel, Command, Return, Abort, Ends, Places, Deletes, Creators
  <2>3. CallOK(call'[c])
    <3>1. PICK w \in Places : Go(c, w) /\ (w \in {"get", "fail"})
      BY <2>1, Zenon
    <3> QED
      BY <1>t, <1>o, <1>HDel, <3>1, GoFacts, Zenon DEF HDel, CallOK, Creators, Deletes
  <2>5. OtherTypes'
    BY <1>t, <1>o, <1>HDel, <1>k DEF OtherTypes, HDel, Command, Return, Abort,
      ghostVars, CallRecords, Fault, queryVars
  <2> QED
    BY <1>t, <2>3, <2>5, <2>1, GoFacts, EndFacts, <1>k, <1>HDel, Zenon DEF IInv, TypeOK,
      CallsOK, HDel, Command, StoreTypes
<1>Del. CASE Del(c)
  <2>1. \/ \E w \in Places : Go(c, w) /\ (w \in {"unlock", "zrem"})
    BY <1>Del, Zenon DEF Del, Command, Return, Abort, Ends, Places, Deletes, Creators
  <2>3. CallOK(call'[c])
    <3>1. PICK w \in Places : Go(c, w) /\ (w \in {"unlock", "zrem"})
      BY <2>1, Zenon
    <3> QED
      BY <1>t, <1>o, <1>Del, <3>1, GoFacts, Zenon DEF Del, CallOK, Creators, Deletes
  <2>5. OtherTypes'
    BY <1>t, <1>o, <1>Del, <1>k DEF OtherTypes, Del, Command, Return, Abort,
      ghostVars, CallRecords, Fault, queryVars
  <2> QED
    BY <1>t, <2>3, <2>5, <2>1, GoFacts, EndFacts, <1>k, <1>Del, Zenon DEF IInv, TypeOK,
      CallsOK, Del, Command, StoreTypes
<1>ZRem. CASE ZRem(c)
  <2>1. \/ \E w \in Places : Go(c, w) /\ (w = "unlock")
    BY <1>ZRem, Zenon DEF ZRem, Command, Return, Abort, Ends, Places, Deletes, Creators
  <2>3. CallOK(call'[c])
    <3>1. PICK w \in Places : Go(c, w) /\ (w = "unlock")
      BY <2>1, Zenon
    <3> QED
      BY <1>t, <1>o, <1>ZRem, <3>1, GoFacts, Zenon DEF ZRem, CallOK, Creators, Deletes
  <2>5. OtherTypes'
    BY <1>t, <1>o, <1>ZRem, <1>k DEF OtherTypes, ZRem, Command, Return, Abort,
      ghostVars, CallRecords, Fault, queryVars
  <2> QED
    BY <1>t, <2>3, <2>5, <2>1, GoFacts, EndFacts, <1>k, <1>ZRem, Zenon DEF IInv, TypeOK,
      CallsOK, ZRem, Command, StoreTypes
<1>Drop. CASE Drop(c)
  <2>1. \/ Ends(c)
    BY <1>Drop, Zenon DEF Drop, Command, Return, Abort, Ends, Places, Deletes, Creators
  <2>5. OtherTypes'
    BY <1>t, <1>o, <1>Drop, <1>k DEF OtherTypes, Drop, Command, Return, Abort,
      ghostVars, CallRecords, Fault, queryVars
  <2> QED
    BY <1>t, <2>5, <2>1, GoFacts, EndFacts, IdleType, <1>Drop, <1>k DEF IInv,
      TypeOK, CallsOK, Drop, StoreTypes, Unpend
<1>Crash. CASE Crash(c)
  <2>1. \/ Ends(c)
    BY <1>Crash, Zenon DEF Crash, Command, Return, Abort, Ends, Places, Deletes,
      Creators
  <2>5. OtherTypes'
    BY <1>t, <1>o, <1>Crash, <1>k DEF OtherTypes, Crash, Command, Return, Abort,
      ghostVars, CallRecords, Fault, queryVars
  <2> QED
    BY <1>t, <2>5, <2>1, GoFacts, EndFacts, IdleType, <1>k, <1>Crash DEF IInv,
      TypeOK, CallsOK, Crash, redisVars, Command, StoreTypes
<1>Get. CASE Get(c)
  <2> DEFINE next == CASE Deletes(c) -> "release"
                       [] ~Deletes(c) /\ Rejected(c) ->
                            IF Op(c) = "fetch" THEN "reject" ELSE "fail"
                       [] OTHER -> "check"
  <2>2. next \in Places /\ stored \in Records \cup {None}
    BY <1>t, Zenon DEF Places, StoreTypes
  <2>3. next = "release" => Deletes(c)
    BY Zenon
  <2>4. next = "check" => stored # None
    BY Zenon DEF Rejected
  <2>5. next \in {"release", "reject", "fail", "check"}
    BY Zenon
  <2>n. Op(c) \notin Creators
    BY <1>o, <1>Get, Zenon DEF Get, CallOK
  <2> HIDE DEF next
  <2>6. ASSUME call' = [call EXCEPT ![c].read = stored, ![c].at = next]
        PROVE  CallTypes' /\ CallsOK'
    <3> DEFINE r == [call[c] EXCEPT !.read = stored, !.at = next]
    <3>1. r \in CallRecords /\ r.at = next /\ r.read = stored /\ r.op = call[c].op
      BY <1>o, <2>2, Zenon DEF CallRecords
    <3>2. call' = [call EXCEPT ![c] = r]
      BY <1>t, <2>6, Zenon DEF CallTypes
    <3> HIDE DEF r
    <3> QED
      BY <1>t, <3>2, <3>1, <2>3, <2>4, <2>5, <2>n, Zenon DEF CallTypes, CallsOK, CallOK,
        Deletes, Creators
  <2>7. ASSUME Go(c, IF Deletes(c) THEN "release" ELSE "fail")
        PROVE  CallTypes' /\ CallsOK'
    <3>1. PICK w \in Places : Go(c, w) /\ w = (IF Deletes(c) THEN "release" ELSE "fail")
      BY <2>7, Zenon DEF Places
    <3> QED BY <1>t, <3>1, GoFacts, <2>n DEF CallsOK, CallOK, Deletes, Creators
  <2> QED
    BY <2>6, <2>7, <1>Get, <1>t, <1>k DEF IInv, TypeOK, Get, redisVars, queryVars,
      ghostVars, StoreTypes, OtherTypes, Fault
<1> QED
  BY <1>Lock, <1>Unlock, <1>SetNX, <1>Check, <1>ZAdd, <1>Assign, <1>Set, <1>Release,
    <1>HSet, <1>HDel, <1>Del, <1>ZRem, <1>Drop, <1>Crash, <1>Get DEF Step

\* Calls begin within the types.
LEMMA StartTypes ==
  ASSUME IInv, NEW c \in Calls, Start(c) \/ StartCleanup(c)
  PROVE  IInv'
<1>t. TypeOK /\ CallsOK /\ StoreTypes /\ CallTypes /\ OtherTypes
  BY Zenon DEF IInv, TypeOK
<1>k. MaxCalls \in Nat
  BY BackfillConstants, Zenon
<1>b. ASSUME NEW o \in Ops \ Creators, NEW g \in Gens \cup {None},
             call' = [call EXCEPT ![c] = NewCall(o, "lock", g)]
      PROVE  CallTypes' /\ CallsOK'
  <2>1. NewCall(o, "lock", g) \in CallRecords /\ NewCall(o, "lock", g).at = "lock"
        /\ NewCall(o, "lock", g).op = o
    BY NewCallType DEF Places
  <2>2. CallOK(NewCall(o, "lock", g))
    BY <2>1, Zenon DEF CallOK
  <2> QED BY <1>t, <1>b, <2>1, <2>2, PutFacts, Zenon DEF CallsOK
<1>f. UNCHANGED <<redisVars, queryVars, aborted, faults>> /\ calls' \in 0 .. MaxCalls
      /\ known' \in {"no", "creating", "yes"} => StoreTypes' /\ OtherTypes'
  BY <1>t, Zenon DEF StoreTypes, OtherTypes, redisVars, queryVars
<1>1. CASE StartCreate(c)
  <2>2. /\ NewCall("create", "setnx", None) \in CallRecords
        /\ NewCall("create", "setnx", None).at = "setnx"
        /\ NewCall("create", "setnx", None).op = "create"
    BY NewCallType DEF Places, Ops
  <2>3. CallOK(NewCall("create", "setnx", None))
    BY <2>2, Zenon DEF CallOK, Creators
  <2>5. CallTypes' /\ CallsOK'
    BY <1>t, <2>2, <2>3, PutFacts, <1>1, Zenon DEF CallsOK, StartCreate, Begin
  <2> QED
    BY <1>f, <2>5, <1>t, <1>k, <1>1 DEF IInv, TypeOK, StartCreate, Begin, OtherTypes
<1>2. CASE StartClient(c)
  <2>1. PICK op \in {"update", "ack", "delete"} : Begin(c, op, "lock")
    BY <1>2, Zenon DEF StartClient
  <2>4. UNCHANGED <<redisVars, queryVars, aborted, faults>> /\ calls' \in 0 .. MaxCalls
        /\ known' \in {"no", "creating", "yes"}
    BY <1>t, <1>k, <1>2, <2>1 DEF StartClient, Begin, OtherTypes
  <2> QED BY <1>f, <2>4, <1>b, <2>1, Zenon DEF IInv, TypeOK, Ops, Creators, Begin
<1>3. CASE Propose(c)
  <2>1. PICK op \in {"fetch", "new"} :
          call' = [call EXCEPT ![c] = NewCall(op, "mmf", view)]
    BY <1>3, Zenon DEF Propose
  <2>2. /\ NewCall(op, "mmf", view) \in CallRecords
        /\ NewCall(op, "mmf", view).at = "mmf" /\ NewCall(op, "mmf", view).op = op
    BY <1>t, NewCallType DEF Places, Ops, OtherTypes
  <2>3. CallOK(NewCall(op, "mmf", view))
    BY <2>2, Zenon DEF CallOK, Creators
  <2>4. UNCHANGED <<redisVars, queryVars, aborted, faults>> /\ calls' \in 0 .. MaxCalls
        /\ known' \in {"no", "creating", "yes"}
    BY <1>t, <1>k, <1>3 DEF Propose, OtherTypes
  <2> QED
    BY <1>f, <2>4, <1>t, <2>1, <2>2, <2>3, PutFacts, Zenon DEF IInv, TypeOK, CallsOK
<1>4. CASE Pend(c)
  <2> DEFINE w == IF Op(c) = "new" THEN "setnx" ELSE "lock"
  <2>6. (Op(c) = "new" => w = "setnx") /\ (Op(c) # "new" => w = "lock")
    BY Zenon
  <2>1. PICK ts \in SUBSET Pool \ {{}} :
          /\ pend' = [t \in Tickets |-> IF t \in ts THEN 0 ELSE pend[t]]
          /\ call' = [call EXCEPT ![c].match = ts,
                                  ![c].at = IF Op(c) = "new" THEN "setnx" ELSE "lock"]
          /\ aborted' = aborted \ ts
    BY <1>4, Zenon DEF Pend
  <2> DEFINE r == [call[c] EXCEPT !.match = ts, !.at = w]
  <2>4. call' = [call EXCEPT ![c] = r]
    BY <1>t, <2>1, Zenon DEF CallTypes
  <2>5. r \in CallRecords /\ r.at = w /\ r.op = Op(c)
    BY <1>t, <2>1 DEF CallRecords, Op, CallTypes, Pool, Places
  <2> HIDE DEF r, w
  <2>11. StoreTypes' /\ OtherTypes'
    BY <1>t, <2>1, BackfillConstants, <1>4 DEF StoreTypes, OtherTypes, queryVars,
      Pend
  <2> QED
    BY <2>11, <1>t, <2>4, <2>5, <2>6, <1>4, Zenon DEF IInv, TypeOK, CallTypes, CallsOK,
      CallOK, Creators, Pend, At, Op
<1>5. CASE StartCleanup(c)
  BY <1>b, <1>5, <1>t, Zenon DEF IInv, TypeOK, Ops, Creators, StartCleanup, StoreTypes,
    OtherTypes, redisVars, queryVars, ghostVars
<1> QED BY <1>1, <1>2, <1>3, <1>4, <1>5, Zenon DEF Start

\* Lock expiry, cache updates and time keep the types.
LEMMA OtherSteps ==
  ASSUME IInv, LockExpires \/ QueryAcked \/ QueryIndex \/ QueryFetch \/ Tick \/ UNCHANGED vars
  PROVE  IInv'
<1>t. TypeOK /\ CallsOK /\ StoreTypes /\ CallTypes /\ OtherTypes
  BY Zenon DEF IInv, TypeOK
<1>k. /\ PendingTimeout \in Nat /\ MaxFaults \in Nat /\ MaxLag \in Nat /\ TTL \in Nat
      /\ None \notin Nat
  BY BackfillConstants, TTLType, Zenon
<1>c. UNCHANGED call => CallTypes' /\ CallsOK'
  BY <1>t, Zenon DEF CallTypes, CallsOK
<1>1. CASE LockExpires
  BY <1>t, <1>c, <1>k, <1>1 DEF StoreTypes, OtherTypes, queryVars, ghostVars, IInv,
    TypeOK, LockExpires, Fault
<1>q. ASSUME QueryAcked \/ QueryIndex \/ QueryFetch PROVE IInv'
  <2>1. UNCHANGED <<redisVars, call, known, calls, aborted>>
    BY <1>q, Zenon DEF QueryAcked, QueryIndex, QueryFetch, queryFrame, ghostVars
  <2>4. query' \in [at : {"idle", "live", "lapsed", "fetch"}, since : Gens \cup {None}]
    <3>1. CASE QueryAcked
      BY <1>t, <3>1, Zenon DEF QueryAcked, StoreTypes
    <3>2. CASE QueryIndex
      BY <1>t, <3>2 DEF OtherTypes, NoQuery, QueryIndex
    <3>3. CASE QueryFetch
      BY <1>t, <3>3, Zenon DEF QueryFetch, OtherTypes, NoQuery
    <3> QED BY <1>q, <3>1, <3>2, <3>3, Zenon
  <2> QED
    BY <1>c, <2>1, <1>t, <2>4, <1>k, <1>q DEF IInv, TypeOK, StoreTypes, OtherTypes,
      redisVars, QueryAcked, QueryIndex, QueryFetch, Fault, Records
<1>2. CASE Tick
  <2>3. ASSUME NEW c \in Calls
        PROVE  /\ call'[c] \in CallRecords /\ CallOK(call'[c])
    <3>1. call[c] \in CallRecords /\ CallOK(call[c])
      BY <1>t, Zenon DEF CallTypes, CallsOK
    <3>2. call'[c] = IF call[c].at \in {"idle", "mmf"} THEN call[c]
                     ELSE [call[c] EXCEPT !.lag = call[c].lag + 1]
      BY <1>2, Zenon DEF Tick
    <3>3. CASE call[c].at \notin {"idle", "mmf"}
      BY <3>1, <1>k, <1>2, <3>3, <3>2 DEF CallOK, CallRecords, Tick
    <3> QED BY <3>1, <3>2, <3>3, Zenon
  <2> QED
    BY <1>t, <1>k, <1>2, <2>3 DEF IInv, TypeOK, StoreTypes, OtherTypes, queryVars,
      ghostVars, Tick, Capped, CallTypes, CallsOK
<1>3. CASE UNCHANGED vars
  BY <1>t, <1>c, <1>3, Zenon DEF vars, redisVars, queryVars, ghostVars, StoreTypes,
    OtherTypes, IInv, TypeOK
<1> QED BY <1>1, <1>q, <1>2, <1>3, Zenon

\* The initial state.
LEMMA InitTypes == Init => IInv
<1> SUFFICES ASSUME Init PROVE IInv
  BY Zenon
<1> QED
  BY BackfillConstants, TTLType, IdleType DEF IInv, TypeOK, Init, StoreTypes,
    CallTypes, CallsOK, OtherTypes, NoQuery

\* Every variable of the backfill's life keeps its type, whatever fails.
THEOREM BackfillTypes == Spec => []TypeOK
<1>1. Init => IInv
  BY InitTypes, Zenon
<1>2. IInv /\ [Next]_vars => IInv'
  BY StepTypes, StartTypes, OtherSteps, Zenon DEF Next
<1>3. IInv => TypeOK
  BY Zenon DEF IInv
<1> QED BY <1>1, <1>2, <1>3, PTL DEF Spec
-----------------------------------------------------------------------------
\* A step of a call that touches neither the record nor the lock, and that
\* neither takes the lock nor reads the record, keeps the invariant.
LEMMA PlainStep ==
  ASSUME SafeInv, NEW c \in Calls, UNCHANGED <<stored, lock>>,
         known' # "no" \/ UNCHANGED known,
         \A d \in Calls : d # c => call'[d] = call[d],
         \/ call'[c] = Idle
         \/ /\ call'[c].op = call[c].op /\ call'[c].read = call[c].read
            /\ call'[c].seen = call[c].seen
            /\ call'[c].at \in Outside \/ call[c].at \notin Outside
            /\ call'[c].at \in Reading /\ call[c].op \notin Creators => call[c].at \in Reading
            /\ call'[c].at \in {"mmf", "setnx"} => call[c].at \in {"mmf", "setnx"}
  PROVE  SafeInv'
<1> USE DEF SafeInv, Op
<1> QED
  BY DEF LockInv, Holds, Outside, ReadInv, Reading, CreateInv, Creators, Idle,
    NewCall

\* A call inside its critical section is the only one there.
LEMMA Alone ==
  ASSUME SafeInv, NEW c \in Calls, Holds(c)
  PROVE  /\ lock = c
         /\ \A d \in Calls : d # c => ~Holds(d)
         /\ \A d \in Calls : d # c => ~(call[d].at \in Reading /\ Op(d) \notin Creators)
BY Zenon DEF SafeInv, LockInv, Holds, Reading, Creators, Outside

\* Every step of a call keeps the invariant.
LEMMA StepSafe ==
  ASSUME IInv, SafeInv, NEW c \in Calls, Step(c) \/ Crash(c)
  PROVE  SafeInv'
<1> USE DEF At
<1>t. TypeOK /\ CallsOK /\ StoreTypes /\ CallTypes /\ OtherTypes /\ LockInv /\ ReadInv /\ CreateInv
  BY Zenon DEF IInv, TypeOK, SafeInv
<1>o. CallOK(call[c]) /\ call[c] \in CallRecords
  BY <1>t, Zenon DEF CallsOK, CallTypes
<1>i. Idle.op = "none" /\ Idle.at = "idle"
  BY Zenon DEF Idle, NewCall
<1>Check. CASE Check(c)
  <2>4. ASSUME NEW w \in Places, Go(c, w), w \in {"set", "fail"} \/ (w = "zadd" /\ Op(c) = "ack")
        PROVE  /\ call'[c].op = call[c].op /\ call'[c].read = call[c].read
               /\ call'[c].seen = call[c].seen
               /\ call'[c].at \in Outside \/ call[c].at \notin Outside
               /\ call'[c].at \in Reading /\ call[c].op \notin Creators => call[c].at \in Reading
               /\ call'[c].at \in {"mmf", "setnx"} => call[c].at \in {"mmf", "setnx"}
    BY <1>t, <1>Check, <2>4, GoFacts, Zenon DEF Check, Outside, Reading
  <2> QED
    BY <2>4, PlainStep, <1>Check, <1>t, GoFacts, EndFacts, Zenon DEF Check, Command,
      redisVars, Return, Abort, Ends, Places, Deletes, Creators
<1>ZAdd. CASE ZAdd(c)
  <2>4. ASSUME NEW w \in Places, Go(c, w), (w \in {"unlock", "assign", "fail"} /\ Op(c) = "ack") \/ w = "hset"
        PROVE  /\ call'[c].op = call[c].op /\ call'[c].read = call[c].read
               /\ call'[c].seen = call[c].seen
               /\ call'[c].at \in Outside \/ call[c].at \notin Outside
               /\ call'[c].at \in Reading /\ call[c].op \notin Creators => call[c].at \in Reading
               /\ call'[c].at \in {"mmf", "setnx"} => call[c].at \in {"mmf", "setnx"}
    BY <1>t, <1>ZAdd, <2>4, GoFacts, Zenon DEF ZAdd, Outside, Reading
  <2> QED
    BY <2>4, PlainStep, <1>ZAdd, <1>t, GoFacts, EndFacts, Zenon DEF ZAdd, Command,
      redisVars, Return, Abort, Ends, Places, Deletes, Creators
<1>Assign. CASE Assign(c)
  <2>4. ASSUME NEW w \in Places, Go(c, w), w \in {"recheck", "fail"}
        PROVE  /\ call'[c].op = call[c].op /\ call'[c].read = call[c].read
               /\ call'[c].seen = call[c].seen
               /\ call'[c].at \in Outside \/ call[c].at \notin Outside
               /\ call'[c].at \in Reading /\ call[c].op \notin Creators => call[c].at \in Reading
               /\ call'[c].at \in {"mmf", "setnx"} => call[c].at \in {"mmf", "setnx"}
    BY <1>t, <1>Assign, <2>4, GoFacts, Zenon DEF Assign, Outside, Reading
  <2> QED
    BY <2>4, PlainStep, <1>Assign, <1>t, GoFacts, EndFacts, Zenon DEF Assign, Command,
      redisVars, Return, Abort, Ends, Places, Deletes, Creators
<1>Release. CASE Release(c)
  <2>4. ASSUME NEW w \in Places, Go(c, w), w \in {"del", "fail"} \/ (w = "hset" /\ ~Deletes(c))
        PROVE  /\ call'[c].op = call[c].op /\ call'[c].read = call[c].read
               /\ call'[c].seen = call[c].seen
               /\ call'[c].at \in Outside \/ call[c].at \notin Outside
               /\ call'[c].at \in Reading /\ call[c].op \notin Creators => call[c].at \in Reading
               /\ call'[c].at \in {"mmf", "setnx"} => call[c].at \in {"mmf", "setnx"}
    BY <1>t, <1>Release, <2>4, GoFacts, Zenon DEF Release, Outside, Reading
  <2> QED
    BY <2>4, PlainStep, <1>Release, <1>t, GoFacts, EndFacts, Zenon DEF Release, Command,
      redisVars, Return, Abort, Ends, Places, Deletes, Creators
<1>HSet. CASE HSet(c)
  <2>4. ASSUME NEW w \in Places, Go(c, w), w \in {"unlock", "fail"} /\ Op(c) \notin Creators
        PROVE  /\ call'[c].op = call[c].op /\ call'[c].read = call[c].read
               /\ call'[c].seen = call[c].seen
               /\ call'[c].at \in Outside \/ call[c].at \notin Outside
               /\ call'[c].at \in Reading /\ call[c].op \notin Creators => call[c].at \in Reading
               /\ call'[c].at \in {"mmf", "setnx"} => call[c].at \in {"mmf", "setnx"}
    BY <1>t, <1>HSet, <2>4, GoFacts, Zenon DEF HSet, Outside, Reading
  <2> QED
    BY <2>4, PlainStep, <1>HSet, <1>t, GoFacts, EndFacts, Zenon DEF HSet, Command,
      redisVars, Return, Abort, Ends, Places, Deletes, Creators
<1>HDel. CASE HDel(c)
  <2>4. ASSUME NEW w \in Places, Go(c, w), w \in {"get", "fail"}
        PROVE  /\ call'[c].op = call[c].op /\ call'[c].read = call[c].read
               /\ call'[c].seen = call[c].seen
               /\ call'[c].at \in Outside \/ call[c].at \notin Outside
               /\ call'[c].at \in Reading /\ call[c].op \notin Creators => call[c].at \in Reading
               /\ call'[c].at \in {"mmf", "setnx"} => call[c].at \in {"mmf", "setnx"}
    BY <1>t, <1>HDel, <2>4, GoFacts, Zenon DEF HDel, Outside, Reading
  <2> QED
    BY <2>4, PlainStep, <1>HDel, <1>t, GoFacts, EndFacts, Zenon DEF HDel, Command,
      redisVars, Return, Abort, Ends, Places, Deletes, Creators
<1>ZRem. CASE ZRem(c)
  <2>4. ASSUME NEW w \in Places, Go(c, w), w = "unlock"
        PROVE  /\ call'[c].op = call[c].op /\ call'[c].read = call[c].read
               /\ call'[c].seen = call[c].seen
               /\ call'[c].at \in Outside \/ call[c].at \notin Outside
               /\ call'[c].at \in Reading /\ call[c].op \notin Creators => call[c].at \in Reading
               /\ call'[c].at \in {"mmf", "setnx"} => call[c].at \in {"mmf", "setnx"}
    BY <1>t, <1>ZRem, <2>4, GoFacts, Zenon DEF ZRem, Outside, Reading
  <2> QED
    BY <2>4, PlainStep, <1>ZRem, <1>t, GoFacts, EndFacts, Zenon DEF ZRem, Command,
      redisVars, Return, Abort, Ends, Places, Deletes, Creators
<1>Drop. CASE Drop(c)
  BY PlainStep, <1>Drop, <1>t, GoFacts, EndFacts, Zenon DEF Drop, Command, redisVars,
    Return, Abort, Ends, Places, Deletes, Creators
<1>Crash. CASE Crash(c)
  BY PlainStep, <1>Crash, <1>t, GoFacts, EndFacts, Zenon DEF Crash, Command, redisVars,
    Return, Abort, Ends, Places, Deletes, Creators
<1>Lock. CASE Lock(c)
  <2>1. UNCHANGED <<stored, known>>
    BY <1>Lock, Zenon DEF Lock
  <2>2. CASE Ends(c) /\ UNCHANGED lock
    BY <1>t, <2>1, <2>2, EndFacts, PlainStep, Zenon
  <2>3. ASSUME Acquire(c), NEW w \in {"hdel", "get"}, Go(c, w) PROVE SafeInv'
    <3>1. lock = None /\ lock' = c /\ w \in Places
      BY <2>3, Zenon DEF Acquire, Places
    <3>2. call'[c].at = w /\ call'[c].op = call[c].op
          /\ \A d \in Calls : d # c => call'[d] = call[d]
      BY <1>t, <2>3, <3>1, GoFacts, Zenon
    <3> QED
      BY <1>t, <3>1, <3>2, BackfillConstants, <2>1, <1>o, <1>Lock DEF SafeInv,
        LockInv, Holds, Op, ReadInv, Reading, CreateInv, Lock, CallOK
  <2> QED BY <1>Lock, <2>2, <2>3, Zenon DEF Lock, Abort, Ends, Deletes
<1>Unlock. CASE Unlock(c)
  <2>0. Op(c) \notin Creators /\ Holds(c)
    BY <1>o, <1>Unlock, Zenon DEF Unlock, CallOK, Op, Holds, Outside, Creators
  <2>3. /\ call'[c] = Idle \/ (call'[c].at = "drop" /\ call'[c].op = call[c].op)
        /\ \A d \in Calls : d # c => call'[d] = call[d]
    BY <1>t, EndFacts, GoFacts, <1>Unlock, Zenon DEF Places, Unlock, Return, Abort, Ends
  <2> QED
    BY <1>i, <2>3, <2>0, Alone, <1>t, <1>Unlock DEF SafeInv, LockInv, Holds,
      Outside, Op, ReadInv, Reading, CreateInv, Creators, Unlock
<1>SetNX. CASE SetNX(c)
  <2>0. Op(c) \in Creators /\ stored = None /\ known # "no"
    BY <1>t, <1>o, <1>SetNX, Zenon DEF SetNX, CallOK, Op, CreateInv
  <2>3. /\ call'[c] = Idle \/ (call'[c].at = "zadd" /\ call'[c].op = call[c].op)
        /\ \A d \in Calls : d # c => call'[d] = call[d]
    BY <1>t, EndFacts, GoFacts, <1>SetNX, Zenon DEF Places, SetNX, Command, Abort, Ends
  <2> QED
    BY <1>t, <1>i, <2>0, <2>3, <1>SetNX, Zenon DEF SafeInv, LockInv, Holds, Outside, Op,
      Creators, ReadInv, Reading, CreateInv, SetNX
<1>Get. CASE Get(c)
  <2> DEFINE next == CASE Deletes(c) -> "release"
                       [] ~Deletes(c) /\ Rejected(c) ->
                            IF Op(c) = "fetch" THEN "reject" ELSE "fail"
                       [] OTHER -> "check"
  <2>0. Op(c) \notin Creators /\ Holds(c) /\ UNCHANGED <<stored, lock, known>>
    BY <1>o, <1>Get, Zenon DEF Get, CallOK, Op, Holds, Outside, Creators, redisVars
  <2>2. next \in {"release", "reject", "fail", "check"}
    BY Zenon
  <2>3. next = "check" => stored # None /\ (Op(c) = "fetch" => stored.gen = call[c].seen)
    BY Zenon DEF Rejected
  <2> HIDE DEF next
  <2>4. ASSUME call' = [call EXCEPT ![c].read = stored, ![c].at = next] PROVE SafeInv'
    <3> DEFINE r == [call[c] EXCEPT !.read = stored, !.at = next]
    <3>1. /\ r \in CallRecords /\ r.at = next /\ r.read = stored
          /\ r.op = call[c].op /\ r.seen = call[c].seen
      BY <1>t, <1>o, <2>2, Zenon DEF CallRecords, StoreTypes, Places
    <3>2. call' = [call EXCEPT ![c] = r]
      BY <1>t, <2>4, Zenon DEF CallTypes
    <3> HIDE DEF r
    <3> QED
      BY <1>t, <2>0, <3>1, <2>2, <2>3, <3>2, PutFacts DEF SafeInv, LockInv, Holds,
        Op, ReadInv, Reading, CreateInv
  <2>5. ASSUME NEW w \in {"release", "fail"}, Go(c, w) PROVE SafeInv'
    BY <1>Get, <2>0, PlainStep, <1>t, <2>5, GoFacts, Zenon DEF Get, Outside, Reading,
      Places
  <2> QED BY <2>4, <2>5, <1>Get DEF Get
<1>Set. CASE Set(c)
  <2>0. Op(c) \notin Creators /\ Holds(c) /\ UNCHANGED <<lock, known>>
    BY <1>o, <1>Set, Zenon DEF Set, CallOK, Op, Holds, Outside, Creators
  <2>1. PICK w \in Places : Go(c, w) /\ w \in {"unlock", "release", "hset", "fail"}
    BY <1>Set, Zenon DEF Set, Command, Places
  <2> QED
    BY <1>t, <2>0, <2>1, Alone, <1>Set, GoFacts DEF SafeInv, LockInv, Holds, Op,
      ReadInv, Reading, CreateInv, Set
<1>Del. CASE Del(c)
  <2>0. Op(c) \notin Creators /\ Holds(c) /\ UNCHANGED <<lock, known>>
    BY <1>o, <1>Del, Zenon DEF Del, CallOK, Op, Holds, Outside, Creators
  <2>1. PICK w \in Places : Go(c, w) /\ w \in {"unlock", "zrem"}
    BY <1>Del, Zenon DEF Del, Command, Places
  <2> QED
    BY <1>t, <2>0, <2>1, Alone, <1>Del, GoFacts DEF SafeInv, LockInv, Holds, Op,
      ReadInv, Reading, CreateInv, Del, Command
<1> QED
  BY <1>Lock, <1>Unlock, <1>SetNX, <1>Check, <1>ZAdd, <1>Assign, <1>Set, <1>Release,
    <1>HSet, <1>HDel, <1>Del, <1>ZRem, <1>Drop, <1>Crash, <1>Get DEF Step

\* Calls that begin keep the invariant: the id is created once.
LEMMA StartSafe ==
  ASSUME IInv, SafeInv, NEW c \in Calls, Start(c) \/ StartCleanup(c)
  PROVE  SafeInv'
<1>t. CallTypes /\ CallsOK /\ OtherTypes /\ LockInv /\ ReadInv /\ CreateInv
  BY Zenon DEF IInv, TypeOK, SafeInv
<1>b. ASSUME NEW o \in Ops, NEW w \in {"setnx", "lock", "mmf"}, NEW g \in Gens \cup {None},
             call' = [call EXCEPT ![c] = NewCall(o, w, g)], UNCHANGED <<stored, lock>>,
             \/ o \notin Creators /\ UNCHANGED known
             \/ o \in Creators /\ known = "no" /\ known' = "creating"
      PROVE  SafeInv'
  <2>1. /\ NewCall(o, w, g) \in CallRecords /\ NewCall(o, w, g).at = w
        /\ NewCall(o, w, g).op = o
    BY NewCallType DEF Places
  <2> QED
    BY <1>t, <1>b, SMTT(40), <2>1, PutFacts DEF SafeInv, LockInv, Holds, Outside,
      Op, ReadInv, Reading, CreateInv
<1>1. CASE StartCreate(c)
  BY <1>1, <1>b, Zenon DEF StartCreate, Begin, redisVars, Ops, Creators
<1>2. CASE StartClient(c)
  BY <1>2, <1>b, Zenon DEF StartClient, Begin, redisVars, Ops, Creators
<1>3. CASE Propose(c)
  <2>1. PICK op \in {"fetch", "new"} :
          /\ IF op = "fetch" THEN view # None /\ UNCHANGED known
                             ELSE known = "no" /\ known' = "creating"
          /\ call' = [call EXCEPT ![c] = NewCall(op, "mmf", view)]
    BY <1>3, Zenon DEF Propose
  <2> QED
    BY <2>1, <1>b, <1>t, <1>3, Zenon DEF Ops, Creators, Propose, redisVars, OtherTypes
<1>4. CASE Pend(c)
  <2> DEFINE w == IF Op(c) = "new" THEN "setnx" ELSE "lock"
  <2>1. w \in {"setnx", "lock"}
    BY Zenon
  <2>2. PICK ts \in SUBSET Pool \ {{}} :
          call' = [call EXCEPT ![c].match = ts, ![c].at = w]
    BY <1>4, Zenon DEF Pend
  <2> DEFINE r == [call[c] EXCEPT !.match = ts, !.at = w]
  <2> HIDE DEF r, w
  <2> QED
    BY <2>1, PlainStep, <1>t, PutFacts, <1>4, <2>2 DEF Outside, Reading, Pend, At,
      CallTypes, CallRecords, Pool, Places
<1>5. CASE StartCleanup(c)
  BY <1>5, <1>b, Zenon DEF StartCleanup, redisVars, Ops, Creators
<1> QED BY <1>1, <1>2, <1>3, <1>4, <1>5, Zenon DEF Start

\* A lock that expires has no working holder; caches and time do not matter.
LEMMA OtherSafe ==
  ASSUME NoExpiry, IInv, SafeInv,
         LockExpires \/ QueryAcked \/ QueryIndex \/ QueryFetch \/ Tick \/ UNCHANGED vars
  PROVE  SafeInv'
<1>t. CallTypes /\ StoreTypes /\ LockInv /\ ReadInv /\ CreateInv
  BY Zenon DEF IInv, TypeOK, SafeInv
<1>u. UNCHANGED <<stored, lock, call, known>> => SafeInv'
  BY <1>t, Zenon DEF SafeInv, LockInv, ReadInv, CreateInv, Holds, Op
<1>1. CASE LockExpires
  BY <1>t, <1>1, Zenon DEF SafeInv, LockInv, ReadInv, CreateInv, Holds, Op, LockExpires,
    Fault, NoExpiry
<1>2. CASE QueryAcked \/ QueryIndex \/ QueryFetch
  BY <1>2, <1>u, Zenon DEF QueryAcked, QueryIndex, QueryFetch, queryFrame, redisVars
<1>3. CASE Tick
  <2>1. ASSUME NEW c \in Calls
        PROVE  /\ call'[c].at = call[c].at /\ call'[c].op = call[c].op
               /\ call'[c].read = call[c].read /\ call'[c].seen = call[c].seen
    BY <1>t, <1>3, Zenon DEF CallRecords, CallTypes, Tick
  <2> QED
    BY <1>t, <2>1, <1>3, Zenon DEF SafeInv, LockInv, ReadInv, CreateInv, Holds, Op, Tick
<1>4. CASE UNCHANGED vars
  BY <1>4, <1>u, Zenon DEF vars, redisVars
<1> QED BY <1>1, <1>2, <1>3, <1>4, Zenon

\* While no lock expires under its holder, calls exclude each other and what a
\* call has read stays stored until it writes.
THEOREM BackfillInvariant ==
  ASSUME NoExpiry
  PROVE  Spec => [](IInv /\ SafeInv)
<1>1. Init => IInv /\ SafeInv
  <2> SUFFICES ASSUME Init PROVE IInv /\ SafeInv
    BY Zenon
  <2> QED
    BY InitTypes, Zenon DEF Init, SafeInv, LockInv, ReadInv, CreateInv, Holds, Op,
      Outside, Reading, Creators, Idle, NewCall
<1>2. IInv /\ SafeInv /\ [Next]_vars => (IInv /\ SafeInv)'
  BY StepTypes, StartTypes, OtherSteps, StepSafe, StartSafe, OtherSafe, Zenon DEF Next
<1> QED BY <1>1, <1>2, PTL DEF Spec

\* No SET of UpdateBackfill overwrites a record other than the one its call
\* read under the lock, for any number of concurrent calls, failed commands and
\* crashes.
THEOREM UpdatesNotLost ==
  ASSUME NoExpiry
  PROVE  Spec => NoLostUpdate
<1>1. IInv /\ SafeInv /\ [Next]_vars =>
        [\A c \in Calls : At(c, "set") /\ stored' # stored => stored = call[c].read]_vars
  <2> SUFFICES ASSUME IInv, SafeInv, NEW c \in Calls, At(c, "set")
               PROVE  stored = call[c].read
    BY Zenon
  <2> QED BY Zenon DEF SafeInv, ReadInv, At, Op, Reading, CallOK, IInv, CallsOK
<1> QED BY <1>1, BackfillInvariant, PTL DEF Spec, NoLostUpdate

\* A match is added to the generation of the backfill that its match function
\* was given, however long the match function took.
THEOREM MatchJoinsItsGeneration ==
  ASSUME NoExpiry
  PROVE  Spec => JoinsSeenGeneration
<1>1. IInv /\ SafeInv /\ [Next]_vars =>
        [\A c \in Calls : At(c, "set") /\ Op(c) = "fetch" /\ stored' # stored =>
           stored # None /\ stored.gen = call[c].seen]_vars
  <2> SUFFICES ASSUME IInv, SafeInv, NEW c \in Calls, At(c, "set"), Op(c) = "fetch"
               PROVE  stored # None /\ stored.gen = call[c].seen
    BY Zenon
  <2> QED BY Zenon DEF SafeInv, ReadInv, At, Op, Reading, Creators
<1> QED BY <1>1, BackfillInvariant, PTL DEF Spec, JoinsSeenGeneration

\* Both together: every update of a backfill builds on what its caller saw.
THEOREM UpdatesBuild ==
  ASSUME NoExpiry
  PROVE  Spec => UpdatesBuildOnSeen
BY UpdatesNotLost, MatchJoinsItsGeneration, PTL DEF UpdatesBuildOnSeen
-----------------------------------------------------------------------------
(* The ways of the calls, while nothing fails.                             *)

NoFaults == Faults = {}

\* A call that has not made its new backfill known to anyone.
Before(r) == r.op \in Creators /\ r.at \in {"mmf", "setnx", "zadd"}
NothingYet ==
    acked = None /\ index = None /\ view = None /\ query.at # "fetch" /\ query.since = None

\* Until the backfill is acknowledged for the first time its creator is alone.
FirstInv ==
    /\ known = "no" => stored = None /\ NothingYet /\ \A c \in Calls : Op(c) = "none"
    /\ \A c \in Calls : Op(c) \in Creators => known = "creating"
    /\ \A c \in Calls : Op(c) = "none" => At(c, "idle")
    /\ \A c \in Calls : Before(call[c]) =>
         /\ NothingYet
         /\ \A d \in Calls : d # c => Op(d) = "none"
         /\ IF At(c, "zadd") THEN stored # None /\ stored.tickets = call[c].match
                                                /\ stored.gen = FirstGeneration
                             ELSE stored = None

\* The calls of c alone change, and how.
Same(r, s) == s.op = r.op /\ s.seen = r.seen /\ s.match = r.match /\ s.lag = r.lag

\* GoFacts, with the age of the call.
LEMMA Moves ==
  ASSUME CallTypes, NEW c \in Calls, NEW w \in Places, Go(c, w)
  PROVE  /\ \A d \in Calls : d # c => call'[d] = call[d]
         /\ call'[c].at = w /\ Same(call[c], call'[c]) /\ call'[c].read = call[c].read
<1>1. call \in [Calls -> CallRecords]
  BY Zenon DEF CallTypes
<1> QED BY <1>1, Zenon DEF CallRecords, Go, Same

\* What every command does to the calls, when none fails.
LEMMA StepFrame ==
  ASSUME NoFaults, IInv, NEW c \in Calls, Step(c)
  PROVE  /\ \A d \in Calls : d # c => call'[d] = call[d]
         /\ call'[c] = Idle \/ (Same(call[c], call'[c]) /\ call'[c].at \notin {"idle", "mmf", "setnx"})
         /\ ~At(c, "idle") /\ ~At(c, "mmf")
         /\ Op(c) \in Creators => SetNX(c) \/ ZAdd(c) \/ HSet(c)
         /\ UNCHANGED <<queryVars, calls>>
         /\ UNCHANGED known \/ (HSet(c) /\ Op(c) \in Creators /\ known' = "yes")
<1> USE DEF At
<1>t. CallTypes /\ CallsOK
  BY Zenon DEF IInv, TypeOK
<1>o. CallOK(call[c])
  BY <1>t, Zenon DEF CallsOK
<1>f. ~Fault("store")
  BY Zenon DEF NoFaults, Fault
<1>e. ASSUME Return(c) \/ Abort(c)
      PROVE  (\A d \in Calls : d # c => call'[d] = call[d]) /\ call'[c] = Idle
  BY <1>e, <1>t, EndFacts, Zenon DEF Return, Abort, Ends
<1>g. ASSUME NEW w \in Places \ {"idle", "mmf", "setnx"}, Go(c, w)
      PROVE  /\ \A d \in Calls : d # c => call'[d] = call[d]
             /\ Same(call[c], call'[c]) /\ call'[c].at \notin {"idle", "mmf", "setnx"}
  BY <1>g, <1>t, Moves, Zenon
<1> HIDE DEF Return, Abort, Go
<1>Lock. CASE Lock(c)
  BY <1>Lock, <1>f, <1>e, <1>g, <1>o, Zenon DEF Lock, Places, CallOK, Op, Creators
<1>Unlock. CASE Unlock(c)
  BY <1>Unlock, <1>f, <1>e, <1>g, <1>o, Zenon DEF Unlock, Places, CallOK, Op, Creators
<1>SetNX. CASE SetNX(c)
  BY <1>SetNX, <1>f, <1>e, <1>g, <1>o, Zenon DEF SetNX, Command, Places
<1>Check. CASE Check(c)
  BY <1>Check, <1>f, <1>e, <1>g, <1>o, Zenon DEF Check, Places, CallOK, Op, Creators,
    ghostVars
<1>ZAdd. CASE ZAdd(c)
  BY <1>ZAdd, <1>f, <1>e, <1>g, <1>o, Zenon DEF ZAdd, Command, Places, CallOK, Op,
    Creators
<1>Assign. CASE Assign(c)
  BY <1>Assign, <1>f, <1>e, <1>g, <1>o, Zenon DEF Assign, Command, Places, CallOK, Op,
    Creators, ghostVars
<1>Set. CASE Set(c)
  BY <1>Set, <1>f, <1>e, <1>g, <1>o, Zenon DEF Set, Command, Places, CallOK, Op,
    Creators, ghostVars
<1>Release. CASE Release(c)
  BY <1>Release, <1>f, <1>e, <1>g, <1>o, Zenon DEF Release, Command, Places, CallOK,
    Op, Creators, ghostVars
<1>HSet. CASE HSet(c)
  BY <1>HSet, <1>f, <1>e, <1>g, <1>o, Zenon DEF HSet, Command, Places, CallOK, Op,
    Creators
<1>HDel. CASE HDel(c)
  BY <1>HDel, <1>f, <1>e, <1>g, <1>o, Zenon DEF HDel, Command, Places, CallOK, Op,
    Creators, ghostVars
<1>Del. CASE Del(c)
  BY <1>Del, <1>f, <1>e, <1>g, <1>o, Zenon DEF Del, Command, Places, CallOK, Op,
    Creators, ghostVars
<1>ZRem. CASE ZRem(c)
  BY <1>ZRem, <1>f, <1>e, <1>g, <1>o, Zenon DEF ZRem, Command, Places, CallOK, Op,
    Creators, ghostVars
<1>Drop. CASE Drop(c)
  BY <1>Drop, <1>f, <1>e, <1>g, <1>o, Zenon DEF Drop, CallOK, Op, Creators
<1>Get. CASE Get(c)
  <2> DEFINE next == CASE Deletes(c) -> "release"
                       [] ~Deletes(c) /\ Rejected(c) ->
                            IF Op(c) = "fetch" THEN "reject" ELSE "fail"
                       [] OTHER -> "check"
  <2>1. next \in {"release", "reject", "fail", "check"}
    BY Zenon
  <2>2. call' = [call EXCEPT ![c].read = stored, ![c].at = next]
    BY <1>Get, <1>f, Zenon DEF Get
  <2> HIDE DEF next
  <2>3. /\ \A d \in Calls : d # c => call'[d] = call[d]
        /\ Same(call[c], call'[c]) /\ call'[c].at = next
    BY <1>t, <2>2, Zenon DEF CallTypes, CallRecords, Same
  <2> QED BY <2>1, <2>3, <1>Get, <1>o, Zenon DEF Get, CallOK, Op, Creators, ghostVars
<1> QED
  BY <1>Lock, <1>Unlock, <1>SetNX, <1>Check, <1>ZAdd, <1>Assign, <1>Set, <1>Release,
    <1>HSet, <1>HDel, <1>Del, <1>ZRem, <1>Drop, <1>Get, Zenon DEF Step

\* The commands that touch each part of the store.
LEMMA StepTouches ==
  ASSUME NEW c \in Calls, Step(c)
  PROVE  /\ UNCHANGED stored \/ SetNX(c) \/ Set(c) \/ Del(c)
         /\ UNCHANGED index \/ HSet(c) \/ HDel(c)
         /\ UNCHANGED acked \/ ZAdd(c) \/ ZRem(c)
         /\ UNCHANGED pend \/ Release(c) \/ Drop(c)
         /\ UNCHANGED assigned \/ Assign(c)
         /\ UNCHANGED lock \/ Lock(c) \/ Unlock(c)
BY Zenon DEF Step, Lock, Unlock, SetNX, Get, Check, ZAdd, Assign, Set, Release, HSet,
  HDel, Del, ZRem, Drop, redisVars

\* An idle call is none of these.
LEMMA IdleFacts ==
  /\ Idle.op = "none" /\ Idle.at = "idle" /\ Idle.match = {} /\ Idle.lag = 0
  /\ ~Before(Idle)
BY Zenon DEF Idle, NewCall, Before, Creators

\* The creator of the backfill works alone until it is acknowledged.
LEMMA FirstStep ==
  ASSUME NoFaults, IInv, SafeInv, FirstInv, NEW c \in Calls, Step(c)
  PROVE  /\ FirstInv'
         /\ known # "no" /\ Op(c) # "none" /\ \A d \in Calls : d # c => ~Before(call[d])
<1>t. CallTypes /\ CallsOK /\ CreateInv
  BY Zenon DEF IInv, TypeOK, SafeInv
<1>o. CallOK(call[c])
  BY <1>t, Zenon DEF CallsOK
<1>f. ~Fault("store")
  BY Zenon DEF NoFaults, Fault
<1>s. /\ \A d \in Calls : d # c => call'[d] = call[d]
      /\ call'[c] = Idle \/ (Same(call[c], call'[c]) /\ call'[c].at \notin {"idle", "mmf", "setnx"})
      /\ ~At(c, "idle") /\ ~At(c, "mmf")
      /\ Op(c) \in Creators => SetNX(c) \/ ZAdd(c) \/ HSet(c)
      /\ UNCHANGED <<queryVars, calls>>
      /\ UNCHANGED known \/ (HSet(c) /\ Op(c) \in Creators /\ known' = "yes")
  BY StepFrame, Zenon
<1>1. known # "no" /\ Op(c) # "none" /\ \A d \in Calls : d # c => ~Before(call[d])
  BY <1>s, Zenon DEF FirstInv
<1>2. known' # "no"
  BY <1>1, <1>s, Zenon
<1>3. \A d \in Calls : Op(d)' \in Creators => known' = "creating"
  <2>1. CASE UNCHANGED known
    BY <2>1, <1>s, IdleFacts, Zenon DEF FirstInv, Op, Same, Creators
  <2>2. CASE HSet(c) /\ Op(c) \in Creators
    <3>1. call'[c] = Idle
      BY <2>2, <1>f, <1>t, EndFacts, Zenon DEF HSet, Command, Creators, Return, Ends
    <3> QED BY <2>2, <3>1, <1>s, <1>t, IdleFacts, Zenon DEF CreateInv, Op, Creators
  <2> QED BY <1>s, <2>1, <2>2, Zenon
<1>4. \A d \in Calls : Op(d)' = "none" => At(d, "idle")'
  BY <1>1, <1>s, IdleFacts, Zenon DEF FirstInv, Op, At, Same
<1>5. ASSUME NEW d \in Calls, Before(call'[d])
      PROVE  d = c /\ SetNX(c)
  <2>1. d = c
    BY <1>1, <1>s, <1>5, Zenon
  <2>2. Op(c) \in Creators /\ call'[c].at = "zadd"
    BY <1>5, <2>1, <1>s, IdleFacts, Zenon DEF Before, Same, Op
  <2>3. ZAdd(c) => call'[c].at = "hset"
    BY <2>2, <1>f, <1>t, Moves, Zenon DEF ZAdd, Command, Places, Creators
  <2>4. HSet(c) => call'[c] = Idle
    BY <2>2, <1>f, <1>t, EndFacts, Zenon DEF HSet, Command, Creators, Return, Ends
  <2> QED BY <2>1, <2>2, <2>3, <2>4, <1>s, IdleFacts, Zenon
<1>6. ASSUME SetNX(c)
      PROVE  /\ NothingYet' /\ \A d \in Calls : d # c => Op(d)' = "none"
             /\ At(c, "zadd")' /\ stored' # None /\ stored'.tickets = call'[c].match
             /\ stored'.gen = FirstGeneration
  <2>1. Before(call[c])
    BY <1>6, <1>o, Zenon DEF SetNX, At, CallOK, Before
  <2>2. Go(c, "zadd") /\ stored' = [gen |-> FirstGeneration, tickets |-> call[c].match]
    BY <1>6, <1>f, Zenon DEF SetNX, Command
  <2>3. call'[c].at = "zadd" /\ Same(call[c], call'[c])
    BY <2>2, <1>t, Moves, Zenon DEF Places
  <2>4. stored' # None
    <3>1. call[c].match \in SUBSET Tickets
      BY <1>t DEF CallTypes, CallRecords
    <3> QED BY <2>2, <3>1, BackfillConstants DEF FirstGeneration
  <2> QED
    BY <1>6, <1>s, <2>1, <2>2, <2>3, <2>4, Zenon DEF FirstInv, NothingYet, SetNX,
      queryVars, Op, At, Same
<1>7. FirstInv'
  BY <1>2, <1>3, <1>4, <1>5, <1>6, Zenon DEF FirstInv
<1> QED BY <1>1, <1>7, Zenon

\* What a call that begins looks like.
LEMMA StartFrame ==
  ASSUME IInv, NEW c \in Calls, Start(c) \/ StartCleanup(c)
  PROVE  /\ \A d \in Calls : d # c => call'[d] = call[d]
         /\ UNCHANGED <<stored, index, acked, assigned, lock, queryVars, faults>>
         /\ \/ /\ call[c] = Idle /\ UNCHANGED <<pend, aborted>>
               /\ \/ /\ call'[c] \in {NewCall("create", "setnx", None), NewCall("new", "mmf", view)}
                     /\ known = "no" /\ known' = "creating"
                  \/ /\ call'[c] \in {NewCall("update", "lock", None), NewCall("ack", "lock", None),
                                       NewCall("delete", "lock", None)}
                     /\ known = "yes" /\ UNCHANGED known
                  \/ /\ call'[c] = NewCall("fetch", "mmf", view)
                     /\ view # None /\ UNCHANGED known
                  \/ /\ call'[c] = NewCall("cleanup", "lock", None)
                     /\ Expired /\ UNCHANGED known
            \/ /\ Pend(c) /\ At(c, "mmf") /\ UNCHANGED known
               /\ call'[c].op = call[c].op /\ call'[c].seen = call[c].seen
               /\ call'[c].lag = call[c].lag /\ call'[c].read = call[c].read
               /\ call'[c].at = (IF Op(c) = "new" THEN "setnx" ELSE "lock")
               /\ call'[c].match \in SUBSET Pool
               /\ pend' = [t \in Tickets |-> IF t \in call'[c].match THEN 0 ELSE pend[t]]
               /\ aborted' = aborted \ call'[c].match
<1>t. CallTypes
  BY Zenon DEF IInv, TypeOK
<1>p. ASSUME NEW r, call' = [call EXCEPT ![c] = r]
      PROVE  (\A d \in Calls : d # c => call'[d] = call[d]) /\ call'[c] = r
  BY <1>p, <1>t, Zenon DEF CallTypes
<1>1. CASE StartCreate(c)
  BY <1>1, <1>p, Zenon DEF StartCreate, Begin, redisVars
<1>2. CASE StartClient(c)
  BY <1>2, <1>p, Zenon DEF StartClient, Begin, redisVars
<1>3. CASE Propose(c)
  BY <1>3, <1>p, Zenon DEF Propose, redisVars
<1>4. CASE Pend(c)
  <2> DEFINE w == IF Op(c) = "new" THEN "setnx" ELSE "lock"
  <2>1. PICK ts \in SUBSET Pool \ {{}} :
          /\ pend' = [t \in Tickets |-> IF t \in ts THEN 0 ELSE pend[t]]
          /\ call' = [call EXCEPT ![c].match = ts, ![c].at = w]
          /\ aborted' = aborted \ ts
    BY <1>4, Zenon DEF Pend
  <2> HIDE DEF w
  <2>2. /\ \A d \in Calls : d # c => call'[d] = call[d]
        /\ call'[c].op = call[c].op /\ call'[c].seen = call[c].seen
        /\ call'[c].lag = call[c].lag /\ call'[c].read = call[c].read
        /\ call'[c].match = ts /\ call'[c].at = w
    BY <1>t, <2>1, Zenon DEF CallTypes, CallRecords
  <2> QED BY <1>4, <2>1, <2>2, Zenon DEF Pend, w
<1>5. CASE StartCleanup(c)
  BY <1>5, <1>p, Zenon DEF StartCleanup, redisVars, ghostVars
<1> QED BY <1>1, <1>2, <1>3, <1>4, <1>5, Zenon DEF Start

\* The fields of a new call.
LEMMA NewFacts ==
  ASSUME NEW o, NEW w, NEW g
  PROVE  /\ NewCall(o, w, g).op = o /\ NewCall(o, w, g).at = w /\ NewCall(o, w, g).seen = g
         /\ NewCall(o, w, g).match = {} /\ NewCall(o, w, g).lag = 0
BY DEF NewCall

\* A call that begins has nothing in its hand; one that is given tickets has them
\* from the pool.
LEMMA BeginFacts ==
  ASSUME IInv, NEW c \in Calls, Start(c) \/ StartCleanup(c)
  PROVE  /\ call[c].at \in {"idle", "mmf"} /\ call'[c].at \in {"mmf", "setnx", "lock"}
         /\ \/ /\ call[c] = Idle /\ UNCHANGED pend
               /\ call'[c].match = {} /\ call'[c].lag = 0
            \/ /\ call'[c].op = call[c].op /\ call'[c].lag = call[c].lag /\ At(c, "mmf")
               /\ call'[c].match \subseteq Pool
               /\ pend' = [t \in Tickets |-> IF t \in call'[c].match THEN 0 ELSE pend[t]]
<1>1. CASE call'[c] \in {NewCall("create", "setnx", None), NewCall("new", "mmf", view),
                       NewCall("update", "lock", None), NewCall("ack", "lock", None),
                       NewCall("delete", "lock", None), NewCall("fetch", "mmf", view),
                       NewCall("cleanup", "lock", None)} /\ call[c] = Idle /\ UNCHANGED pend
  BY <1>1, NewFacts, IdleFacts
<1>2. CASE ~UNCHANGED pend \/ call[c] # Idle \/ Pend(c)
  <2>1. Pend(c)
    BY <1>2, StartFrame, Zenon
  <2>2. At(c, "mmf")
    BY <2>1, Zenon DEF Pend
  <2>3. call[c] # Idle
    BY <2>2, IdleFacts, Zenon DEF At
  <2> QED BY <2>2, <2>3, StartFrame, Zenon DEF At
<1> QED BY <1>1, <1>2, StartFrame, Zenon

\* The id is created once, and known to nobody else before.
LEMMA FirstStart ==
  ASSUME IInv, SafeInv, FirstInv, NEW c \in Calls, Start(c) \/ StartCleanup(c)
  PROVE  FirstInv'
<1>t. CreateInv /\ CallsOK
  BY Zenon DEF SafeInv, IInv
<1>n. UNCHANGED NothingYet
  BY StartFrame, Zenon DEF NothingYet, queryVars
<1>0. \A d \in Calls : d # c => call'[d] = call[d]
  BY StartFrame, Zenon
<1>u. UNCHANGED stored
  BY StartFrame, Zenon
<1>1. CASE known = "no" /\ known' = "creating"
           /\ call'[c] \in {NewCall("create", "setnx", None), NewCall("new", "mmf", view)}
  <2>1. call'[c].op \in Creators /\ call'[c].at \in {"setnx", "mmf"}
    BY <1>1, NewFacts DEF Creators
  <2>2. /\ stored' = None /\ NothingYet' /\ \A d \in Calls : d # c => Op(d)' = "none"
        /\ \A d \in Calls : d # c => At(d, "idle")'
    BY <1>1, <1>n, <1>0, <1>u, Zenon DEF FirstInv, Op, At
  <2> QED BY <1>1, <2>1, <2>2, Zenon DEF FirstInv, Before, Op, At, Creators
<1>2. ASSUME NEW op \in {"update", "ack", "delete", "fetch", "cleanup"}, NEW at \in {"lock", "mmf"},
             NEW g, call'[c] = NewCall(op, at, g), ~NothingYet \/ known = "yes", UNCHANGED known
      PROVE  FirstInv'
  <2>1. call'[c].op = op /\ call'[c].at = at
    BY <1>2, NewFacts
  <2>2. known # "no" /\ \A d \in Calls : ~Before(call[d])
    BY <1>2, Zenon DEF FirstInv, Before, Op
  <2>3. \A d \in Calls : ~Before(call'[d])
    BY <2>1, <2>2, <1>0, Zenon DEF Before, Creators
  <2> QED BY <1>2, <2>1, <2>2, <2>3, <1>0, Zenon DEF FirstInv, Op, At, Creators
<1>3. ASSUME At(c, "mmf"), UNCHANGED known, call'[c].op = call[c].op,
             call'[c].at = (IF Op(c) = "new" THEN "setnx" ELSE "lock")
      PROVE  FirstInv'
  <2>1. Op(c) \in {"fetch", "new"}
    BY <1>3, <1>t, Zenon DEF CallsOK, CallOK, At, Op
  <2>2. known # "no" /\ \A d \in Calls : d # c => ~Before(call[d])
    BY <2>1, Zenon DEF FirstInv, Op, At
  <2>3. Before(call'[c]) => Before(call[c]) /\ call'[c].at = "setnx" /\ At(c, "mmf")
    BY <1>3, <2>1, Zenon DEF Before, Op, At, Creators
  <2> QED
    BY <1>3, <2>1, <2>2, <2>3, <1>0, <1>n, <1>u, Zenon DEF FirstInv, Op, At, Creators
<1> QED
  <2>1. Expired => ~NothingYet
    BY Zenon DEF Expired, NothingYet
  <2>2. view # None => ~NothingYet
    BY Zenon DEF NothingYet
  <2> QED BY StartFrame, <1>1, <1>2, <1>3, <2>1, <2>2, Zenon

\* Time leaves everything but the ages alone.
LEMMA TickFrame ==
  ASSUME IInv, Tick
  PROVE  /\ \A c \in Calls : /\ call'[c].op = call[c].op /\ call'[c].at = call[c].at
                             /\ call'[c].match = call[c].match
                             /\ call'[c].read = call[c].read /\ call'[c].seen = call[c].seen
         /\ UNCHANGED <<stored, index, assigned, lock, known, queryVars, ghostVars, faults>>
         /\ acked = None <=> acked' = None
         /\ \A t \in Tickets : pend'[t] <= PendingTimeout => pend[t] <= PendingTimeout
<1>t. CallTypes /\ StoreTypes
  BY Zenon DEF IInv, TypeOK
<1>1. ASSUME NEW c \in Calls
      PROVE  /\ call'[c].op = call[c].op /\ call'[c].at = call[c].at
             /\ call'[c].match = call[c].match
             /\ call'[c].read = call[c].read /\ call'[c].seen = call[c].seen
  BY <1>t, Zenon DEF CallTypes, CallRecords, Tick
<1>2. acked = None <=> acked' = None
  BY <1>t, BackfillConstants, TTLType DEF StoreTypes, Tick, Capped
<1>3. \A t \in Tickets : pend'[t] <= PendingTimeout => pend[t] <= PendingTimeout
  BY <1>t, BackfillConstants DEF StoreTypes, Tick, Capped
<1> QED BY <1>1, <1>2, <1>3, Zenon DEF Tick

\* Caches find nothing before there is something to find.
LEMMA FirstOther ==
  ASSUME NoFaults, IInv, FirstInv,
         LockExpires \/ QueryAcked \/ QueryIndex \/ QueryFetch \/ Tick \/ UNCHANGED vars
  PROVE  FirstInv'
<1>1. ASSUME \A c \in Calls : call'[c].op = call[c].op /\ call'[c].at = call[c].at
                              /\ call'[c].match = call[c].match,
             UNCHANGED <<stored, known>>, NothingYet => NothingYet'
      PROVE  FirstInv'
  BY <1>1, Zenon DEF FirstInv, Before, Op, At
<1>2. CASE LockExpires
  BY <1>1, <1>2, Zenon DEF LockExpires, NothingYet, queryVars
<1>3. CASE QueryAcked
  <2>1. NothingYet => NothingYet'
    BY <1>3, Zenon DEF QueryAcked, NothingYet, queryFrame, redisVars
  <2> QED BY <1>1, <1>3, <2>1, Zenon DEF QueryAcked, queryFrame, redisVars
<1>4. CASE QueryIndex
  <2>1. NothingYet => NothingYet'
    BY <1>4 DEF QueryIndex, NothingYet, queryFrame, redisVars, NoQuery
  <2> QED BY <1>1, <1>4, <2>1, Zenon DEF QueryIndex, queryFrame, redisVars
<1>5. CASE QueryFetch
  BY <1>1, <1>5, Zenon DEF QueryFetch, NothingYet, queryFrame, redisVars
<1>6. CASE Tick
  BY <1>1, <1>6, TickFrame, Zenon DEF NothingYet, queryVars
<1>7. CASE UNCHANGED vars
  BY <1>1, <1>7, Zenon DEF vars, redisVars, queryVars, NothingYet
<1> QED BY <1>2, <1>3, <1>4, <1>5, <1>6, <1>7, Zenon

\* Where each command leads, when it does not fail.
LEMMA Targets ==
  ASSUME NoFaults, IInv, NEW c \in Calls
  PROVE  /\ Lock(c) => call'[c].at \in {"idle", "hdel", "get"}
         /\ Unlock(c) => call'[c].at \in {"idle", "drop"}
         /\ SetNX(c) => call'[c].at \in {"zadd"}
         /\ Get(c) => call'[c].at \in {"release", "reject", "fail", "check"}
         /\ Check(c) => call'[c].at \in {"zadd", "set", "fail"}
         /\ ZAdd(c) => call'[c].at \in {"hset", "unlock", "assign"}
         /\ Assign(c) => call'[c].at \in {"recheck"}
         /\ Set(c) => call'[c].at \in {"unlock", "release", "hset"}
         /\ Release(c) => call'[c].at \in {"del", "hset"}
         /\ HSet(c) => call'[c].at \in {"idle", "unlock"}
         /\ HDel(c) => call'[c].at \in {"get"}
         /\ Del(c) => call'[c].at \in {"unlock", "zrem"}
         /\ ZRem(c) => call'[c].at \in {"unlock"}
         /\ Drop(c) => call'[c].at \in {"idle"}
<1>t. CallTypes
  BY Zenon DEF IInv, TypeOK
<1>f. ~Fault("store")
  BY Zenon DEF NoFaults, Fault
<1>e. ASSUME Return(c) \/ Abort(c) PROVE call'[c].at = "idle"
  BY <1>e, <1>t, EndFacts, IdleFacts, Zenon DEF Return, Abort, Ends
<1>g. \A w \in Places : Go(c, w) => call'[c].at = w
  BY <1>t, Moves, Zenon
<1>1. ASSUME Lock(c) PROVE call'[c].at \in {"idle", "hdel", "get"}
  BY <1>1, <1>f, <1>e, <1>g, Zenon DEF Lock, Command, Places
<1>2. ASSUME Unlock(c) PROVE call'[c].at \in {"idle", "drop"}
  BY <1>2, <1>f, <1>e, <1>g, Zenon DEF Unlock, Command, Places
<1>3. ASSUME SetNX(c) PROVE call'[c].at \in {"zadd"}
  BY <1>3, <1>f, <1>e, <1>g, Zenon DEF SetNX, Command, Places
<1>4. ASSUME Get(c) PROVE call'[c].at \in {"release", "reject", "fail", "check"}
  <2> DEFINE next == CASE Deletes(c) -> "release"
                       [] ~Deletes(c) /\ Rejected(c) ->
                            IF Op(c) = "fetch" THEN "reject" ELSE "fail"
                       [] OTHER -> "check"
  <2>1. next \in {"release", "reject", "fail", "check"}
    BY Zenon
  <2>2. call' = [call EXCEPT ![c].read = stored, ![c].at = next]
    BY <1>4, <1>f, Zenon DEF Get
  <2> HIDE DEF next
  <2> QED BY <1>t, <2>1, <2>2, Zenon DEF CallTypes, CallRecords
<1>5. ASSUME Check(c) PROVE call'[c].at \in {"zadd", "set", "fail"}
  BY <1>5, <1>f, <1>e, <1>g, Zenon DEF Check, Command, Places
<1>6. ASSUME ZAdd(c) PROVE call'[c].at \in {"hset", "unlock", "assign"}
  BY <1>6, <1>f, <1>e, <1>g, Zenon DEF ZAdd, Command, Places
<1>7. ASSUME Assign(c) PROVE call'[c].at \in {"recheck"}
  BY <1>7, <1>f, <1>e, <1>g, Zenon DEF Assign, Command, Places
<1>8. ASSUME Set(c) PROVE call'[c].at \in {"unlock", "release", "hset"}
  BY <1>8, <1>f, <1>e, <1>g, Zenon DEF Set, Command, Places
<1>9. ASSUME Release(c) PROVE call'[c].at \in {"del", "hset"}
  BY <1>9, <1>f, <1>e, <1>g, Zenon DEF Release, Command, Places
<1>10. ASSUME HSet(c) PROVE call'[c].at \in {"idle", "unlock"}
  BY <1>10, <1>f, <1>e, <1>g, Zenon DEF HSet, Command, Places
<1>11. ASSUME HDel(c) PROVE call'[c].at \in {"get"}
  BY <1>11, <1>f, <1>e, <1>g, Zenon DEF HDel, Command, Places
<1>12. ASSUME Del(c) PROVE call'[c].at \in {"unlock", "zrem"}
  BY <1>12, <1>f, <1>e, <1>g, Zenon DEF Del, Command, Places
<1>13. ASSUME ZRem(c) PROVE call'[c].at \in {"unlock"}
  BY <1>13, <1>f, <1>e, <1>g, Zenon DEF ZRem, Command, Places
<1>14. ASSUME Drop(c) PROVE call'[c].at \in {"idle"}
  BY <1>14, <1>f, <1>e, <1>g, Zenon DEF Drop, Command, Places
<1> QED
  BY <1>1, <1>2, <1>3, <1>4, <1>5, <1>6, <1>7, <1>8, <1>9, <1>10, <1>11, <1>12, <1>13,
    <1>14, Zenon

\* The way of each kind of call through the commands.
OnTrack(r) ==
    /\ r.op \in {"delete", "cleanup"} =>
         r.at \in {"lock", "hdel", "get", "release", "del", "zrem", "unlock"}
    /\ r.op = "update" =>
         r.at \in {"lock", "get", "check", "set", "release", "hset", "unlock", "fail"}
    /\ r.op = "ack" => r.at \in {"lock", "get", "check", "zadd", "assign", "recheck", "set",
                                 "unlock", "fail"}
    /\ r.op = "fetch" => r.at \in {"mmf", "lock", "get", "check", "set", "hset", "unlock",
                                   "reject", "fail", "drop"}
TrackInv == \A c \in Calls : OnTrack(call[c])

\* Commands keep a call on its way.
LEMMA TrackStep ==
  ASSUME NoFaults, IInv, TrackInv, NEW c \in Calls, Step(c)
  PROVE  TrackInv'
<1>t. CallTypes /\ CallsOK
  BY Zenon DEF IInv, TypeOK
<1>o. CallOK(call[c]) /\ OnTrack(call[c])
  BY <1>t, Zenon DEF CallsOK, TrackInv
<1>f. ~Fault("store")
  BY Zenon DEF NoFaults, Fault
<1>s. /\ \A d \in Calls : d # c => call'[d] = call[d]
      /\ call'[c] = Idle \/ call'[c].op = call[c].op
  BY StepFrame, Zenon DEF Same
<1>g. \A w \in Places : Go(c, w) => call'[c].at = w
  BY <1>t, Moves, Zenon
<1>i. OnTrack(Idle)
  BY IdleFacts, Zenon DEF OnTrack
<1> SUFFICES ASSUME call'[c].op = call[c].op PROVE OnTrack(call'[c])
  BY <1>s, <1>i, Zenon DEF TrackInv
<1> USE DEF At, Op
<1>1. CASE Lock(c) /\ call'[c] # Idle
  <2>1. call'[c].at = IF Op(c) \in {"delete", "cleanup"} THEN "hdel" ELSE "get"
    BY <1>1, <1>f, <1>g, <1>t, EndFacts, Zenon DEF Lock, Places, Abort, Ends
  <2> QED BY <1>1, <2>1, <1>o, Zenon DEF Lock, OnTrack
<1>2. CASE Unlock(c) /\ call'[c] # Idle
  BY <1>2, <1>f, <1>g, <1>o, <1>t, EndFacts, Zenon DEF Unlock, OnTrack, Places, Abort,
    Return, Ends
<1>3. CASE SetNX(c)
  BY <1>3, <1>o, Zenon DEF SetNX, CallOK, OnTrack, Creators
<1>4. CASE Get(c)
  <2>1. /\ Deletes(c) => call'[c].at = "release"
        /\ ~Deletes(c) => call'[c].at \in {"reject", "fail", "check"}
        /\ Op(c) # "fetch" => call'[c].at # "reject"
    BY <1>4, <1>f, <1>t DEF Get, CallTypes, CallRecords, Deletes
  <2> QED BY <2>1, <1>4, <1>o, Zenon DEF Get, OnTrack, Deletes
<1>5. CASE Check(c)
  BY <1>5, <1>f, <1>g, <1>o, Zenon DEF Check, OnTrack, Places
<1>6. CASE ZAdd(c)
  BY <1>6, <1>f, <1>g, <1>o, Zenon DEF ZAdd, Command, OnTrack, Places
<1>7. CASE Assign(c)
  BY <1>7, <1>f, <1>g, <1>o, Zenon DEF Assign, Command, OnTrack, Places
<1>8. CASE Set(c)
  <2>1. /\ Op(c) = "ack" => call'[c].at = "unlock"
        /\ Op(c) = "update" => call'[c].at = "release"
        /\ Op(c) = "fetch" => call'[c].at = "hset"
    BY <1>8, <1>f, <1>g DEF Set, Command, Places
  <2> QED BY <2>1, <1>8, <1>o, Zenon DEF Set, OnTrack
<1>9. CASE Release(c)
  BY <1>9, <1>f, <1>g, <1>o, Zenon DEF Release, Command, OnTrack, Places, Deletes
<1>10. CASE HSet(c) /\ call'[c] # Idle
  BY <1>10, <1>f, <1>g, <1>o, <1>t, EndFacts, Zenon DEF HSet, Command, OnTrack,
    Places, Return, Ends, CallOK
<1>11. CASE HDel(c)
  BY <1>11, <1>f, <1>g, <1>o, Zenon DEF HDel, Command, OnTrack, Places
<1>12. CASE Del(c)
  BY <1>12, <1>f, <1>g, <1>o, Zenon DEF Del, Command, OnTrack, Places
<1>13. CASE ZRem(c)
  BY <1>13, <1>f, <1>g, <1>o, Zenon DEF ZRem, Command, OnTrack, Places
<1>14. CASE Drop(c)
  BY <1>14, <1>f, <1>i, <1>t, EndFacts, Zenon DEF Drop, Return, Ends
<1> QED
  BY <1>1, <1>2, <1>3, <1>4, <1>5, <1>6, <1>7, <1>8, <1>9, <1>10, <1>11, <1>12, <1>13,
    <1>14, <1>i, Zenon DEF Step

\* Calls begin on their way.
LEMMA TrackStart ==
  ASSUME IInv, TrackInv, NEW c \in Calls, Start(c) \/ StartCleanup(c)
  PROVE  TrackInv'
<1>0. \A d \in Calls : d # c => call'[d] = call[d]
  BY StartFrame, Zenon
<1>1. CASE call'[c] \in {NewCall("create", "setnx", None), NewCall("new", "mmf", view),
                         NewCall("update", "lock", None), NewCall("ack", "lock", None),
                         NewCall("delete", "lock", None), NewCall("fetch", "mmf", view),
                         NewCall("cleanup", "lock", None)}
  <2>1. OnTrack(call'[c])
    BY <1>1, NewFacts DEF OnTrack
  <2> QED BY <1>0, <2>1, Zenon DEF TrackInv
<1>2. CASE /\ At(c, "mmf") /\ call'[c].op = call[c].op
           /\ call'[c].at = (IF Op(c) = "new" THEN "setnx" ELSE "lock")
  <2>1. Op(c) \in {"fetch", "new"}
    BY <1>2, Zenon DEF IInv, CallsOK, CallOK, At, Op
  <2>2. OnTrack(call'[c])
    BY <1>2, <2>1, Zenon DEF OnTrack, Op
  <2> QED BY <1>0, <2>2, Zenon DEF TrackInv
<1> QED BY StartFrame, <1>1, <1>2, Zenon

\* Nothing else takes it off its way.
LEMMA TrackOther ==
  ASSUME IInv, TrackInv,
         LockExpires \/ QueryAcked \/ QueryIndex \/ QueryFetch \/ Tick \/ UNCHANGED vars
  PROVE  TrackInv'
<1>1. \A c \in Calls : call'[c].op = call[c].op /\ call'[c].at = call[c].at
  BY TickFrame, Zenon DEF LockExpires, QueryAcked, QueryIndex, QueryFetch, queryFrame,
    vars, redisVars, ghostVars
<1> QED BY <1>1, Zenon DEF TrackInv, OnTrack

WayInv == FirstInv /\ TrackInv

\* While nothing fails, the creator of a backfill is alone with it until it is
\* acknowledged, and every call is where its handler goes.
THEOREM WayInvariant ==
  ASSUME NoFaults
  PROVE  Spec => [](IInv /\ SafeInv /\ WayInv)
<1>1. Init => WayInv
  <2> SUFFICES ASSUME Init PROVE WayInv
    BY Zenon
  <2>1. \A c \in Calls : call[c] = Idle
    BY Zenon DEF Init
  <2>2. FirstInv
    BY <2>1, IdleFacts, Zenon DEF Init, FirstInv, NothingYet, NoQuery, Op, At, Creators
  <2>3. TrackInv
    BY <2>1, IdleFacts, Zenon DEF TrackInv, OnTrack
  <2> QED BY <2>2, <2>3, Zenon DEF WayInv
<1>2. IInv /\ SafeInv /\ WayInv /\ [Next]_vars => WayInv'
  <2> SUFFICES ASSUME IInv, SafeInv, WayInv, [Next]_vars PROVE WayInv'
    BY Zenon
  <2>0. FirstInv /\ TrackInv
    BY Zenon DEF WayInv
  <2>1. ASSUME NEW c \in Calls, Step(c) PROVE WayInv'
    BY <2>0, <2>1, FirstStep, TrackStep, Zenon DEF WayInv
  <2>2. ASSUME NEW c \in Calls, Start(c) \/ StartCleanup(c) PROVE WayInv'
    BY <2>0, <2>2, FirstStart, TrackStart, Zenon DEF WayInv
  <2>3. CASE LockExpires \/ QueryAcked \/ QueryIndex \/ QueryFetch \/ Tick \/ UNCHANGED vars
    BY <2>0, <2>3, FirstOther, TrackOther, Zenon DEF WayInv
  <2>4. \A c \in Calls : ~Crash(c)
    BY Zenon DEF Crash, Fault, NoFaults
  <2> QED BY <2>1, <2>2, <2>3, <2>4, Zenon DEF Next
<1>3. NoExpiry
  BY Zenon DEF NoExpiry, NoFaults
<1>4. Spec => [](IInv /\ SafeInv)
  BY <1>3, BackfillInvariant, Zenon
<1> QED BY <1>1, <1>2, <1>4, PTL DEF Spec

-----------------------------------------------------------------------------
(* What queries serve follows what is stored.                               *)

\* A call takes less time than a backfill takes to expire.
Prompt == MaxLag < TTL

\* A backfill that is about to be indexed for the first time is new, and unknown.
Unseen == index = None /\ view = None /\ query.at # "fetch" /\ query.since = None
HSetInv ==
    \A c \in Calls : Op(c) \in Creators /\ At(c, "hset") =>
      /\ acked # None /\ acked <= call[c].lag /\ Unseen
      /\ \A d \in Calls : d # c => Op(d) = "none"
      /\ stored # None /\ stored.gen = FirstGeneration

\* Record, index and acknowledgement times agree between calls, and a call that holds
\* the lock knows how far they are apart.
Cons ==
    /\ index = (IF stored = None THEN None ELSE stored.gen)
    /\ acked = None <=> stored = None
Unindexed == index = None /\ (acked = None <=> stored = None)
Ahead(r) == stored # None /\ acked # None /\ r.read # None /\ stored.gen = r.read.gen + 1

Hold(r) ==
    IF r.op \in {"delete", "cleanup"}
    THEN /\ r.at \in {"hdel", "unlock"} => Cons
         /\ r.at \in {"get", "release", "del"} => Unindexed
         /\ r.at = "zrem" => index = None /\ stored = None
    ELSE IF r.at \in {"release", "hset"} THEN Ahead(r) ELSE Cons

Quiet == \A c \in Calls : ~Holds(c) /\ Op(c) \notin Creators
ConsInv ==
    /\ \A c \in Calls : Holds(c) => Hold(call[c])
    /\ Quiet => Cons

\* The generation a cache update began with is not newer than what it can find.
SinceInv ==
    /\ index # None /\ stored # None => index <= stored.gen
    /\ query.since # None =>
         /\ index # None => query.since <= index
         /\ stored # None => query.since <= stored.gen

\* Commands before the first indexing.
LEMMA HSetStep ==
  ASSUME NoFaults, IInv, SafeInv, FirstInv, TrackInv, HSetInv, NEW c \in Calls, Step(c)
  PROVE  /\ HSetInv'
         /\ \A d \in Calls : d # c => Op(d) \notin Creators
<1>t. CallTypes /\ CallsOK
  BY Zenon DEF IInv, TypeOK
<1>o. CallOK(call[c])
  BY <1>t, Zenon DEF CallsOK
<1>f. ~Fault("store")
  BY Zenon DEF NoFaults, Fault
<1>s. /\ \A d \in Calls : d # c => call'[d] = call[d]
      /\ call'[c] = Idle \/ Same(call[c], call'[c])
      /\ Op(c) # "none" /\ \A d \in Calls : d # c => ~Before(call[d])
      /\ UNCHANGED queryVars
  BY StepFrame, FirstStep, Zenon
<1>1. \A d \in Calls : d # c => Op(d) \notin Creators
  <2>1. \A d \in Calls : d # c /\ Op(d) \in Creators => At(d, "hset")
    BY <1>s, <1>t, Zenon DEF Before, CallsOK, CallOK, Op, At
  <2> QED BY <2>1, <1>s, Zenon DEF HSetInv
<1>2. ASSUME Op(c)' \in Creators, At(c, "hset")'
      PROVE  /\ acked' # None /\ acked' <= call'[c].lag /\ Unseen'
             /\ \A d \in Calls : d # c => Op(d)' = "none"
             /\ stored' # None /\ stored'.gen = FirstGeneration
  <2>1. Same(call[c], call'[c])
    BY <1>2, <1>s, IdleFacts, Zenon DEF Op, Creators
  <2>2. Op(c) \in Creators
    BY <1>2, <2>1, Zenon DEF Same, Op
  <2>3. ZAdd(c)
    <3>1. SetNX(c) \/ ZAdd(c) \/ HSet(c)
      BY <2>2, StepFrame, Zenon
    <3> QED BY <3>1, <1>2, Targets, Zenon DEF At
  <2>4. Before(call[c]) /\ At(c, "zadd")
    BY <2>2, <2>3, Zenon DEF ZAdd, Before, At, Op
  <2>5. acked' = 0 /\ UNCHANGED <<stored, index>>
    BY <2>3, <1>f, Zenon DEF ZAdd, Command
  <2>6. acked' # None /\ acked' <= call'[c].lag
    BY <2>1, <2>5, <1>t, BackfillConstants DEF CallTypes, CallRecords, Same
  <2>7. Unseen'
    BY <2>4, <2>5, <1>s, Zenon DEF FirstInv, NothingYet, Unseen, queryVars
  <2> QED BY <2>4, <2>5, <2>6, <2>7, <1>s, Zenon DEF FirstInv, Op
<1>3. ASSUME NEW d \in Calls, d # c, Op(d)' \in Creators PROVE FALSE
  BY <1>1, <1>3, <1>s, Zenon DEF Op
<1> QED BY <1>1, <1>2, <1>3, Zenon DEF HSetInv

\* A cleanup does not begin before a call that takes at most MaxLag has ended.
LEMMA HSetStart ==
  ASSUME Prompt, IInv, FirstInv, HSetInv, NEW c \in Calls, Start(c) \/ StartCleanup(c)
  PROVE  HSetInv'
<1>t. CallTypes /\ StoreTypes /\ CallsOK
  BY Zenon DEF IInv, TypeOK
<1>0. /\ \A d \in Calls : d # c => call'[d] = call[d]
      /\ UNCHANGED <<stored, index, acked, queryVars>>
  BY StartFrame, Zenon
<1>1. ASSUME NEW d \in Calls, Op(d) \in Creators, At(d, "hset"), d # c
      PROVE  FALSE
  <2>1. known = "creating" /\ view = None
    BY <1>1, Zenon DEF FirstInv, HSetInv, Unseen
  <2>2. ~Expired
    <3>1. acked <= call[d].lag /\ call[d].lag \in 0 .. MaxLag /\ acked \in 0 .. (TTL + 1)
      BY <1>1, <1>t DEF HSetInv, CallTypes, CallRecords, StoreTypes
    <3> QED BY <3>1, TTLType, BackfillConstants DEF Expired, Prompt
  <2>3. ~At(c, "mmf")
    <3>1. Op(c) = "none"
      BY <1>1, Zenon DEF HSetInv
    <3> QED BY <3>1, Zenon DEF FirstInv, At
  <2> QED BY <2>1, <2>2, <2>3, StartFrame, Zenon
<1>2. call'[c].at # "hset"
  BY BeginFacts, Zenon
<1> QED BY <1>0, <1>1, <1>2, Zenon DEF HSetInv, Op, At

\* Caches find nothing before the first indexing; time ages both sides.
LEMMA HSetOther ==
  ASSUME NoFaults, IInv, HSetInv,
         LockExpires \/ QueryAcked \/ QueryIndex \/ QueryFetch \/ Tick \/ UNCHANGED vars
  PROVE  HSetInv'
<1>t. CallTypes /\ StoreTypes
  BY Zenon DEF IInv, TypeOK
<1>1. /\ \A c \in Calls : call'[c].op = call[c].op /\ call'[c].at = call[c].at
      /\ UNCHANGED <<stored, index>>
  BY TickFrame, Zenon DEF LockExpires, QueryAcked, QueryIndex, QueryFetch, queryFrame,
    vars, redisVars
<1>2. Unseen => Unseen'
  <2>1. CASE UNCHANGED <<queryVars, index>>
    BY <2>1, Zenon DEF Unseen, queryVars
  <2>2. CASE QueryAcked
    BY <2>2, Zenon DEF QueryAcked, Unseen, queryFrame, redisVars
  <2>3. CASE QueryIndex
    BY <2>3 DEF QueryIndex, Unseen, queryFrame, redisVars, NoQuery
  <2>4. CASE QueryFetch
    BY <2>4, Zenon DEF QueryFetch, Unseen
  <2> QED BY <1>1, <2>1, <2>2, <2>3, <2>4, TickFrame, Zenon DEF LockExpires, vars
<1>3. ASSUME NEW c \in Calls, At(c, "hset"), acked # None, acked <= call[c].lag
      PROVE  acked' # None /\ acked' <= call'[c].lag
  <2>1. CASE Tick
    <3>1. call'[c].lag = call[c].lag + 1
      BY <1>3, <2>1, <1>t DEF Tick, CallTypes, CallRecords, At
    <3>2. acked \in Nat /\ call[c].lag \in Nat /\ acked' \in Nat /\ acked' <= acked + 1
      BY <1>3, <2>1, <1>t, TTLType, BackfillConstants DEF Tick, Capped, StoreTypes,
        CallTypes, CallRecords
    <3> QED BY <1>3, <3>1, <3>2, BackfillConstants
  <2>2. CASE UNCHANGED <<acked, call>>
    BY <1>3, <2>2, Zenon
  <2> QED
    BY <2>1, <2>2, Zenon DEF LockExpires, QueryAcked, QueryIndex, QueryFetch,
      queryFrame, vars, redisVars
<1> QED BY <1>1, <1>2, <1>3, Zenon DEF HSetInv, Op, At

\* The call that holds the lock decides.
LEMMA ConsHold ==
  ASSUME SafeInv, NEW c \in Calls, Holds(c), \A d \in Calls : d # c => call'[d] = call[d],
         Holds(c)' => Hold(call[c])', ~Holds(c)' => Cons'
  PROVE  ConsInv'
<1>1. \A d \in Calls : d # c => ~Holds(d)'
  BY Alone, Zenon DEF Holds, Op
<1> QED BY <1>1, Zenon DEF ConsInv, Quiet

\* Commands keep record, index and acknowledgement times together.
LEMMA ConsStep ==
  ASSUME NoFaults, IInv, SafeInv, FirstInv, TrackInv, HSetInv, ConsInv, NEW c \in Calls, Step(c)
  PROVE  ConsInv'
<1>t. CallTypes /\ CallsOK /\ StoreTypes
  BY Zenon DEF IInv, TypeOK
<1>o. CallOK(call[c]) /\ OnTrack(call[c]) /\ Op(c) # "none" /\ Op(c) \in Ops
  BY <1>t, FirstStep, Zenon DEF CallsOK, TrackInv, CallTypes, CallRecords, Op
<1>f. ~Fault("store")
  BY Zenon DEF NoFaults, Fault
<1>d. /\ \A d \in Calls : d # c => call'[d] = call[d]
      /\ \A d \in Calls : d # c => Op(d) \notin Creators
  BY StepFrame, HSetStep, Zenon
<1>g. ASSUME NEW w \in Places, Go(c, w)
      PROVE  call'[c].at = w /\ call'[c].op = call[c].op /\ call'[c].read = call[c].read
  BY <1>g, <1>t, Moves, Zenon DEF Same
<1>e. ASSUME Return(c) \/ Abort(c) PROVE call'[c] = Idle
  BY <1>e, <1>t, EndFacts, Zenon DEF Return, Abort, Ends
<1>i. Idle.op = "none" /\ Idle.at = "idle"
  BY IdleFacts, Zenon
<1>h. Holds(c) => Hold(call[c])
  BY Zenon DEF ConsInv
<1>n. ASSUME ~Holds(c), UNCHANGED <<stored, index, acked>>, ~Holds(c)', Op(c) \notin Creators
      PROVE  ConsInv'
  BY <1>n, <1>d, Zenon DEF ConsInv, Quiet, Holds, Hold, Cons, Unindexed, Ahead, Op
<1> USE DEF At, Op
<1>Lock. CASE Lock(c)
  <2>1. UNCHANGED <<stored, index, acked>> /\ ~Holds(c) /\ Op(c) \notin Creators
    BY <1>Lock, <1>o, Zenon DEF Lock, Holds, Outside, CallOK
  <2>2. CASE Abort(c)
    BY <2>1, <2>2, <1>e, <1>i, <1>n, Zenon DEF Holds, Outside
  <2>3. ASSUME Acquire(c), NEW w \in {"hdel", "get"}, Go(c, w), w = "hdel" <=> Deletes(c)
        PROVE  ConsInv'
    <3>1. Quiet
      BY <2>3, <2>1, <1>d, BackfillConstants, Zenon DEF Acquire, Quiet, SafeInv, LockInv
    <3>2. Cons'
      BY <3>1, <2>1, Zenon DEF ConsInv, Cons
    <3>3. call'[c].at = w /\ call'[c].op = call[c].op
      BY <2>3, <1>g, Zenon DEF Places
    <3>4. Hold(call[c])'
      BY <2>3, <3>2, <3>3, Zenon DEF Hold, Deletes
    <3> QED BY <3>1, <3>2, <3>4, <1>d, Zenon DEF ConsInv, Quiet, Holds
  <2> QED BY <1>Lock, <1>f, <2>2, <2>3, Zenon DEF Lock, Deletes
<1>Drop. CASE Drop(c)
  BY <1>Drop, <1>o, <1>f, <1>e, <1>i, <1>n, Zenon DEF Drop, Holds, Outside, CallOK,
    Creators
<1>SetNX. CASE SetNX(c) \/ (ZAdd(c) /\ Op(c) \in Creators)
  <2>1. Before(call[c])
    BY <1>SetNX, <1>o, Zenon DEF SetNX, ZAdd, CallOK, Before
  <2>2. call'[c].op \in Creators
    BY <1>SetNX, <2>1, <1>f, <1>g DEF SetNX, ZAdd, Command, Places, Before, Creators
  <2>3. \A d \in Calls : d # c => Op(d) = "none" /\ At(d, "idle")
    BY <2>1, Zenon DEF FirstInv
  <2> QED BY <2>2, <2>3, <1>d, Zenon DEF ConsInv, Quiet, Holds, Outside, Creators
<1>First. CASE HSet(c) /\ Op(c) \in Creators
  <2>1. /\ index' = FirstGeneration /\ UNCHANGED <<stored, acked>> /\ call'[c] = Idle
    BY <1>First, <1>f, <1>e, Zenon DEF HSet, Command, Creators
  <2>2. /\ acked # None /\ stored # None /\ stored.gen = FirstGeneration
        /\ \A d \in Calls : d # c => Op(d) = "none" /\ At(d, "idle")
    BY <1>First, Zenon DEF HSet, HSetInv, FirstInv
  <2>3. Cons'
    BY <2>1, <2>2, Zenon DEF Cons
  <2> QED BY <2>1, <2>2, <2>3, <1>d, <1>i, Zenon DEF ConsInv, Holds, Outside
<1>Unlock. CASE Unlock(c)
  <2>1. Holds(c) /\ UNCHANGED <<stored, index, acked>>
    BY <1>Unlock, <1>o, Zenon DEF Unlock, Holds, Outside, CallOK, Creators
  <2>2. Cons'
    <3>1. Cons
      BY <1>Unlock, <2>1, <1>h, <1>o, Zenon DEF Unlock, Hold, OnTrack
    <3> QED BY <2>1, <3>1, Zenon DEF Cons
  <2>3. ~Holds(c)'
    BY <1>Unlock, Targets, Zenon DEF Holds, Outside
  <2> QED BY <2>1, <2>2, <2>3, <1>d, ConsHold, Zenon
<1>Get. CASE Get(c)
  <2>1. Holds(c) /\ UNCHANGED <<stored, index, acked>>
    BY <1>Get, <1>o, Zenon DEF Get, Holds, Outside, CallOK, Creators, redisVars
  <2>2. call'[c].op = call[c].op
    BY <1>Get, <1>f, <1>t, Zenon DEF Get, CallTypes, CallRecords
  <2>3. /\ Deletes(c) => call'[c].at = "release"
        /\ ~Deletes(c) => call'[c].at \in {"reject", "fail", "check"}
    BY <1>Get, <1>f, <1>t DEF Get, CallTypes, CallRecords
  <2>4. Hold(call[c])'
    BY <1>Get, <2>1, <2>2, <2>3, <1>h, Zenon DEF Get, Hold, Deletes, Cons, Unindexed
  <2>5. Holds(c)'
    BY <2>1, <2>2, <2>3, Zenon DEF Holds, Outside, Deletes
  <2> QED BY <2>1, <2>4, <2>5, <1>d, ConsHold, Zenon
<1>Check. CASE Check(c)
  <2>1. Holds(c) /\ UNCHANGED <<stored, index, acked>> /\ ~Deletes(c)
    BY <1>Check, <1>o, Zenon DEF Check, Holds, Outside, CallOK, Creators, redisVars,
      OnTrack, Deletes
  <2>2. PICK w \in {"set", "fail", "zadd"} : Go(c, w)
    BY <1>Check, <1>f, Zenon DEF Check
  <2>3. call'[c].op = call[c].op /\ call'[c].at = w
    BY <2>2, <1>g, Zenon DEF Places
  <2>4. Hold(call[c])' /\ Holds(c)'
    BY <1>Check, <2>1, <2>3, <1>h, Zenon DEF Check, Hold, Deletes, Cons, Holds, Outside
  <2> QED BY <2>1, <2>4, <1>d, ConsHold, Zenon
<1>ZAdd. CASE ZAdd(c) /\ Op(c) \notin Creators
  <2>1. Holds(c) /\ UNCHANGED <<stored, index>> /\ acked' = 0 /\ ~Deletes(c)
    BY <1>ZAdd, <1>o, <1>f, Zenon DEF ZAdd, Command, Holds, Outside, Creators,
      OnTrack, Deletes
  <2>2. Cons /\ stored # None
    BY <1>ZAdd, <2>1, <1>h, Zenon DEF ZAdd, Hold, Deletes, SafeInv, ReadInv, Reading
  <2>3. PICK w \in {"unlock", "assign"} : Go(c, w)
    BY <1>ZAdd, <1>o, <1>f, Zenon DEF ZAdd, Command, OnTrack, Ops, Creators
  <2>4. call'[c].op = call[c].op /\ call'[c].at = w
    BY <2>3, <1>g, Zenon DEF Places
  <2>5. Cons'
    BY <2>1, <2>2, BackfillConstants DEF Cons
  <2>6. Hold(call[c])' /\ Holds(c)'
    BY <2>1, <2>4, <2>5, Zenon DEF Hold, Deletes, Holds, Outside
  <2> QED BY <2>1, <2>6, <1>d, ConsHold, Zenon
<1>Assign. CASE Assign(c)
  <2>1. Holds(c) /\ UNCHANGED <<stored, index, acked>> /\ ~Deletes(c) /\ Go(c, "recheck")
    BY <1>Assign, <1>o, <1>f, Zenon DEF Assign, Command, Holds, Outside, CallOK,
      Creators, OnTrack, Deletes
  <2>2. call'[c].op = call[c].op /\ call'[c].at = "recheck"
    BY <2>1, <1>g, Zenon DEF Places
  <2>3. Hold(call[c])' /\ Holds(c)'
    BY <1>Assign, <2>1, <2>2, <1>h, Zenon DEF Assign, Hold, Deletes, Cons, Holds,
      Outside
  <2> QED BY <2>1, <2>3, <1>d, ConsHold, Zenon
<1>Set. CASE Set(c)
  <2>1. Holds(c) /\ UNCHANGED <<index, acked>> /\ stored' = Written(c) /\ ~Deletes(c) /\ Op(c) \notin Creators
    BY <1>Set, <1>o, <1>f, Zenon DEF Set, Command, Holds, Outside, CallOK, Creators,
      OnTrack, Deletes
  <2>2. Cons /\ stored # None /\ call[c].read = stored
    BY <1>Set, <2>1, <1>h, Zenon DEF Set, Hold, Deletes, SafeInv, ReadInv, Reading
  <2>3. /\ call'[c].op = call[c].op /\ call'[c].read = call[c].read
        /\ call'[c].at = CASE Op(c) = "ack" -> "unlock"
                           [] Op(c) = "update" -> "release"
                           [] OTHER -> "hset"
    BY <1>Set, <1>f, <1>g DEF Set, Command, Places
  <2>4. Written(c) \in [gen : Nat, tickets : SUBSET Tickets]
    BY <1>t, <2>2 DEF Written, StoreTypes, Records, Gens, CallTypes, CallRecords
  <2>5. stored' # None /\ acked' # None
    BY <2>1, <2>2, <2>4, BackfillConstants, Zenon DEF Cons
  <2>6. CASE Op(c) = "ack"
    <3>1. stored'.gen = stored.gen
      BY <1>t, <2>1, <2>2, <2>6 DEF Written, StoreTypes, Records, Gens
    <3>2. Cons' /\ call'[c].at = "unlock"
      BY <2>1, <2>2, <2>3, <2>5, <2>6, <3>1 DEF Cons
    <3>3. Hold(call[c])' /\ Holds(c)'
      BY <2>1, <2>3, <3>2, Zenon DEF Hold, Deletes, Holds, Outside
    <3> QED BY <2>1, <3>3, <1>d, ConsHold, Zenon
  <2>7. CASE Op(c) # "ack"
    <3>1. stored'.gen = call'[c].read.gen + 1
      BY <1>t, <2>1, <2>2, <2>3, <2>7 DEF Written, StoreTypes, Records, Gens
    <3>2. call'[c].at \in {"release", "hset"}
      BY <2>3, <2>7
    <3>3. Ahead(call[c])'
      BY <2>2, <2>3, <2>5, <3>1, Zenon DEF Ahead
    <3>4. Hold(call[c])' /\ Holds(c)'
      BY <2>1, <2>3, <3>2, <3>3, Zenon DEF Hold, Deletes, Holds, Outside
    <3> QED BY <2>1, <3>4, <1>d, ConsHold, Zenon
  <2> QED BY <2>6, <2>7, Zenon
<1>Release. CASE Release(c)
  <2>1. Holds(c) /\ UNCHANGED <<stored, index, acked>>
    BY <1>Release, <1>o, Zenon DEF Release, Holds, Outside, CallOK, Creators
  <2>2. PICK w \in {"del", "hset"} : Go(c, w) /\ (w = "del" <=> Deletes(c))
    BY <1>Release, <1>f, Zenon DEF Release, Command
  <2>3. call'[c].op = call[c].op /\ call'[c].at = w /\ call'[c].read = call[c].read
    BY <2>2, <1>g, Zenon DEF Places
  <2>4. Hold(call[c])' /\ Holds(c)'
    BY <1>Release, <2>1, <2>2, <2>3, <1>h, Zenon DEF Release, Hold, Deletes,
      Unindexed, Ahead, Holds, Outside
  <2> QED BY <2>1, <2>4, <1>d, ConsHold, Zenon
<1>HSet. CASE HSet(c) /\ Op(c) \notin Creators
  <2>1. Holds(c) /\ UNCHANGED <<stored, acked>> /\ index' = Written(c).gen /\ Go(c, "unlock") /\ ~Deletes(c) /\ Op(c) # "ack"
    BY <1>HSet, <1>o, <1>f, Zenon DEF HSet, Command, Holds, Outside, Creators,
      OnTrack, Deletes
  <2>2. Ahead(call[c])
    BY <1>HSet, <2>1, <1>h, Zenon DEF HSet, Hold, Deletes
  <2>3. index' = stored.gen
    BY <2>1, <2>2 DEF Ahead, Written
  <2>4. Cons'
    BY <2>1, <2>2, <2>3, Zenon DEF Cons, Ahead
  <2>5. call'[c].op = call[c].op /\ call'[c].at = "unlock"
    BY <2>1, <1>g, Zenon DEF Places
  <2>6. Hold(call[c])' /\ Holds(c)'
    BY <2>1, <2>4, <2>5, Zenon DEF Hold, Deletes, Holds, Outside
  <2> QED BY <2>1, <2>6, <1>d, ConsHold, Zenon
<1>HDel. CASE HDel(c)
  <2>1. Holds(c) /\ UNCHANGED <<stored, acked>> /\ index' = None /\ Go(c, "get") /\ Deletes(c)
    BY <1>HDel, <1>o, <1>f, Zenon DEF HDel, Command, Holds, Outside, Creators,
      OnTrack, Deletes, CallOK, Ops
  <2>2. Unindexed'
    BY <1>HDel, <2>1, <1>h, Zenon DEF HDel, Hold, Deletes, Cons, Unindexed
  <2>3. call'[c].op = call[c].op /\ call'[c].at = "get"
    BY <2>1, <1>g, Zenon DEF Places
  <2>4. Hold(call[c])' /\ Holds(c)'
    BY <2>1, <2>2, <2>3, Zenon DEF Hold, Deletes, Holds, Outside
  <2> QED BY <2>1, <2>4, <1>d, ConsHold, Zenon
<1>Del. CASE Del(c)
  <2>1. Holds(c) /\ UNCHANGED <<index, acked>> /\ stored' = None /\ Deletes(c)
        /\ Go(c, IF stored = None THEN "unlock" ELSE "zrem")
    BY <1>Del, <1>o, <1>f, Zenon DEF Del, Command, Holds, Outside, Creators, OnTrack,
      Deletes, CallOK, Ops
  <2>2. Unindexed
    BY <1>Del, <2>1, <1>h, Zenon DEF Del, Hold, Deletes
  <2>3. call'[c].op = call[c].op /\ call'[c].at = IF stored = None THEN "unlock" ELSE "zrem"
    BY <2>1, <1>g, Zenon DEF Places
  <2>4. Hold(call[c])' /\ Holds(c)'
    BY <2>1, <2>2, <2>3, Zenon DEF Hold, Deletes, Holds, Outside, Unindexed, Cons
  <2> QED BY <2>1, <2>4, <1>d, ConsHold, Zenon
<1>ZRem. CASE ZRem(c)
  <2>1. Holds(c) /\ UNCHANGED <<index, stored>> /\ acked' = None /\ Deletes(c) /\ Go(c, "unlock")
    BY <1>ZRem, <1>o, <1>f, Zenon DEF ZRem, Command, Holds, Outside, Creators,
      OnTrack, Deletes, CallOK, Ops
  <2>2. index = None /\ stored = None
    BY <1>ZRem, <2>1, <1>h, Zenon DEF ZRem, Hold, Deletes
  <2>3. call'[c].op = call[c].op /\ call'[c].at = "unlock"
    BY <2>1, <1>g, Zenon DEF Places
  <2>4. Hold(call[c])' /\ Holds(c)'
    BY <2>1, <2>2, <2>3, Zenon DEF Hold, Deletes, Holds, Outside, Cons
  <2> QED BY <2>1, <2>4, <1>d, ConsHold, Zenon
<1> QED
  BY <1>Lock, <1>Unlock, <1>SetNX, <1>First, <1>Check, <1>ZAdd, <1>Assign, <1>Set,
    <1>Release,
    <1>HSet, <1>HDel, <1>Del, <1>ZRem, <1>Drop, <1>Get, Zenon DEF Step

\* A call that begins, or has its tickets pended, changes nothing that is shared.
LEMMA ConsStart ==
  ASSUME IInv, ConsInv, SinceInv, NEW c \in Calls, Start(c) \/ StartCleanup(c)
  PROVE  ConsInv' /\ SinceInv'
<1>0. /\ \A d \in Calls : d # c => call'[d] = call[d]
      /\ UNCHANGED <<stored, index, acked, query>>
  BY StartFrame, Zenon DEF queryVars
<1>1. call'[c].at \in {"mmf", "setnx", "lock"} /\ (Op(c) = "none" \/ call'[c].op = call[c].op)
  BY BeginFacts, IdleFacts, Zenon DEF Op
<1>2. ~Holds(c) /\ ~Holds(c)'
  BY <1>1, BeginFacts, Zenon DEF Holds, Outside
<1>3. Quiet' => Quiet
  BY <1>0, <1>1, <1>2, Zenon DEF Quiet, Holds, Op, Creators
<1>4. ConsInv'
  BY <1>0, <1>2, <1>3, Zenon DEF ConsInv, Holds, Hold, Cons, Unindexed, Ahead, Op
<1> QED BY <1>0, <1>4, Zenon DEF SinceInv

\* Neither do caches, nor time.
LEMMA ConsOther ==
  ASSUME IInv, NoFaults, ConsInv, SinceInv,
         LockExpires \/ QueryAcked \/ QueryIndex \/ QueryFetch \/ Tick \/ UNCHANGED vars
  PROVE  ConsInv' /\ SinceInv'
<1>1. /\ \A c \in Calls : call'[c].op = call[c].op /\ call'[c].at = call[c].at
                          /\ call'[c].read = call[c].read
      /\ UNCHANGED <<stored, index>> /\ (acked = None <=> acked' = None)
  BY TickFrame, Zenon DEF LockExpires, QueryAcked, QueryIndex, QueryFetch, queryFrame,
    vars, redisVars
<1>2. ConsInv'
  <2>1. \A c \in Calls : Holds(c)' <=> Holds(c)
    BY <1>1, Zenon DEF Holds, Op
  <2>2. /\ (Cons <=> Cons') /\ (Unindexed => Unindexed')
        /\ \A c \in Calls : Ahead(call[c]) => Ahead(call[c])'
    BY <1>1, Zenon DEF Cons, Unindexed, Ahead
  <2>3. \A c \in Calls : Hold(call[c]) => Hold(call[c])'
    BY <1>1, <2>2, Zenon DEF Hold
  <2>4. Quiet' => Quiet
    BY <1>1, <2>1, Zenon DEF Quiet, Op
  <2> QED BY <2>1, <2>2, <2>3, <2>4, Zenon DEF ConsInv
<1>3. query' = query \/ query'.since \in {None, query.since, index}
  <2>1. CASE QueryAcked
    BY <2>1 DEF QueryAcked
  <2>2. CASE QueryIndex
    BY <2>2 DEF QueryIndex, NoQuery, IInv, TypeOK, OtherTypes
  <2>3. CASE QueryFetch
    BY <2>3 DEF QueryFetch, NoQuery
  <2> QED BY <2>1, <2>2, <2>3, TickFrame, Zenon DEF LockExpires, queryVars, vars
<1>4. index # None => index \in Nat
  BY DEF IInv, TypeOK, StoreTypes, Gens
<1>5. CASE query' = query \/ query'.since \in {None, query.since}
  BY <1>1, <1>2, <1>5, Zenon DEF SinceInv
<1>6. CASE query'.since = index
  BY <1>1, <1>2, <1>4, <1>6 DEF SinceInv
<1> QED BY <1>2, <1>3, <1>5, <1>6, Zenon

\* Generations never go back while the record is there.
LEMMA SinceStep ==
  ASSUME NoFaults, IInv, SafeInv, FirstInv, TrackInv, HSetInv, ConsInv, SinceInv,
         NEW c \in Calls, Step(c)
  PROVE  SinceInv'
<1>t. CallTypes /\ CallsOK /\ StoreTypes
  BY Zenon DEF IInv, TypeOK
<1>o. CallOK(call[c]) /\ OnTrack(call[c])
  BY <1>t, Zenon DEF CallsOK, TrackInv
<1>f. ~Fault("store")
  BY Zenon DEF NoFaults, Fault
<1>q. query' = query
  BY StepFrame, Zenon DEF queryVars
<1>g. (stored # None => stored.gen \in Nat) /\ (query.since # None => query.since \in Nat)
  BY <1>t DEF StoreTypes, Records, Gens, IInv, TypeOK, OtherTypes
<1> USE DEF At, Op
<1>1. CASE SetNX(c)
  <2>1. index = None /\ query.since = None /\ UNCHANGED index
    BY <1>1, <1>o, Zenon DEF SetNX, CallOK, FirstInv, Before, NothingYet
  <2> QED BY <1>q, <2>1, Zenon DEF SinceInv
<1>2. CASE Set(c)
  <2>1. stored # None /\ call[c].read = stored /\ stored' = Written(c) /\ UNCHANGED index
    BY <1>2, <1>o, <1>f, Zenon DEF Set, Command, CallOK, Creators, SafeInv, ReadInv,
      Reading
  <2>2. stored'.gen \in Nat /\ stored'.gen >= stored.gen
    BY <2>1, <1>g DEF Written
  <2>3. index # None => index \in Nat
    BY <1>t DEF StoreTypes, Gens
  <2> QED BY <1>q, <1>g, <2>1, <2>2, <2>3 DEF SinceInv
<1>3. CASE HSet(c) /\ Op(c) \in Creators
  <2>1. index' = stored.gen /\ UNCHANGED stored /\ query.since = None /\ stored # None
    BY <1>3, <1>f, Zenon DEF HSet, Command, Creators, HSetInv, Unseen
  <2> QED BY <2>1, <1>q, <1>g DEF SinceInv
<1>4. CASE HSet(c) /\ Op(c) \notin Creators
  <2>1. Holds(c) /\ UNCHANGED stored /\ index' = Written(c).gen /\ ~Deletes(c) /\ Op(c) # "ack"
    BY <1>4, <1>o, <1>f, Zenon DEF HSet, Command, Holds, Outside, Creators, OnTrack,
      Deletes
  <2>2. Ahead(call[c])
    BY <1>4, <2>1, Zenon DEF HSet, Hold, Deletes, ConsInv
  <2>3. index' = stored.gen /\ stored # None
    BY <2>1, <2>2 DEF Ahead, Written
  <2> QED BY <2>1, <2>3, <1>q, <1>g DEF SinceInv
<1>5. CASE HDel(c)
  BY <1>5, <1>f, <1>q, Zenon DEF HDel, Command, SinceInv
<1>6. CASE Del(c)
  BY <1>6, <1>f, <1>q, Zenon DEF Del, Command, SinceInv
<1>7. CASE UNCHANGED <<stored, index>>
  BY <1>7, <1>q, Zenon DEF SinceInv
<1> QED
  BY <1>1, <1>2, <1>3, <1>4, <1>5, <1>6, <1>7, StepTouches, Zenon DEF SetNX, Set, Del,
    HSet, HDel

ServeInv == HSetInv /\ ConsInv /\ SinceInv

\* The invariant behind what queries are served.
THEOREM ServeInvariant ==
  ASSUME NoFaults, Prompt
  PROVE  Spec => [](IInv /\ SafeInv /\ WayInv /\ ServeInv)
<1>1. Init => ServeInv
  <2> SUFFICES ASSUME Init PROVE ServeInv
    BY Zenon
  <2>1. \A c \in Calls : Op(c) = "none" /\ At(c, "idle")
    BY IdleFacts, Zenon DEF Init, Op, At
  <2>2. HSetInv /\ SinceInv
    BY <2>1, Zenon DEF Init, HSetInv, SinceInv, Creators, NoQuery
  <2>3. ConsInv
    BY <2>1, Zenon DEF Init, ConsInv, Cons, Holds, Outside, At
  <2> QED BY <2>2, <2>3, Zenon DEF ServeInv
<1>2. IInv /\ SafeInv /\ WayInv /\ ServeInv /\ [Next]_vars => ServeInv'
  <2> SUFFICES ASSUME IInv, SafeInv, WayInv, ServeInv, [Next]_vars PROVE ServeInv'
    BY Zenon
  <2>0. FirstInv /\ TrackInv /\ HSetInv /\ ConsInv /\ SinceInv
    BY Zenon DEF WayInv, ServeInv
  <2>1. ASSUME NEW c \in Calls, Step(c) PROVE ServeInv'
    BY <2>0, <2>1, HSetStep, ConsStep, SinceStep, Zenon DEF ServeInv
  <2>2. ASSUME NEW c \in Calls, Start(c) \/ StartCleanup(c) PROVE ServeInv'
    BY <2>0, <2>2, HSetStart, ConsStart, Zenon DEF ServeInv
  <2>3. CASE LockExpires \/ QueryAcked \/ QueryIndex \/ QueryFetch \/ Tick \/ UNCHANGED vars
    BY <2>0, <2>3, HSetOther, ConsOther, Zenon DEF ServeInv
  <2>4. \A c \in Calls : ~Crash(c)
    BY Zenon DEF Crash, Fault, NoFaults
  <2> QED BY <2>1, <2>2, <2>3, <2>4, Zenon DEF Next
<1>3. Spec => [](IInv /\ SafeInv /\ WayInv)
  BY WayInvariant, Zenon
<1> QED BY <1>1, <1>2, <1>3, PTL DEF Spec

\* While nothing fails, and calls take less time than a backfill takes to expire, what
\* queries serve follows what is stored.
THEOREM Served ==
  ASSUME NoFaults, Prompt
  PROVE  Spec => ServedFollowsStored
<1>1. ServeInv => IndexFollowsRecord
  <2> SUFFICES ASSUME ServeInv, \A c \in Calls : ~Holds(c) /\ Op(c) \notin {"create", "new"}
               PROVE  Cons
    BY Zenon DEF IndexFollowsRecord, Cons
  <2> QED BY Zenon DEF ServeInv, ConsInv, Quiet, Creators
<1> DEFINE Recent == query.at # "idle" /\ query'.at = "idle" /\ query.since # None /\ view' # None
                       /\ faults' = faults => view' >= query.since
<1>2. IInv /\ SafeInv /\ WayInv /\ ServeInv /\ [Next]_vars => [Recent]_vars
  <2> SUFFICES ASSUME IInv, ServeInv, Next, query.at # "idle", query'.at = "idle",
                      query.since # None, view' # None
               PROVE  view' >= query.since
    BY Zenon
  <2>t. /\ view \in Gens \cup {None} /\ index \in Gens \cup {None} /\ query.since \in Gens
        /\ stored \in Records \cup {None}
    BY DEF IInv, TypeOK, OtherTypes, StoreTypes
  <2>f. ~Fault("store")
    BY Zenon DEF NoFaults, Fault
  <2>i. SinceInv
    BY Zenon DEF ServeInv
  <2>1. CASE QueryIndex
    <3>1. CASE query.at = "live" /\ view # None /\ index # None /\ ~(view < index) /\ view' = view
      BY <3>1, <2>t, <2>i DEF SinceInv, Gens
    <3>2. CASE view' = None \/ query'.at = "fetch"
      BY <3>2
    <3> DEFINE gen == IF query.at = "live" THEN index ELSE None
               kept == IF view = None \/ Outdated(gen) THEN None ELSE view
    <3>3. view' = kept
      BY <2>1, <2>f, Zenon DEF QueryIndex
    <3> QED BY <3>1, <3>2, <3>3, Zenon DEF Outdated
  <2>2. CASE QueryFetch
    <3>1. stored # None /\ view' = stored.gen
      BY <2>2, <2>f, Zenon DEF QueryFetch
    <3> QED BY <3>1, <2>t, <2>i DEF SinceInv, Gens, Records
  <2>3. CASE UNCHANGED queryVars
    BY <2>3, Zenon DEF queryVars
  <2>4. ~QueryAcked
    BY Zenon DEF QueryAcked
  <2>5. \A c \in Calls : ~Crash(c)
    BY Zenon DEF Crash, Fault, NoFaults
  <2> QED
    BY <2>1, <2>2, <2>3, <2>4, <2>5, StepFrame, StartFrame, TickFrame, Zenon DEF Next,
      LockExpires
<1> HIDE DEF Recent
<1>3. Spec => [](IInv /\ SafeInv /\ WayInv /\ ServeInv)
  BY ServeInvariant, Zenon
<1>4. Spec => []IndexFollowsRecord
  BY <1>1, <1>3, PTL
<1>5. Spec => [][Recent]_vars
  BY <1>2, <1>3, PTL DEF Spec
<1> QED BY <1>4, <1>5, PTL DEF ServedFollowsStored, ServedIsRecent, Recent
==============================================================================
