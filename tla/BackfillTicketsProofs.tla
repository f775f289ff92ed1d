------------------------ MODULE BackfillTicketsProofs ------------------------
(***************************************************************************)
(* Proofs about the tickets of Backfills, while nothing fails: none stays  *)
(* pending for nothing; and those an acknowledgement assigns are still     *)
(* pending, when a call ends within half of what is left of the pending    *)
(* release timeout at the expiry of a backfill.                            *)
(***************************************************************************)
EXTENDS BackfillsProofs

\* Where a call has the tickets of its match in hand: until the backfill has them,
\* or they are released.
Carries(r) ==
    \/ r.op \in Creators /\ r.at \in {"setnx", "zadd"}
    \/ r.op = "fetch"
         /\ r.at \in {"lock", "get", "check", "set", "reject", "drop", "fail"}

\* The tickets that wait for a call: of its match, or those an update has taken out
\* of the backfill and is about to release.
Has(r) == (IF Carries(r) THEN r.match ELSE {})
          \cup (IF r.op = "update" /\ r.at = "release" THEN r.read.tickets ELSE {})

\* A record counts until its deletion has released its tickets.
Deleting(r) == r.op \in {"delete", "cleanup"} /\ r.at = "del"
Live == stored # None /\ \A c \in Calls : ~Deleting(call[c])

\* An idle call has nothing.
LEMMA IdleHands == ~Carries(Idle) /\ ~Deleting(Idle) /\ Has(Idle) = {}
BY Zenon DEF Idle, NewCall, Carries, Deleting, Has, Creators

\* A deletion releases the tickets that are stored, and an acknowledgement goes on
\* to write only when it has assigned what it read.
ReleaseInv ==
    /\ \A c \in Calls : Deletes(c) /\ At(c, "release") => call[c].read = stored
    /\ \A c \in Calls : Op(c) = "ack" /\ call[c].at \in {"recheck", "set"} =>
         call[c].read.tickets \subseteq assigned

\* Commands keep it: whoever changes the record has the lock.
LEMMA ReleaseStep ==
  ASSUME NoFaults, IInv, SafeInv, FirstInv, ReleaseInv, NEW c \in Calls, Step(c)
  PROVE  ReleaseInv'
<1>t. CallTypes /\ CallsOK
  BY Zenon DEF IInv, TypeOK
<1>o. CallOK(call[c])
  BY <1>t, Zenon DEF CallsOK
<1>f. ~Fault("store")
  BY Zenon DEF NoFaults, Fault
<1>s. /\ \A d \in Calls : d # c => call'[d] = call[d]
      /\ call'[c] = Idle \/ Same(call[c], call'[c])
  BY StepFrame, Zenon
<1>1. ASSUME NEW d \in Calls, d # c, Deletes(d), At(d, "release") PROVE UNCHANGED stored
  <2>1. Holds(d) /\ Op(d) # "none"
    BY <1>1, Zenon DEF Holds, Outside, Deletes, At, Op
  <2>2. ~Holds(c)
    BY <1>1, <2>1, Alone, Zenon
  <2>3. SetNX(c) => Before(call[c])
    BY <1>o, Zenon DEF SetNX, At, CallOK, Before
  <2>4. Set(c) \/ Del(c) => Holds(c)
    BY <1>o, Zenon DEF Set, Del, At, CallOK, Holds, Outside, Op, Creators
  <2> QED BY <1>1, <2>1, <2>2, <2>3, <2>4, StepTouches, Zenon DEF FirstInv
<1>2. assigned \subseteq assigned'
  BY StepTouches, <1>f, Zenon DEF Assign, Command
<1>3. ASSUME Deletes(c)', At(c, "release")' PROVE call'[c].read = stored'
  <2>1. Deletes(c) /\ call'[c] # Idle
    BY <1>3, <1>s, IdleFacts, IdleHands, Zenon DEF Deletes, Op, Same
  <2>2. Get(c) \/ Set(c)
    BY <1>3, Targets, Zenon DEF Step, At
  <2>3. ~Set(c)
    BY <1>3, <2>1, <1>f, <1>t, Moves, Zenon DEF Set, Command, Deletes, At, Places, Op
  <2> QED BY <2>2, <2>3, <1>f, <1>t, Zenon DEF Get, CallTypes, CallRecords, redisVars
<1>4. ASSUME Op(c)' = "ack", call'[c].at \in {"recheck", "set"}
      PROVE  call'[c].read.tickets \subseteq assigned'
  <2>1. Op(c) = "ack"
    BY <1>4, <1>s, IdleFacts, IdleHands, Zenon DEF Op, Same
  <2>2. Assign(c) \/ Check(c)
    BY <1>4, Targets, Zenon DEF Step
  <2>3. CASE Assign(c)
    BY <2>3, <1>f, <1>t, Moves, Zenon DEF Assign, Command, Places
  <2>4. CASE Check(c)
    <3>1. At(c, "check") => call'[c].at \in {"zadd", "fail"}
      BY <2>1, <2>4, <1>f, <1>t, Moves, Zenon DEF Check, Places
    <3>2. At(c, "recheck")
      BY <1>4, <3>1, <2>4, Zenon DEF Check, At
    <3>3. call'[c].read = call[c].read
      BY <2>4, <1>f, <1>t, Moves, Zenon DEF Check, Places
    <3> QED BY <2>1, <3>2, <3>3, <1>2, Zenon DEF ReleaseInv, At
  <2> QED BY <2>2, <2>3, <2>4, Zenon
<1> QED BY <1>1, <1>2, <1>3, <1>4, <1>s, Zenon DEF ReleaseInv, Deletes, At, Op

\* A ticket that is pending, and neither assigned nor left behind by a failure.
Wants(t) == Pending(t) /\ t \notin assigned /\ t \notin aborted

\* Such a ticket is in the record, or a call has it.
OwnedInv ==
    \A t \in Tickets : Wants(t) =>
      (Live /\ t \in stored.tickets) \/ \E c \in Calls : t \in Has(call[c])

\* It is enough to follow the tickets of the record and of the call that moves.
LEMMA OwnedMove ==
  ASSUME OwnedInv, NEW c \in Calls, \A d \in Calls : d # c => call'[d] = call[d],
         \A t \in Tickets : Wants(t)' => Wants(t) \/ t \in Has(call'[c]),
         \A t \in Tickets : Wants(t)' /\ Live /\ t \in stored.tickets =>
           (stored' # None /\ ~Deleting(call'[c]) /\ t \in stored'.tickets) \/ t \in Has(call'[c]),
         \A t \in Tickets : Wants(t)' /\ t \in Has(call[c]) =>
           (Live' /\ t \in stored'.tickets) \/ t \in Has(call'[c])
  PROVE  OwnedInv'
<1> SUFFICES ASSUME NEW t \in Tickets, Wants(t)'
             PROVE  (Live' /\ t \in stored'.tickets) \/ \E d \in Calls : t \in Has(call'[d])
  BY Zenon DEF OwnedInv
<1>1. CASE t \in Has(call'[c])
  BY <1>1, Zenon
<1>2. CASE Live /\ t \in stored.tickets
  BY <1>2, Zenon DEF Live
<1>3. CASE \E d \in Calls : t \in Has(call[d])
  <2>1. PICK d \in Calls : t \in Has(call[d])
    BY <1>3, Zenon
  <2>2. CASE d = c
    BY <2>1, <2>2, Zenon
  <2>3. CASE d # c
    <3>1. call'[d] = call[d]
      BY <2>3, Zenon
    <3> QED BY <3>1, <2>1, Zenon
  <2> QED BY <2>2, <2>3, Zenon
<1> QED BY <1>1, <1>2, <1>3, Zenon DEF OwnedInv

\* A call that keeps its tickets, or has none, and leaves the record and the tickets.
LEMMA OwnedKeep ==
  ASSUME OwnedInv, NEW c \in Calls, \A d \in Calls : d # c => call'[d] = call[d],
         UNCHANGED <<stored, pend>>, assigned \subseteq assigned', aborted \subseteq aborted',
         ~Deleting(call'[c]),
         \A t \in Has(call[c]) : t \in aborted' \/ t \in Has(call'[c])
  PROVE  OwnedInv'
<1>1. \A t \in Tickets : Wants(t)' => Wants(t)
  BY Zenon DEF Wants, Pending
<1>2. \A t \in Tickets : Wants(t)' => t \notin aborted'
  BY Zenon DEF Wants
<1> QED BY <1>1, <1>2, OwnedMove, Zenon DEF Live

\* Every command keeps each pending ticket with someone.
LEMMA OwnedStep ==
  ASSUME NoFaults, IInv, SafeInv, FirstInv, TrackInv, ReleaseInv, OwnedInv, NEW c \in Calls, Step(c)
  PROVE  OwnedInv'
<1>t. CallTypes /\ CallsOK /\ StoreTypes
  BY Zenon DEF IInv, TypeOK
<1>o. CallOK(call[c]) /\ OnTrack(call[c]) /\ call[c].match \subseteq Tickets
  BY <1>t, Zenon DEF CallsOK, TrackInv, CallTypes, CallRecords
<1>f. ~Fault("store")
  BY Zenon DEF NoFaults, Fault
<1>d. \A d \in Calls : d # c => call'[d] = call[d]
  BY StepFrame, Zenon
<1>g. ASSUME NEW w \in Places, Go(c, w)
      PROVE  /\ call'[c].at = w /\ call'[c].op = call[c].op /\ call'[c].match = call[c].match
             /\ call'[c].read = call[c].read
  BY <1>g, <1>t, Moves, Zenon DEF Same
<1>e. ASSUME Return(c) \/ Abort(c) PROVE call'[c] = Idle
  BY <1>e, <1>t, EndFacts, Zenon DEF Return, Abort, Ends
<1>h. ASSUME Holds(c) PROVE \A d \in Calls : d # c => ~Deleting(call[d])
  BY <1>h, Alone, Zenon DEF Deleting, Holds, Outside, Op
<1> USE DEF At, Op
<1>Lock. CASE Lock(c)
  <2>1. UNCHANGED <<stored, pend, assigned>>
    BY <1>Lock, Zenon DEF Lock
  <2>2. CASE Abort(c)
    BY <1>Lock, <2>1, <2>2, <1>d, <1>e, IdleFacts, IdleHands, OwnedKeep, Zenon DEF Abort, Has, Lock
  <2>3. ASSUME NEW w \in {"hdel", "get"}, Go(c, w), w = "hdel" => Deletes(c), UNCHANGED aborted
        PROVE  OwnedInv'
    <3>1. /\ call'[c].at = w /\ call'[c].op = call[c].op /\ call'[c].match = call[c].match
      BY <2>3, <1>g, Zenon DEF Places
    <3>2. ~Deleting(call'[c]) /\ \A t \in Has(call[c]) : t \in Has(call'[c])
      BY <1>Lock, <2>3, <3>1, Zenon DEF Has, Carries, Deleting, Lock, Deletes, Creators
    <3> QED BY <2>1, <2>3, <3>2, <1>d, OwnedKeep, Zenon
  <2> QED BY <1>Lock, <1>f, <2>2, <2>3, Zenon DEF Lock, Deletes
<1>Unlock. CASE Unlock(c)
  <2>1. UNCHANGED <<stored, pend, assigned>>
    BY <1>Unlock, Zenon DEF Unlock
  <2>2. CASE At(c, "unlock") /\ Return(c)
    BY <2>1, <2>2, <1>d, <1>e, IdleFacts, IdleHands, OwnedKeep, Zenon DEF Return, Has, Carries
  <2>3. CASE At(c, "fail") /\ Abort(c)
    BY <2>1, <2>3, <1>d, <1>e, IdleFacts, IdleHands, OwnedKeep, Zenon DEF Abort, Has
  <2>4. CASE At(c, "reject") /\ Go(c, "drop") /\ UNCHANGED aborted
    <3>1. /\ call'[c].at = "drop" /\ call'[c].op = call[c].op /\ call'[c].match = call[c].match
      BY <2>4, <1>g, Zenon DEF Places
    <3>2. ~Deleting(call'[c]) /\ \A t \in Has(call[c]) : t \in Has(call'[c])
      BY <2>4, <3>1, Zenon DEF Has, Carries, Deleting
    <3> QED BY <2>1, <2>4, <3>2, <1>d, OwnedKeep, Zenon
  <2> QED BY <1>Unlock, <2>2, <2>3, <2>4, Zenon DEF Unlock
<1>SetNX. CASE SetNX(c)
  <2>1. /\ UNCHANGED <<pend, assigned, aborted>> /\ Go(c, "zadd")
        /\ stored = None
    BY <1>SetNX, <1>f, <1>o, Zenon DEF SetNX, Command, CallOK, SafeInv, CreateInv
  <2>2. call'[c].at = "zadd" /\ call'[c].op = call[c].op /\ call'[c].match = call[c].match
    BY <2>1, <1>g, Zenon DEF Places
  <2>3. \A t \in Has(call[c]) : t \in Has(call'[c])
    BY <1>SetNX, <2>2, <1>o, Zenon DEF SetNX, CallOK, Has, Carries
  <2>4. \A t \in Tickets : Wants(t)' => Wants(t)
    BY <2>1, Zenon DEF Wants, Pending
  <2> QED BY <2>1, <2>3, <2>4, <1>d, OwnedMove, Zenon DEF Live
<1>Get. CASE Get(c)
  <2>1. UNCHANGED <<stored, pend, assigned, aborted>>
    BY <1>Get, Zenon DEF Get, redisVars, ghostVars
  <2>2. call'[c].op = call[c].op /\ call'[c].match = call[c].match
    BY <1>Get, <1>f, <1>t, Zenon DEF Get, CallTypes, CallRecords
  <2>3. call'[c].at \in {"release", "reject", "fail", "check"}
    BY <1>Get, Targets, Zenon
  <2>4. Op(c) = "fetch" => call'[c].at # "release"
    BY <1>Get, <1>f, <1>t DEF Get, CallTypes, CallRecords, Deletes
  <2>5. ~Deleting(call'[c]) /\ \A t \in Has(call[c]) : t \in Has(call'[c])
    BY <1>Get, <1>o, <2>2, <2>3, <2>4, Zenon DEF Has, Carries, Deleting, Get, Creators
  <2> QED BY <2>1, <2>5, <1>d, OwnedKeep, Zenon
<1>Check. CASE Check(c)
  <2>1. UNCHANGED <<stored, pend, assigned, aborted>>
    BY <1>Check, Zenon DEF Check, redisVars, ghostVars
  <2>2. PICK w \in Places : Go(c, w) /\ (w \in {"set", "fail"} \/ (w = "zadd" /\ Op(c) = "ack"))
    BY <1>Check, <1>f, Zenon DEF Check, Places
  <2>3. /\ call'[c].at = w /\ call'[c].op = call[c].op /\ call'[c].match = call[c].match
    BY <2>2, <1>g, Zenon
  <2>4. ~Deleting(call'[c]) /\ \A t \in Has(call[c]) : t \in Has(call'[c])
    BY <1>Check, <2>2, <2>3, Zenon DEF Has, Carries, Deleting, Check
  <2> QED BY <2>1, <2>4, <1>d, OwnedKeep, Zenon
<1>ZAdd. CASE ZAdd(c)
  <2>1. UNCHANGED <<stored, pend, assigned, aborted>>
    BY <1>ZAdd, <1>f, Zenon DEF ZAdd, Command
  <2>2. call'[c].at \in {"hset", "unlock", "assign"}
    BY <1>ZAdd, Targets, Zenon
  <2>3. \A t \in Tickets : Wants(t)' => Wants(t)
    BY <2>1, Zenon DEF Wants, Pending
  <2>4. ~Deleting(call'[c])
    BY <2>2, Zenon DEF Deleting
  <2>5. ASSUME NEW t \in Has(call[c]) PROVE Live' /\ t \in stored'.tickets
    <3>1. Before(call[c]) /\ t \in call[c].match
      BY <1>ZAdd, Zenon DEF ZAdd, Has, Carries, Before
    <3>2. /\ stored # None /\ stored.tickets = call[c].match
          /\ \A d \in Calls : d # c => Op(d) = "none"
      BY <1>ZAdd, <3>1, Zenon DEF FirstInv, ZAdd
    <3> QED BY <2>1, <2>4, <3>1, <3>2, <1>d, Zenon DEF Live, Deleting
  <2> QED BY <2>1, <2>3, <2>4, <2>5, <1>d, OwnedMove, Zenon DEF Live
<1>Assign. CASE Assign(c)
  <2>1. UNCHANGED <<stored, pend, aborted>> /\ assigned \subseteq assigned' /\ Go(c, "recheck")
    BY <1>Assign, <1>f, Zenon DEF Assign, Command, ghostVars
  <2>2. ~Deleting(call'[c])
    BY <2>1, <1>g, Zenon DEF Deleting, Places
  <2>3. Has(call[c]) = {}
    BY <1>Assign, Zenon DEF Assign, Has, Carries
  <2> QED BY <2>1, <2>2, <2>3, <1>d, OwnedKeep, Zenon
<1>Set. CASE Set(c)
  <2>1. UNCHANGED <<pend, assigned, aborted>> /\ stored' = Written(c)
    BY <1>Set, <1>f, Zenon DEF Set, Command, ghostVars
  <2>2. Holds(c) /\ Op(c) \notin Creators /\ stored # None /\ call[c].read = stored
    BY <1>Set, <1>o, Zenon DEF Set, CallOK, Holds, Outside, Creators, SafeInv,
      ReadInv, Reading
  <2>3. /\ call'[c].op = call[c].op /\ call'[c].match = call[c].match
        /\ call'[c].read = call[c].read
        /\ call'[c].at = CASE Op(c) = "ack" -> "unlock"
                           [] Op(c) = "update" -> "release"
                           [] OTHER -> "hset"
    BY <1>Set, <1>f, <1>g DEF Set, Command, Places
  <2>4. \A t \in Tickets : Wants(t)' => Wants(t) /\ t \notin assigned
    BY <2>1, Zenon DEF Wants, Pending
  <2>5. Live' /\ ~Deleting(call'[c])
    <3>1. ~Deleting(call'[c])
      BY <2>3 DEF Deleting
    <3>2. Written(c).gen \in Nat /\ Written(c) \in [gen : Nat, tickets : SUBSET Tickets]
      BY <1>t, <2>2, <1>o DEF Written, StoreTypes, Records, Gens
    <3>3. stored' # None
      BY <3>2, <2>1, BackfillConstants, Zenon
    <3> QED BY <3>1, <3>3, <2>2, <1>h, <1>d, Zenon DEF Live
  <2>6. ASSUME NEW t \in Tickets, t \notin assigned, t \in stored.tickets
        PROVE  t \in stored'.tickets \/ t \in Has(call'[c])
    <3>1. CASE Op(c) = "ack"
      BY <3>1, <2>2, <2>6, <1>Set, Zenon DEF ReleaseInv, Set
    <3>2. CASE Op(c) = "update"
      BY <3>2, <2>2, <2>3, <2>6 DEF Has
    <3>3. CASE Op(c) = "fetch"
      BY <3>3, <2>1, <2>2, <2>6 DEF Written
    <3>4. Op(c) \in {"ack", "update", "fetch"}
      BY <1>Set, <1>o, <2>2, <1>t, FirstStep, Zenon DEF Set, OnTrack, CallTypes,
        CallRecords, Ops, Creators
    <3> QED BY <3>1, <3>2, <3>3, <3>4, Zenon
  <2>7. ASSUME NEW t \in Has(call[c]) PROVE t \in stored'.tickets
    <3>1. Op(c) = "fetch" /\ t \in call[c].match
      BY <1>Set, Zenon DEF Set, Has, Carries, Creators
    <3> QED BY <3>1, <2>1 DEF Written
  <2> QED BY <2>1, <2>4, <2>5, <2>6, <2>7, <1>d, OwnedMove, Zenon DEF Live
<1>Release. CASE Release(c)
  <2> DEFINE ts == IF call[c].read = None THEN {} ELSE call[c].read.tickets
  <2>1. UNCHANGED <<stored, assigned, aborted>> /\ pend' = Unpend(ts)
    BY <1>Release, <1>f, Zenon DEF Release, Command, ghostVars
  <2>2. \A t \in Tickets : Wants(t)' => Wants(t) /\ t \notin ts
    BY <2>1, <1>t, BackfillConstants DEF Wants, Pending, Unpend, StoreTypes
  <2>3. call'[c].op = call[c].op /\ call'[c].at = IF Deletes(c) THEN "del" ELSE "hset"
    BY <1>Release, <1>f, <1>g, Zenon DEF Release, Command, Places
  <2>4. Has(call[c]) \subseteq ts
    BY <1>Release, <1>o, Zenon DEF Release, Has, Carries, CallOK, Creators
  <2>5. CASE Deletes(c)
    <3>1. Live => stored.tickets = ts
      BY <2>5, <1>Release, Zenon DEF ReleaseInv, Release, Live
    <3> QED BY <2>1, <2>2, <2>4, <3>1, <1>d, OwnedMove, Zenon
  <2>6. CASE ~Deletes(c)
    <3>1. ~Deleting(call'[c])
      BY <2>3, <2>6, Zenon DEF Deleting
    <3> QED BY <2>1, <2>2, <2>4, <3>1, <1>d, OwnedMove, Zenon DEF Live
  <2> QED BY <2>5, <2>6, Zenon
<1>HSet. CASE HSet(c)
  <2>1. UNCHANGED <<stored, pend, assigned, aborted>>
    BY <1>HSet, <1>f, Zenon DEF HSet, Command, Return
  <2>2. ~Deleting(call'[c])
    BY <1>HSet, Targets, Zenon DEF Deleting
  <2>3. Has(call[c]) = {}
    BY <1>HSet, Zenon DEF HSet, Has, Carries
  <2> QED BY <2>1, <2>2, <2>3, <1>d, OwnedKeep, Zenon
<1>HDel. CASE HDel(c)
  <2>1. UNCHANGED <<stored, pend, assigned, aborted>>
    BY <1>HDel, <1>f, Zenon DEF HDel, Command, ghostVars
  <2>2. ~Deleting(call'[c])
    BY <1>HDel, Targets, Zenon DEF Deleting
  <2>3. Has(call[c]) = {}
    BY <1>HDel, Zenon DEF HDel, Has, Carries
  <2> QED BY <2>1, <2>2, <2>3, <1>d, OwnedKeep, Zenon
<1>Del. CASE Del(c)
  <2>1. UNCHANGED <<pend, assigned, aborted>>
    BY <1>Del, <1>f, Zenon DEF Del, Command, ghostVars
  <2>2. Deleting(call[c]) /\ Has(call[c]) = {}
    BY <1>Del, <1>o, FirstStep, <1>t, Zenon DEF Del, Deleting, OnTrack, Has, Carries,
      CallTypes, CallRecords, Ops, CallOK, Creators
  <2>3. \A t \in Tickets : Wants(t)' => Wants(t)
    BY <2>1, Zenon DEF Wants, Pending
  <2> QED BY <2>2, <2>3, <1>d, OwnedMove, Zenon DEF Live
<1>ZRem. CASE ZRem(c)
  <2>1. UNCHANGED <<stored, pend, assigned, aborted>>
    BY <1>ZRem, <1>f, Zenon DEF ZRem, Command, ghostVars
  <2>2. ~Deleting(call'[c])
    BY <1>ZRem, Targets, Zenon DEF Deleting
  <2>3. Has(call[c]) = {}
    BY <1>ZRem, Zenon DEF ZRem, Has, Carries
  <2> QED BY <2>1, <2>2, <2>3, <1>d, OwnedKeep, Zenon
<1>Drop. CASE Drop(c)
  <2>1. UNCHANGED <<stored, assigned, aborted>> /\ pend' = Unpend(call[c].match) /\ call'[c] = Idle
    BY <1>Drop, <1>f, <1>e, Zenon DEF Drop, Return
  <2>2. \A t \in Tickets : Wants(t)' => Wants(t) /\ t \notin call[c].match
    BY <2>1, <1>t, BackfillConstants DEF Wants, Pending, Unpend, StoreTypes
  <2>3. Has(call[c]) \subseteq call[c].match
    BY <1>Drop, Zenon DEF Drop, Has, Carries
  <2> QED BY <2>1, <2>2, <2>3, <1>d, IdleFacts, IdleHands, OwnedMove, Zenon DEF Live
<1> QED
  BY <1>Lock, <1>Unlock, <1>SetNX, <1>Check, <1>ZAdd, <1>Assign, <1>Set, <1>Release,
    <1>HSet, <1>HDel, <1>Del, <1>ZRem, <1>Drop, <1>Get, Zenon DEF Step

\* A call that begins has no tickets, until its match has been made pending.
LEMMA OwnedStart ==
  ASSUME IInv, ReleaseInv, OwnedInv, NEW c \in Calls, Start(c) \/ StartCleanup(c)
  PROVE  ReleaseInv' /\ OwnedInv'
<1>t. StoreTypes /\ CallsOK
  BY Zenon DEF IInv, TypeOK
<1>0. /\ \A d \in Calls : d # c => call'[d] = call[d]
      /\ UNCHANGED <<stored, assigned>>
  BY StartFrame, Zenon
<1>r. ASSUME call'[c].at \in {"setnx", "mmf", "lock"} PROVE ReleaseInv'
  BY <1>0, <1>r, Zenon DEF ReleaseInv, Deletes, At, Op
<1>1. ASSUME UNCHANGED <<pend, aborted>>, call[c] = Idle,
             call'[c] \in {NewCall("create", "setnx", None), NewCall("new", "mmf", view),
                           NewCall("update", "lock", None), NewCall("ack", "lock", None),
                           NewCall("delete", "lock", None), NewCall("fetch", "mmf", view),
                           NewCall("cleanup", "lock", None)}
      PROVE  ReleaseInv' /\ OwnedInv'
  <2>1. call'[c].at \in {"setnx", "mmf", "lock"}
    BY <1>1, NewFacts
  <2>2. ~Deleting(call'[c])
    BY <2>1, Zenon DEF Deleting
  <2> QED BY <1>0, <1>1, <1>r, <2>1, <2>2, IdleFacts, IdleHands, OwnedKeep, Zenon
<1>2. ASSUME At(c, "mmf"), call'[c].op = call[c].op,
             call'[c].at = (IF Op(c) = "new" THEN "setnx" ELSE "lock"),
             pend' = [t \in Tickets |-> IF t \in call'[c].match THEN 0 ELSE pend[t]],
             aborted' = aborted \ call'[c].match
      PROVE  ReleaseInv' /\ OwnedInv'
  <2>1. Op(c) \in {"fetch", "new"}
    BY <1>2, <1>t, Zenon DEF CallsOK, CallOK, At, Op
  <2>2. call'[c].at \in {"setnx", "lock"}
    BY <1>2, Zenon
  <2>3. Has(call[c]) = {} /\ call'[c].match \subseteq Has(call'[c]) /\ ~Deleting(call'[c])
    BY <1>2, <2>1, Zenon DEF Has, Carries, At, Op, Deleting, Creators
  <2>4. \A t \in Tickets : Wants(t)' => Wants(t) \/ t \in Has(call'[c])
    BY <1>0, <1>2, <2>3, Zenon DEF Wants, Pending
  <2> QED BY <1>0, <1>r, <2>2, <2>3, <2>4, OwnedMove, Zenon DEF Live
<1> QED BY StartFrame, <1>1, <1>2, Zenon

\* Lock expiry, cache updates and time take no ticket from anyone.
LEMMA OwnedOther ==
  ASSUME IInv, ReleaseInv, OwnedInv,
         LockExpires \/ QueryAcked \/ QueryIndex \/ QueryFetch \/ Tick \/ UNCHANGED vars
  PROVE  ReleaseInv' /\ OwnedInv'
<1>1. /\ \A c \in Calls : /\ call'[c].op = call[c].op /\ call'[c].at = call[c].at
                          /\ call'[c].match = call[c].match /\ call'[c].read = call[c].read
      /\ UNCHANGED <<stored, assigned, aborted>>
      /\ \A t \in Tickets : pend'[t] <= PendingTimeout => pend[t] <= PendingTimeout
  BY TickFrame, Zenon DEF LockExpires, QueryAcked, QueryIndex, QueryFetch, queryFrame,
    vars, redisVars, ghostVars
<1>3. ReleaseInv'
  BY <1>1, Zenon DEF ReleaseInv, Deletes, At, Op
<1>4. \A c \in Calls : Has(call'[c]) = Has(call[c]) /\ (Deleting(call'[c]) <=> Deleting(call[c]))
  BY <1>1, Zenon DEF Has, Carries, Deleting
<1>5. Live <=> Live'
  BY <1>1, <1>4, Zenon DEF Live
<1>6. OwnedInv'
  BY <1>1, <1>4, <1>5, Zenon DEF OwnedInv, Wants, Pending
<1> QED BY <1>3, <1>6, Zenon

ReasonInv == ReleaseInv /\ OwnedInv

\* While nothing fails, every ticket that is pending has someone who will release it.
THEOREM ReasonInvariant ==
  ASSUME NoFaults
  PROVE  Spec => [](IInv /\ SafeInv /\ WayInv /\ ReasonInv)
<1>1. Init => ReasonInv
  <2> SUFFICES ASSUME Init PROVE ReasonInv
    BY Zenon
  <2>1. \A c \in Calls : call[c] = Idle
    BY Zenon DEF Init
  <2>2. ReleaseInv
    BY <2>1, IdleFacts, Zenon DEF ReleaseInv, Deletes, Op, At
  <2>3. OwnedInv
    BY BackfillConstants DEF Init, OwnedInv, Wants, Pending
  <2> QED BY <2>2, <2>3, Zenon DEF ReasonInv
<1>2. IInv /\ SafeInv /\ WayInv /\ ReasonInv /\ [Next]_vars => ReasonInv'
  <2> SUFFICES ASSUME IInv, SafeInv, WayInv, ReasonInv, [Next]_vars PROVE ReasonInv'
    BY Zenon
  <2>0. FirstInv /\ TrackInv /\ ReleaseInv /\ OwnedInv
    BY Zenon DEF WayInv, ReasonInv
  <2>1. ASSUME NEW c \in Calls, Step(c) PROVE ReasonInv'
    BY <2>0, <2>1, ReleaseStep, OwnedStep, Zenon DEF ReasonInv
  <2>2. ASSUME NEW c \in Calls, Start(c) \/ StartCleanup(c) PROVE ReasonInv'
    BY <2>0, <2>2, OwnedStart, Zenon DEF ReasonInv
  <2>3. CASE LockExpires \/ QueryAcked \/ QueryIndex \/ QueryFetch \/ Tick \/ UNCHANGED vars
    BY <2>0, <2>3, OwnedOther, Zenon DEF ReasonInv
  <2>4. \A c \in Calls : ~Crash(c)
    BY Zenon DEF Crash, Fault, NoFaults
  <2> QED BY <2>1, <2>2, <2>3, <2>4, Zenon DEF Next
<1>3. Spec => [](IInv /\ SafeInv /\ WayInv)
  BY WayInvariant, Zenon
<1> QED BY <1>1, <1>2, <1>3, PTL DEF Spec

\* While nothing fails no ticket stays pending for nothing: whatever calls run at the
\* same time, it waits in the backfill or in a call that will put it there or release
\* it, or FetchMatches gave up the match it belongs to.
THEOREM NonePendingForNothing ==
  ASSUME NoFaults
  PROVE  Spec => []PendingForAReason
<1>1. IInv /\ ReasonInv => PendingForAReason
  <2> SUFFICES ASSUME IInv, ReasonInv, NEW t \in Tickets, Pending(t), t \notin assigned \cup aborted
               PROVE  \/ stored # None /\ t \in stored.tickets
                      \/ \E c \in Calls :
                           t \in call[c].match \cup (IF call[c].read = None THEN {}
                                                     ELSE call[c].read.tickets)
    BY Zenon DEF PendingForAReason
  <2>1. CASE Live /\ t \in stored.tickets
    BY <2>1, Zenon DEF Live
  <2>2. ASSUME NEW c \in Calls, t \in Has(call[c])
        PROVE  t \in call[c].match \cup (IF call[c].read = None THEN {} ELSE call[c].read.tickets)
    <3>1. call[c].op = "update" /\ call[c].at = "release" => call[c].read # None
      BY Zenon DEF IInv, CallsOK, CallOK
    <3> QED BY <2>2, <3>1, Zenon DEF Has
  <2> QED BY <2>1, <2>2, Zenon DEF ReasonInv, OwnedInv, Wants
<1> QED BY <1>1, ReasonInvariant, PTL

-----------------------------------------------------------------------------
(* The tickets an acknowledgement assigns are still pending.                *)

\* A backfill expires, and the calls that still use it end, before its tickets come back.
Timely == TTL + 2 * MaxLag <= PendingTimeout

\* A ticket that is assigned, or not pending for longer than b and in no call's hand.
Free(t) == \A d \in Calls : Carries(call[d]) => t \notin call[d].match
Fresh(t, b) == t \in assigned \/ (pend[t] <= b /\ Free(t))

Assigning == \E c \in Calls : At(c, "assign")

\* The tickets of a backfill have not been pending for much longer than its last
\* acknowledgement is old ...
StoredFresh ==
    Live /\ acked # None /\ acked <= TTL /\ ~Assigning =>
      \A t \in stored.tickets : Fresh(t, acked + MaxLag)

\* ... neither have those of a call that found it unexpired ...
UsesRead(r) == \/ r.op = "ack" /\ r.at \in {"zadd", "assign"}
               \/ r.op = "update" /\ r.at \in {"set", "release"}
ReadFresh ==
    \A c \in Calls : UsesRead(call[c]) =>
      \A t \in call[c].read.tickets : Fresh(t, TTL + MaxLag + call[c].lag)

\* ... nor those of a match on its way to it, which are in no other call's hand.
MatchFresh ==
    \A c \in Calls : Carries(call[c]) /\ (Live \/ Before(call[c])) =>
      \A t \in call[c].match :
        /\ pend[t] <= call[c].lag /\ t \notin assigned
        /\ \A d \in Calls : d # c /\ Carries(call[d]) => t \notin call[d].match

\* An update has emptied the record before it releases what was in it.
Emptied ==
    \A c \in Calls : Op(c) = "update" /\ At(c, "release") => stored # None /\ stored.tickets = {}

FreshInv == StoredFresh /\ ReadFresh /\ MatchFresh

\* A call that takes nothing more into its hand.
Lets(c) ==
    /\ \A d \in Calls : d # c => call'[d] = call[d]
    /\ call'[c] = Idle \/ Same(call[c], call'[c])
    /\ Carries(call'[c]) => Carries(call[c])

\* Tickets stay fresh while such calls move.
LEMMA FreshKeep ==
  ASSUME NEW c \in Calls, Lets(c), UNCHANGED <<pend, assigned>>, NEW t, NEW b, Fresh(t, b)
  PROVE  Fresh(t, b)'
<1>1. Free(t) => Free(t)'
  BY IdleFacts, IdleHands, Zenon DEF Free, Lets, Same
<1> QED BY <1>1, Zenon DEF Fresh

\* So do those of matches, whatever is released elsewhere.
LEMMA MatchKeep ==
  ASSUME NEW c \in Calls, Lets(c), MatchFresh, Live' => Live, Before(call'[c]) => Before(call[c]),
         \A d \in Calls, t \in Tickets :
           Carries(call'[d]) /\ (Live \/ Before(call[d])) /\ t \in call[d].match =>
             pend'[t] = pend[t] /\ (t \notin assigned => t \notin assigned'),
         CallTypes
  PROVE  MatchFresh'
<1> SUFFICES ASSUME NEW d \in Calls, Carries(call'[d]), Live' \/ Before(call'[d]),
                    NEW t \in call'[d].match
             PROVE  /\ pend'[t] <= call'[d].lag /\ t \notin assigned'
                    /\ \A e \in Calls : e # d /\ Carries(call'[e]) => t \notin call'[e].match
  BY Zenon DEF MatchFresh
<1>1. /\ Carries(call[d]) /\ call'[d].match = call[d].match /\ call'[d].lag = call[d].lag
      /\ Live \/ Before(call[d])
  BY IdleFacts, IdleHands, Zenon DEF Lets, Same
<1>2. t \in Tickets
  BY <1>1, Zenon DEF CallTypes, CallRecords
<1>3. pend'[t] = pend[t] /\ t \notin assigned'
  BY <1>1, <1>2, Zenon DEF MatchFresh
<1>4. \A e \in Calls : Carries(call'[e]) => Carries(call[e]) /\ call'[e].match = call[e].match
  BY IdleFacts, IdleHands, Zenon DEF Lets, Same
<1> QED BY <1>1, <1>3, <1>4, Zenon DEF MatchFresh

\* A step that touches none of all this.
LEMMA FreshFrame ==
  ASSUME NEW c \in Calls, CallTypes, Lets(c), FreshInv, Live' => Live,
         Before(call'[c]) => Before(call[c]),
         UNCHANGED <<pend, assigned, stored, acked>>, ~At(c, "assign"),
         UsesRead(call'[c]) => UsesRead(call[c]) /\ call'[c].read = call[c].read
  PROVE  FreshInv'
<1>1. MatchFresh'
  BY MatchKeep, Zenon DEF FreshInv
<1>2. StoredFresh'
  <2>1. Assigning => Assigning'
    BY Zenon DEF Assigning, At, Lets
  <2> SUFFICES ASSUME Live', acked' # None, acked' <= TTL, ~Assigning', NEW t \in stored'.tickets
               PROVE  Fresh(t, acked + MaxLag)'
    BY Zenon DEF StoredFresh
  <2>2. Fresh(t, acked + MaxLag)
    BY <2>1, Zenon DEF FreshInv, StoredFresh
  <2> QED BY <2>2, FreshKeep, Zenon DEF Fresh, Free
<1>3. ReadFresh'
  <2> SUFFICES ASSUME NEW d \in Calls, UsesRead(call'[d]), NEW t \in call'[d].read.tickets
               PROVE  Fresh(t, TTL + MaxLag + call[d].lag)'
    BY Zenon DEF ReadFresh
  <2>1. UsesRead(call[d]) /\ call'[d].read = call[d].read /\ call'[d].lag = call[d].lag
    BY IdleFacts, IdleHands, Zenon DEF Lets, Same, UsesRead
  <2>2. Fresh(t, TTL + MaxLag + call[d].lag)
    BY <2>1, Zenon DEF FreshInv, ReadFresh
  <2> QED BY <2>1, <2>2, FreshKeep, Zenon DEF Fresh, Free
<1> QED BY <1>1, <1>2, <1>3, Zenon DEF FreshInv

\* A call that holds the lock is the only one to use what it read, or to delete.
LEMMA OnlyHolder ==
  ASSUME IInv, SafeInv, NEW c \in Calls, Holds(c), NEW d \in Calls, d # c
  PROVE  ~UsesRead(call[d]) /\ ~Deleting(call[d]) /\ ~At(d, "assign")
<1>1. ~Holds(d)
  BY Alone, Zenon
<1>2. CallOK(call[d])
  BY Zenon DEF IInv, CallsOK
<1> QED
  BY <1>1, <1>2, Zenon DEF Holds, Outside, UsesRead, Deleting, At, Op, CallOK,
    Creators

\* Commands keep tickets fresh.
LEMMA FreshStep ==
  ASSUME NoFaults, IInv, SafeInv, FirstInv, TrackInv, Emptied, FreshInv, NEW c \in Calls, Step(c)
  PROVE  FreshInv'
<1>t. CallTypes /\ CallsOK /\ StoreTypes
  BY Zenon DEF IInv, TypeOK
<1>o. CallOK(call[c]) /\ OnTrack(call[c]) /\ Op(c) # "none"
  BY <1>t, FirstStep, Zenon DEF CallsOK, TrackInv
<1>f. ~Fault("store")
  BY Zenon DEF NoFaults, Fault
<1>d. /\ \A d \in Calls : d # c => call'[d] = call[d] /\ ~Before(call[d])
      /\ call'[c] = Idle \/ Same(call[c], call'[c])
      /\ call'[c] = Idle \/ call'[c].at \notin {"idle", "mmf", "setnx"}
  BY StepFrame, FirstStep, Zenon
<1>l. ASSUME Carries(call'[c]) => Carries(call[c]) PROVE Lets(c)
  BY <1>l, <1>d, Zenon DEF Lets
<1>i. Idle.op = "none" /\ Idle.at = "idle" /\ ~Carries(Idle) /\ ~Before(Idle) /\ ~UsesRead(Idle)
      /\ ~Deleting(Idle)
  BY IdleFacts, IdleHands, Zenon DEF UsesRead
<1>m. MatchFresh /\ ReadFresh /\ StoredFresh
  BY Zenon DEF FreshInv
<1>lag. call[c].lag \in Nat /\ call[c].lag <= MaxLag /\ MaxLag \in Nat /\ TTL \in Nat
  BY <1>t, TTLType, BackfillConstants DEF CallTypes, CallRecords
\* What c does to the record while it alone holds the lock.
<1>h. ASSUME Holds(c)
      PROVE  \A d \in Calls : d # c => /\ ~UsesRead(call[d]) /\ ~UsesRead(call'[d])
                                       /\ ~Deleting(call[d]) /\ ~At(d, "assign")
  BY <1>h, <1>d, OnlyHolder, Zenon
<1> USE DEF At, Op
\* Steps that leave records, times and hands as they are.
<1>k. ASSUME UNCHANGED <<pend, assigned, stored, acked>>, Carries(call'[c]) => Carries(call[c]),
             call[c].at \notin {"assign", "del", "setnx", "mmf"},
             UsesRead(call'[c]) => UsesRead(call[c]) /\ call'[c].read = call[c].read
      PROVE  FreshInv'
  <2>1. Live' => Live
    BY <1>k, <1>d, Zenon DEF Live, Deleting
  <2>2. Before(call'[c]) => Before(call[c])
    BY <1>k, <1>d, <1>i, <1>o, Zenon DEF Before, Same, CallOK, OnTrack, Carries,
      Creators
  <2> QED BY <1>k, <1>l, <1>t, <2>1, <2>2, FreshFrame, Zenon
<1>Lock. CASE Lock(c)
  <2>1. call'[c].at \in {"idle", "hdel", "get"} /\ (call'[c] = Idle \/ call'[c].op = call[c].op)
    BY <1>Lock, <1>d, Targets, Zenon DEF Same
  <2> QED
    BY <1>Lock, <1>d, <1>i, <1>k, <1>o, <2>1, Zenon DEF Lock, Carries, UsesRead,
      CallOK, Creators
<1>Unlock. CASE Unlock(c)
  <2>1. call'[c] = Idle \/ (At(c, "reject") /\ call'[c].at = "drop" /\ call'[c].op = call[c].op)
    <3>1. Return(c) \/ Abort(c) => call'[c] = Idle
      BY <1>t, EndFacts, Zenon DEF Return, Abort, Ends
    <3>2. Go(c, "drop") => call'[c].at = "drop" /\ call'[c].op = call[c].op
      BY <1>t, Moves, Zenon DEF Places, Same
    <3> QED BY <1>Unlock, <3>1, <3>2, Zenon DEF Unlock
  <2> QED
    BY <1>Unlock, <1>d, <1>i, <1>k, <1>o, <2>1, Zenon DEF Unlock, Carries, UsesRead,
      CallOK, Creators
<1>Get. CASE Get(c)
  <2>1. call'[c].op = call[c].op
    BY <1>Get, <1>f, <1>t, Zenon DEF Get, CallTypes, CallRecords
  <2>2. call'[c].at \in {"release", "reject", "fail", "check"} /\ (call'[c].at = "release" => Deletes(c))
    BY <1>Get, <1>f, <1>t DEF Get, CallTypes, CallRecords
  <2> QED
    BY <1>Get, <1>k, <1>o, <2>1, <2>2, Zenon DEF Get, Carries, UsesRead, CallOK,
      Creators, redisVars, Deletes
<1>HSet. CASE HSet(c)
  <2>1. call'[c].at \in {"idle", "unlock"} /\ (call'[c] = Idle \/ call'[c].op = call[c].op)
    BY <1>HSet, <1>d, Targets, Zenon DEF Same
  <2> QED
    BY <1>HSet, <1>d, <1>i, <1>k, <1>o, <2>1, Zenon DEF HSet, Carries, UsesRead,
      CallOK, Creators
<1>HDel. CASE HDel(c)
  <2>1. call'[c].at = "get" /\ (call'[c] = Idle \/ call'[c].op = call[c].op)
    BY <1>HDel, <1>d, Targets, Zenon DEF Same
  <2>2. Op(c) # "fetch"
    BY <1>HDel, <1>o, Zenon DEF HDel, OnTrack
  <2> QED
    BY <1>HDel, <1>d, <1>i, <1>k, <1>o, <2>1, <2>2, Zenon DEF HDel, Carries, UsesRead,
      CallOK, Creators
<1>Check. CASE Check(c)
  <2>1. UNCHANGED <<pend, assigned, stored, acked>> /\ Holds(c)
    BY <1>Check, <1>o, Zenon DEF Check, redisVars, Holds, Outside, CallOK, Creators
  <2>2. /\ call'[c].at \in {"zadd", "set"} => acked # None /\ acked <= TTL
        /\ call'[c].at \in {"zadd", "set", "fail"}
        /\ Op(c) = "ack" /\ call'[c].at = "set" => At(c, "recheck")
    <3>1. \A w \in Places : Go(c, w) => call'[c].at = w
      BY <1>t, Moves, Zenon
    <3>2. ~IsBackfillExpired /\ acked # None => acked <= TTL
      BY <1>t, <1>lag DEF IsBackfillExpired, StoreTypes
    <3> QED BY <1>Check, <1>f, <3>1, <3>2, Zenon DEF Check, Places
  <2>3. call'[c].op = call[c].op /\ call'[c].read = call[c].read /\ call'[c].lag = call[c].lag
    <3>1. PICK w \in Places : Go(c, w)
      BY <1>Check, <1>f, Zenon DEF Check, Places
    <3> QED BY <3>1, <1>t, Moves, Zenon DEF Same
  <2>4. Carries(call'[c]) => Carries(call[c])
    BY <1>Check, <1>o, <2>2, <2>3, Zenon DEF Check, Carries, CallOK, OnTrack
  <2>5. CASE ~UsesRead(call'[c])
    BY <1>Check, <1>k, <2>1, <2>4, <2>5, Zenon DEF Check
  <2>6. CASE UsesRead(call'[c])
    <3>1. Live /\ acked # None /\ acked <= TTL /\ ~Assigning /\ call[c].read = stored
      <4>1. call[c].at \in {"check", "recheck"} /\ Op(c) \notin Creators
        BY <1>Check, <1>o, Zenon DEF Check, CallOK
      <4>2. stored # None /\ call[c].read = stored
        BY <4>1, Zenon DEF SafeInv, ReadInv, Reading
      <4>3. call'[c].at \in {"zadd", "set"}
        BY <2>2, <2>6, Zenon DEF UsesRead
      <4> QED BY <4>1, <4>2, <4>3, <2>1, <2>2, <1>h, Zenon DEF Live, Assigning, Deleting
    <3>2. ASSUME NEW t \in call'[c].read.tickets PROVE Fresh(t, TTL + MaxLag + call[c].lag)'
      <4>1. Fresh(t, acked + MaxLag)
        BY <3>1, <3>2, <2>3, <1>m, Zenon DEF StoredFresh
      <4>2. t \in Tickets
        BY <3>2, <3>1, <2>3, <1>t DEF Live, StoreTypes, Records
      <4>3. pend[t] \in Nat /\ acked \in Nat
        BY <4>2, <3>1, <1>t, <1>lag, BackfillConstants DEF StoreTypes
      <4>4. Fresh(t, TTL + MaxLag + call[c].lag)
        BY <4>1, <4>3, <3>1, <1>lag DEF Fresh
      <4> QED BY <4>4, <2>1, <2>3, <2>4, <1>l, FreshKeep, Zenon DEF Fresh, Free
    <3>3. ReadFresh'
      BY <3>2, <1>h, <2>1, Zenon DEF ReadFresh
    <3>4. MatchFresh'
      <4>1. Live' => Live
        BY <3>1, Zenon
      <4>2. ~Before(call'[c])
        BY <2>3, <1>Check, <1>o, Zenon DEF Check, Before, CallOK, Creators
      <4> QED BY <4>1, <4>2, <2>1, <2>4, <1>l, <1>m, <1>t, MatchKeep, Zenon
    <3>5. StoredFresh'
      <4> SUFFICES ASSUME NEW t \in stored'.tickets PROVE Fresh(t, acked + MaxLag)'
        BY Zenon DEF StoredFresh
      <4>1. Fresh(t, acked + MaxLag)
        BY <3>1, <2>1, <1>m, Zenon DEF StoredFresh
      <4> QED BY <4>1, <2>1, <2>4, <1>l, FreshKeep, Zenon DEF Fresh, Free
    <3> QED BY <3>3, <3>4, <3>5, Zenon DEF FreshInv
  <2> QED BY <2>5, <2>6, Zenon
<1>create. ASSUME Before(call[c])
           PROVE  \A d \in Calls : d # c => /\ call'[d].op = "none" /\ ~Carries(call'[d])
                                            /\ ~UsesRead(call'[d]) /\ ~Deleting(call'[d])
  BY <1>create, <1>d, Zenon DEF FirstInv, Carries, UsesRead, Deleting, Creators
<1>SetNX. CASE SetNX(c)
  <2>1. /\ Before(call[c]) /\ UNCHANGED <<pend, assigned, acked>> /\ call'[c].at = "zadd"
        /\ Same(call[c], call'[c])
    BY <1>SetNX, <1>o, <1>d, <1>i, Targets, Zenon DEF SetNX, Before, CallOK
  <2>2. acked' = None /\ Carries(call[c])
    BY <1>SetNX, <2>1, Zenon DEF SetNX, FirstInv, NothingYet, Carries, Before
  <2>3. StoredFresh' /\ ReadFresh'
    BY <2>1, <2>2, <1>create, Zenon DEF StoredFresh, ReadFresh, UsesRead, Before,
      Same, Creators
  <2>4. MatchFresh'
    BY <2>1, <2>2, <1>create, <1>m, Zenon DEF MatchFresh, Same
  <2> QED BY <2>3, <2>4, Zenon DEF FreshInv
<1>ZAdd. CASE ZAdd(c)
  <2>0. UNCHANGED <<stored, pend, assigned>> /\ acked' = 0
    BY <1>ZAdd, <1>f, Zenon DEF ZAdd, Command
  <2>1. CASE Op(c) \in Creators
    <3>1. Before(call[c]) /\ Carries(call[c]) /\ Same(call[c], call'[c]) /\ call'[c].at = "hset"
      <4>1. Go(c, "hset")
        BY <1>ZAdd, <1>f, <2>1 DEF ZAdd, Command, Creators
      <4> QED
        BY <4>1, <1>ZAdd, <2>1, <1>t, Moves, Zenon DEF ZAdd, Before, Carries, Places
    <3>2. ~Carries(call'[c]) /\ ~UsesRead(call'[c])
      BY <2>1, <3>1, Zenon DEF Carries, UsesRead, Same, Creators
    <3>3. ReadFresh' /\ MatchFresh'
      BY <3>1, <3>2, <1>create, Zenon DEF ReadFresh, MatchFresh
    <3>4. ASSUME NEW t \in stored'.tickets PROVE Fresh(t, acked + MaxLag)'
      <4>1. t \in call[c].match
        BY <1>ZAdd, <2>0, <3>1, <3>4, Zenon DEF ZAdd, FirstInv
      <4>2. pend[t] <= call[c].lag /\ t \in Tickets
        BY <4>1, <3>1, <1>m, <1>t, Zenon DEF MatchFresh, CallTypes, CallRecords
      <4>3. pend'[t] <= acked' + MaxLag
        BY <4>2, <2>0, <1>lag, <1>t DEF StoreTypes
      <4> QED BY <4>3, <3>1, <3>2, <1>create, Zenon DEF Fresh, Free
    <3> QED BY <3>3, <3>4, Zenon DEF FreshInv, StoredFresh
  <2>2. CASE Op(c) \notin Creators
    <3>1. Op(c) = "ack" /\ Holds(c) /\ stored # None /\ call[c].read = stored
      BY <1>ZAdd, <2>2, <1>o, <1>t, Zenon DEF ZAdd, OnTrack, Holds, Outside, SafeInv,
        ReadInv, Reading, Creators, CallTypes, CallRecords, Ops
    <3>2. PICK w \in {"unlock", "assign"} : Go(c, w) /\ (w = "unlock" => call[c].read.tickets = {})
      BY <1>ZAdd, <1>f, <3>1 DEF ZAdd, Command
    <3>3. Same(call[c], call'[c]) /\ call'[c].at = w /\ call'[c].read = call[c].read
      BY <3>2, <1>t, Moves, Zenon DEF Places
    <3>4. ~Carries(call'[c]) /\ ~Before(call'[c])
      BY <3>1, <3>3, Zenon DEF Carries, Same, Before, Creators
    <3>5. MatchFresh'
      <4>1. Live' => Live
        BY <1>ZAdd, <2>0, <1>d, <1>h, <3>1, Zenon DEF ZAdd, Live, Deleting
      <4> QED BY <4>1, <2>0, <3>4, <1>l, <1>m, <1>t, MatchKeep, Zenon
    <3>6. StoredFresh'
      BY <2>0, <3>1, <3>2, <3>3, Zenon DEF StoredFresh, Assigning
    <3>7. ReadFresh'
      <4> SUFFICES ASSUME UsesRead(call'[c]), NEW t \in call'[c].read.tickets
                   PROVE  Fresh(t, TTL + MaxLag + call[c].lag)'
        BY <3>1, <1>h, Zenon DEF ReadFresh
      <4>1. Fresh(t, TTL + MaxLag + call[c].lag)
        BY <1>ZAdd, <3>1, <3>3, <1>m, Zenon DEF ZAdd, ReadFresh, UsesRead
      <4> QED BY <4>1, <2>0, <3>3, <3>4, <1>l, FreshKeep, Zenon DEF Fresh, Free, Same
    <3> QED BY <3>5, <3>6, <3>7, Zenon DEF FreshInv
  <2> QED BY <2>1, <2>2, Zenon
<1>Assign. CASE Assign(c)
  <2>1. /\ Op(c) = "ack" /\ Holds(c) /\ stored # None /\ call[c].read = stored
        /\ UNCHANGED <<stored, acked, pend>> /\ assigned' = assigned \cup call[c].read.tickets
    BY <1>Assign, <1>o, <1>f, <1>t, Zenon DEF Assign, Command, OnTrack, CallOK, Holds,
      Outside, SafeInv, ReadInv, Reading, Creators, CallTypes, CallRecords, Ops
  <2>2. call'[c].at = "recheck" /\ call'[c].op = "ack" /\ Same(call[c], call'[c])
    BY <1>Assign, <2>1, <1>f, <1>t, Moves, Zenon DEF Assign, Command, Same, Places
  <2>3. StoredFresh' /\ ReadFresh'
    BY <2>1, <2>2, <1>h, Zenon DEF StoredFresh, ReadFresh, Fresh, UsesRead
  <2>4. Live
    BY <1>Assign, <2>1, <1>h, Zenon DEF Assign, Live, Deleting
  <2>5. ~Carries(call'[c]) /\ ~Before(call'[c])
    BY <2>2, Zenon DEF Carries, Before, Creators
  <2>6. ASSUME NEW d \in Calls, NEW t \in Tickets, Carries(call'[d]), t \in call[d].match,
               t \notin assigned
        PROVE  t \notin assigned'
    <3>1. d # c /\ Carries(call[d])
      BY <2>5, <2>6, <1>d, Zenon
    <3>2. t \notin call[c].read.tickets
      BY <1>Assign, <2>1, <2>6, <3>1, <1>m, Zenon DEF Assign, ReadFresh, UsesRead,
        Fresh, Free
    <3> QED BY <2>1, <2>6, <3>2, Zenon
  <2>7. MatchFresh'
    BY <2>1, <2>4, <2>5, <2>6, <1>l, <1>m, <1>t, MatchKeep, Zenon
  <2> QED BY <2>3, <2>7, Zenon DEF FreshInv
<1>Set. CASE Set(c)
  <2>1. /\ Holds(c) /\ stored # None /\ call[c].read = stored /\ Op(c) \notin Creators
        /\ UNCHANGED <<assigned, acked, pend>> /\ stored' = Written(c)
    BY <1>Set, <1>o, <1>f, Zenon DEF Set, Command, CallOK, Holds, Outside, SafeInv,
      ReadInv, Reading, Creators
  <2>2. /\ call'[c].at \in {"unlock", "release", "hset"} /\ (call'[c].at = "release" => Op(c) = "update")
        /\ Same(call[c], call'[c]) /\ call'[c].read = call[c].read
    <3>1. \A w \in Places : Go(c, w) => /\ call'[c].at = w /\ Same(call[c], call'[c])
                                        /\ call'[c].read = call[c].read
      BY <1>t, Moves, Zenon
    <3> QED BY <1>Set, <1>f, <3>1 DEF Set, Command, Places
  <2>3. Live /\ ~Assigning
    BY <1>Set, <2>1, <1>h, Zenon DEF Set, Live, Deleting, Assigning
  <2>4. ~Carries(call'[c]) /\ ~Before(call'[c])
    BY <2>1, <2>2, Zenon DEF Carries, Before, Creators, Same
  <2>5. MatchFresh'
    BY <2>1, <2>3, <2>4, <1>l, <1>m, <1>t, MatchKeep, Zenon
  <2>6. ReadFresh'
    <3> SUFFICES ASSUME UsesRead(call'[c]), NEW t \in call'[c].read.tickets
                 PROVE  Fresh(t, TTL + MaxLag + call[c].lag)'
      BY <2>1, <1>h, Zenon DEF ReadFresh
    <3>1. Fresh(t, TTL + MaxLag + call[c].lag)
      BY <1>Set, <2>1, <2>2, <1>m, Zenon DEF Set, ReadFresh, UsesRead, Same
    <3> QED BY <3>1, <2>1, <2>2, <2>4, <1>l, FreshKeep, Zenon DEF Fresh, Free, Same
  <2>7. StoredFresh'
    <3> SUFFICES ASSUME acked # None, acked <= TTL, NEW t \in stored'.tickets
                 PROVE  Fresh(t, acked + MaxLag)'
      BY <2>1, Zenon DEF StoredFresh
    <3>1. Op(c) = "fetch" /\ t \in stored.tickets \cup call[c].match
      BY <2>1 DEF Written
    <3>2. CASE t \in stored.tickets
      <4>1. Fresh(t, acked + MaxLag)
        BY <3>2, <2>3, <1>m, Zenon DEF StoredFresh
      <4> QED BY <4>1, <2>1, <2>4, <1>l, FreshKeep, Zenon DEF Fresh, Free
    <3>3. CASE t \in call[c].match
      <4>1. Carries(call[c])
        BY <1>Set, <3>1, Zenon DEF Set, Carries
      <4>2. /\ pend[t] <= call[c].lag /\ t \in Tickets
            /\ \A d \in Calls : d # c /\ Carries(call[d]) => t \notin call[d].match
        BY <4>1, <3>3, <2>3, <1>m, <1>t, Zenon DEF MatchFresh, CallTypes, CallRecords
      <4>3. pend'[t] <= acked' + MaxLag
        <5>1. pend[t] \in Nat /\ acked \in Nat
          BY <4>2, <1>t, <1>lag DEF StoreTypes
        <5> QED BY <4>2, <5>1, <2>1, <1>lag
      <4> QED BY <4>2, <4>3, <2>4, <1>d, Zenon DEF Fresh, Free
    <3> QED BY <3>1, <3>2, <3>3, Zenon
  <2> QED BY <2>5, <2>6, <2>7, Zenon DEF FreshInv
<1>Release. CASE Release(c)
  <2>1. /\ Holds(c) /\ UNCHANGED <<assigned, acked, stored>> /\ call'[c].at \in {"del", "hset"}
        /\ Same(call[c], call'[c])
    BY <1>Release, <1>o, <1>d, <1>i, Targets, Zenon DEF Release, CallOK, Holds,
      Outside, Creators
  <2>2. ReadFresh'
    BY <2>1, <1>h, Zenon DEF ReadFresh, UsesRead
  <2>3. CASE Deletes(c)
    <3>1. call'[c].at = "del"
      BY <1>Release, <2>3, <1>f, <1>t, Moves, Zenon DEF Release, Command, Places
    <3>2. ~Live' /\ \A d \in Calls : ~Before(call'[d])
      BY <2>1, <2>3, <3>1, <1>d, Zenon DEF Live, Deleting, Deletes, Same, Before,
        Creators
    <3> QED BY <2>2, <3>2, Zenon DEF FreshInv, StoredFresh, MatchFresh
  <2>4. CASE ~Deletes(c)
    <3>1. Op(c) = "update" /\ call[c].read # None
      BY <1>Release, <2>1, <2>4, <1>o, <1>t, Zenon DEF Release, OnTrack, CallOK,
        Creators, CallTypes, CallRecords, Ops, Holds, Deletes
    <3>2. stored # None /\ stored.tickets = {}
      BY <1>Release, <3>1, Zenon DEF Release, Emptied
    <3>3. StoredFresh'
      BY <2>1, <3>2, Zenon DEF StoredFresh
    <3>4. Live
      BY <1>Release, <2>1, <3>2, <1>h, Zenon DEF Release, Live, Deleting
    <3>5. ~Carries(call'[c]) /\ ~Before(call'[c])
      BY <2>1, <3>1, Zenon DEF Carries, Before, Creators, Same
    <3>6. pend' = Unpend(call[c].read.tickets)
      BY <1>Release, <3>1, <1>f, Zenon DEF Release, Command
    <3>7. ASSUME NEW d \in Calls, NEW t \in Tickets, Carries(call'[d]), t \in call[d].match
          PROVE  pend'[t] = pend[t]
      <4>1. d # c /\ Carries(call[d])
        BY <3>5, <3>7, <1>d, Zenon
      <4>2. t \notin assigned
        BY <4>1, <3>4, <3>7, <1>m, Zenon DEF MatchFresh
      <4>3. t \notin call[c].read.tickets
        BY <1>Release, <3>1, <3>7, <4>1, <4>2, <1>m, Zenon DEF Release, ReadFresh,
          UsesRead, Fresh, Free
      <4> QED BY <3>6, <4>3, Zenon DEF Unpend
    <3>8. MatchFresh'
      BY <2>1, <3>4, <3>5, <3>7, <1>l, <1>m, <1>t, MatchKeep, Zenon
    <3> QED BY <2>2, <3>3, <3>8, Zenon DEF FreshInv
  <2> QED BY <2>3, <2>4, Zenon
<1>Del. CASE Del(c)
  <2>1. Holds(c) /\ stored' = None /\ call'[c].at \in {"unlock", "zrem"}
    BY <1>Del, <1>o, <1>f, Targets, Zenon DEF Del, Command, CallOK, Holds, Outside,
      Creators
  <2>2. \A d \in Calls : ~Before(call'[d]) /\ ~UsesRead(call'[d])
    BY <2>1, <1>d, <1>h, Zenon DEF Before, UsesRead
  <2> QED BY <2>1, <2>2, Zenon DEF FreshInv, StoredFresh, MatchFresh, ReadFresh, Live
<1>ZRem. CASE ZRem(c)
  <2>1. Holds(c) /\ acked' = None /\ call'[c].at = "unlock" /\ UNCHANGED <<stored, pend, assigned>>
    BY <1>ZRem, <1>o, <1>f, Targets, Zenon DEF ZRem, Command, CallOK, Holds, Outside,
      Creators
  <2>2. ~Before(call'[c]) /\ ~UsesRead(call'[c]) /\ ~Carries(call'[c])
    BY <2>1, Zenon DEF Before, UsesRead, Carries
  <2>3. Live' => Live
    BY <1>ZRem, <2>1, <1>h, Zenon DEF ZRem, Live, Deleting
  <2>4. MatchFresh'
    BY <2>1, <2>2, <2>3, <1>l, <1>m, <1>t, MatchKeep, Zenon
  <2> QED BY <2>1, <2>2, <2>4, <1>h, Zenon DEF FreshInv, StoredFresh, ReadFresh
<1>Drop. CASE Drop(c)
  <2>1. /\ call'[c] = Idle /\ UNCHANGED <<stored, acked, assigned>> /\ pend' = Unpend(call[c].match)
    BY <1>Drop, <1>f, <1>t, EndFacts, Zenon DEF Drop, Return, Ends
  <2>2. Carries(call[c])
    BY <1>Drop, <1>o, <1>t, Zenon DEF Drop, Carries, OnTrack, CallOK, CallTypes,
      CallRecords, Ops, Creators
  <2>3. (Live' => Live) /\ (Assigning => Assigning')
    BY <1>Drop, <2>1, <1>d, Zenon DEF Drop, Live, Deleting, Assigning
  <2>4. ASSUME NEW t \in Tickets, NEW b, Fresh(t, b)
        PROVE  t \in assigned' \/ (pend'[t] <= b /\ Free(t)')
    <3>1. CASE t \in assigned
      BY <3>1, <2>1, Zenon
    <3>2. CASE t \notin assigned
      <4>1. t \notin call[c].match
        BY <2>2, <2>4, <3>2, Zenon DEF Fresh, Free
      <4>2. pend'[t] = pend[t]
        BY <2>1, <4>1, Zenon DEF Unpend
      <4> QED BY <2>1, <2>4, <3>2, <4>2, <1>d, <1>i, Zenon DEF Fresh, Free
    <3> QED BY <3>1, <3>2, Zenon
  <2>5. StoredFresh'
    <3> SUFFICES ASSUME Live, acked # None, acked <= TTL, ~Assigning, NEW t \in stored.tickets
                 PROVE  Fresh(t, acked + MaxLag)'
      BY <2>1, <2>3, Zenon DEF StoredFresh
    <3>1. t \in Tickets
      BY <1>t DEF Live, StoreTypes, Records
    <3> QED BY <3>1, <2>1, <2>4, <1>m, Zenon DEF StoredFresh, Fresh
  <2>6. ReadFresh'
    <3> SUFFICES ASSUME NEW d \in Calls, UsesRead(call'[d]), NEW t \in call'[d].read.tickets
                 PROVE  Fresh(t, TTL + MaxLag + call[d].lag)'
      BY Zenon DEF ReadFresh
    <3>1. d # c /\ call'[d] = call[d]
      BY <2>1, <1>d, <1>i, Zenon
    <3>2. call[d].read # None
      BY <3>1, <1>t, Zenon DEF CallsOK, CallOK, UsesRead, Creators
    <3>3. t \in Tickets
      BY <3>1, <3>2, <1>t DEF CallTypes, CallRecords, Records
    <3> QED BY <3>1, <3>3, <2>4, <1>m, Zenon DEF ReadFresh, Fresh
  <2>7. ASSUME NEW d \in Calls, NEW t \in Tickets, Carries(call'[d]), Live \/ Before(call[d]),
               t \in call[d].match
        PROVE  pend'[t] = pend[t]
    <3>1. d # c /\ Carries(call[d])
      BY <2>1, <2>7, <1>d, <1>i, Zenon
    <3>2. t \notin call[c].match
      BY <2>2, <2>7, <3>1, <1>m, Zenon DEF MatchFresh
    <3> QED BY <2>1, <3>2, Zenon DEF Unpend
  <2>8. MatchFresh'
    BY <2>1, <2>2, <2>3, <2>7, <1>i, <1>l, <1>m, <1>t, MatchKeep, Zenon
  <2> QED BY <2>5, <2>6, <2>8, Zenon DEF FreshInv
<1> QED
  BY <1>Lock, <1>Unlock, <1>SetNX, <1>Check, <1>ZAdd, <1>Assign, <1>Set, <1>Release,
    <1>HSet, <1>HDel, <1>Del, <1>ZRem, <1>Drop, <1>Get, Zenon DEF Step

\* Only the holder of the lock writes the record.
LEMMA EmptiedStep ==
  ASSUME NoFaults, IInv, SafeInv, FirstInv, TrackInv, Emptied, NEW c \in Calls, Step(c)
  PROVE  Emptied'
<1>t. CallTypes /\ CallsOK
  BY Zenon DEF IInv, TypeOK
<1>o. CallOK(call[c]) /\ OnTrack(call[c]) /\ Op(c) # "none"
  BY <1>t, FirstStep, Zenon DEF CallsOK, TrackInv
<1>f. ~Fault("store")
  BY Zenon DEF NoFaults, Fault
<1>d. /\ \A d \in Calls : d # c => call'[d] = call[d]
      /\ call'[c] = Idle \/ Same(call[c], call'[c])
  BY StepFrame, Zenon
<1> USE DEF At, Op
<1>1. ASSUME NEW d \in Calls, d # c, Op(d) = "update", At(d, "release"), ~UNCHANGED stored
      PROVE  FALSE
  <2>1. SetNX(c) \/ Set(c) \/ Del(c)
    BY <1>1, StepTouches, Zenon
  <2>2. CASE SetNX(c)
    BY <2>2, <1>1, <1>o, Zenon DEF SetNX, CallOK, FirstInv, Before
  <2>3. CASE Set(c) \/ Del(c)
    <3>1. Holds(c) /\ Holds(d)
      BY <2>3, <1>1, <1>o, Zenon DEF Set, Del, CallOK, Holds, Outside, Creators
    <3> QED BY <3>1, <1>1, Alone, Zenon
  <2> QED BY <2>1, <2>2, <2>3, Zenon
<1>2. ASSUME call'[c].op = "update", call'[c].at = "release"
      PROVE  stored' # None /\ stored'.tickets = {}
  <2>1. Op(c) = "update"
    BY <1>2, <1>d, IdleFacts, IdleHands, Zenon DEF Same
  <2>2. Set(c)
    <3>1. ~Get(c)
      <4> SUFFICES ASSUME Get(c) PROVE FALSE
        BY Zenon
      <4>1. call'[c].at = "release" => Deletes(c)
        BY <1>f, <1>t DEF Get, CallTypes, CallRecords
      <4> QED BY <4>1, <2>1, <1>2, Zenon DEF Deletes
    <3> QED BY <1>2, <3>1, Targets, Zenon DEF Step
  <2>3. stored' = Written(c) /\ call[c].read # None
    BY <2>1, <2>2, <1>f, <1>o, Zenon DEF Set, Command, CallOK, Creators
  <2>4. stored' \in [gen : Nat, tickets : SUBSET Tickets] /\ stored'.tickets = {}
    BY <2>1, <2>3, <1>t DEF Written, CallTypes, CallRecords, Records, Gens
  <2> QED BY <2>4, BackfillConstants, Zenon
<1> QED BY <1>d, <1>1, <1>2, Zenon DEF Emptied

\* Matches take their tickets from the pool, where no fresh ticket is.
LEMMA FreshStart ==
  ASSUME Timely, IInv, FirstInv, Emptied, FreshInv, NEW c \in Calls, Start(c) \/ StartCleanup(c)
  PROVE  Emptied' /\ FreshInv'
<1>t. CallTypes /\ StoreTypes /\ CallsOK
  BY Zenon DEF IInv, TypeOK
<1>m. MatchFresh /\ ReadFresh /\ StoredFresh
  BY Zenon DEF FreshInv
<1>n. MaxLag \in Nat /\ TTL \in Nat /\ PendingTimeout \in Nat
  BY TTLType, BackfillConstants
<1>0. /\ \A d \in Calls : d # c => call'[d] = call[d]
      /\ UNCHANGED <<stored, acked, assigned>> /\ call[c].at \in {"idle", "mmf"}
  BY StartFrame, BeginFacts, Zenon
<1>1. call'[c].at \in {"mmf", "setnx", "lock"}
  BY BeginFacts, Zenon
<1>2. Emptied'
  BY <1>0, <1>1, Zenon DEF Emptied, Op, At
<1>3. (Live' => Live) /\ (Assigning => Assigning')
  BY <1>0, <1>1, Zenon DEF Live, Deleting, Assigning, At
\* The tickets a call has in its hand now were in the pool.
<1>4. /\ call'[c].match \subseteq Pool
      /\ \A t \in Tickets : t \notin call'[c].match => pend'[t] = pend[t]
      /\ \A t \in Tickets : t \in call'[c].match => pend'[t] = 0
  BY BeginFacts, Zenon
<1>5. ASSUME NEW t \in Tickets, NEW b \in Nat, b <= PendingTimeout, Fresh(t, b)
      PROVE  t \in assigned' \/ (pend'[t] <= b /\ Free(t)')
  <2>1. t \notin Pool
    BY <1>5, <1>n, <1>t DEF Fresh, Pool, Pending, StoreTypes
  <2>2. t \notin call'[c].match /\ pend'[t] = pend[t]
    BY <2>1, <1>4, Zenon
  <2>3. Free(t) => Free(t)'
    BY <2>2, <1>0, Zenon DEF Free
  <2> QED BY <1>0, <1>5, <2>2, <2>3, Zenon DEF Fresh
<1>6. StoredFresh'
  <2> SUFFICES ASSUME Live, acked # None, acked <= TTL, ~Assigning, NEW t \in stored.tickets
               PROVE  Fresh(t, acked + MaxLag)'
    BY <1>0, <1>3, Zenon DEF StoredFresh
  <2>1. t \in Tickets
    BY <1>t DEF Live, StoreTypes, Records
  <2>2. acked + MaxLag \in Nat /\ acked + MaxLag <= PendingTimeout
    BY <1>t, <1>n DEF StoreTypes, Timely
  <2> QED BY <2>1, <2>2, <1>0, <1>5, <1>m, Zenon DEF StoredFresh, Fresh
<1>7. ReadFresh'
  <2> SUFFICES ASSUME NEW d \in Calls, UsesRead(call'[d]), NEW t \in call'[d].read.tickets
               PROVE  Fresh(t, TTL + MaxLag + call[d].lag)'
    BY Zenon DEF ReadFresh
  <2>1. d # c /\ call'[d] = call[d]
    BY <1>0, <1>1, Zenon DEF UsesRead
  <2>2. call[d].read # None
    BY <2>1, <1>t, Zenon DEF CallsOK, CallOK, UsesRead, Creators
  <2>3. t \in Tickets
    BY <2>1, <2>2, <1>t DEF CallTypes, CallRecords, Records
  <2>4. call[d].lag \in 0 .. MaxLag
    BY <1>t, Zenon DEF CallTypes, CallRecords
  <2>5. TTL + MaxLag + call[d].lag \in Nat /\ TTL + MaxLag + call[d].lag <= PendingTimeout
    BY <2>4, <1>n DEF Timely
  <2> QED BY <2>1, <2>3, <2>5, <1>5, <1>m, Zenon DEF ReadFresh, Fresh
<1>8. MatchFresh'
  <2> SUFFICES ASSUME NEW d \in Calls, Carries(call'[d]), Live' \/ Before(call'[d]),
                      NEW t \in call'[d].match
               PROVE  /\ pend'[t] <= call'[d].lag /\ t \notin assigned'
                      /\ \A e \in Calls : e # d /\ Carries(call'[e]) => t \notin call'[e].match
    BY Zenon DEF MatchFresh
  <2>1. ASSUME NEW e \in Calls, e # c, Carries(call[e]), NEW u \in call[e].match,
               Live \/ Before(call[e])
        PROVE  u \notin Pool /\ u \in Tickets
    <3>1. pend[u] <= call[e].lag /\ u \in Tickets
      BY <2>1, <1>m, <1>t, Zenon DEF MatchFresh, CallTypes, CallRecords
    <3>2. call[e].lag \in 0 .. MaxLag /\ pend[u] \in Nat
      BY <3>1, <1>t DEF CallTypes, CallRecords, StoreTypes
    <3> QED BY <3>1, <3>2, <1>n DEF Pool, Pending, Timely
  <2>2. CASE d = c
    <3>1. t \in Pool /\ t \in Tickets
      BY <2>2, <1>4, Zenon DEF Pool
    <3>2. call'[c].lag \in Nat
      BY BeginFacts, <1>t DEF CallTypes, CallRecords
    <3>3. pend'[t] <= call'[d].lag /\ t \notin assigned'
      <4>1. pend'[t] = 0 /\ t \notin assigned'
        BY <2>2, <3>1, <1>0, <1>4, Zenon DEF Pool
      <4> QED BY <2>2, <3>2, <4>1
    <3>4. ASSUME NEW e \in Calls, e # c, Carries(call'[e]), t \in call'[e].match PROVE FALSE
      <4>1. CASE Live
        BY <3>1, <3>4, <4>1, <2>1, <1>0, Zenon
      <4>2. CASE Before(call'[c])
        <5>1. call'[c].op = call[c].op /\ At(c, "mmf")
          BY <2>2, BeginFacts, Zenon
        <5>2. Before(call[c])
          BY <4>2, <5>1, Zenon DEF Before, At
        <5> QED BY <5>2, <3>4, <1>0, Zenon DEF FirstInv, Carries, Op, Creators
      <4> QED BY <2>2, <4>1, <4>2, <1>3, Zenon
    <3> QED BY <2>2, <3>3, <3>4, Zenon
  <2>3. CASE d # c
    <3>1. Carries(call[d]) /\ call'[d] = call[d] /\ t \in call[d].match /\ (Live \/ Before(call[d]))
      BY <2>3, <1>0, <1>3, Zenon
    <3>2. t \notin Pool /\ t \in Tickets
      BY <2>3, <3>1, <2>1, Zenon
    <3>3. t \notin call'[c].match /\ pend'[t] = pend[t]
      BY <3>2, <1>4, Zenon
    <3> QED BY <2>3, <3>1, <3>3, <1>0, <1>m, Zenon DEF MatchFresh
  <2> QED BY <2>2, <2>3, Zenon
<1> QED BY <1>2, <1>6, <1>7, <1>8, Zenon DEF FreshInv

\* Time ages a ticket no faster than the backfill and the calls.
LEMMA FreshOther ==
  ASSUME NoFaults, IInv, Emptied, FreshInv,
         LockExpires \/ QueryAcked \/ QueryIndex \/ QueryFetch \/ Tick \/ UNCHANGED vars
  PROVE  Emptied' /\ FreshInv'
<1>t. CallTypes /\ StoreTypes /\ CallsOK
  BY Zenon DEF IInv, TypeOK
<1>m. MatchFresh /\ ReadFresh /\ StoredFresh
  BY Zenon DEF FreshInv
<1>n. MaxLag \in Nat /\ TTL \in Nat /\ PendingTimeout \in Nat /\ None \notin Nat
  BY TTLType, BackfillConstants
<1>1. CASE UNCHANGED <<call, pend, assigned, stored, acked>>
  BY <1>1, Zenon DEF Emptied, FreshInv, StoredFresh, ReadFresh, MatchFresh, Fresh,
    Free, Live, Assigning, Op, At
<1>2. CASE Tick
  <2>1. /\ \A c \in Calls : /\ call'[c].op = call[c].op /\ call'[c].at = call[c].at
                            /\ call'[c].match = call[c].match /\ call'[c].read = call[c].read
        /\ UNCHANGED <<stored, assigned>>
    BY <1>2, TickFrame, Zenon
  <2>2. /\ \A c \in Calls : /\ Carries(call'[c]) <=> Carries(call[c])
                            /\ UsesRead(call'[c]) <=> UsesRead(call[c])
                            /\ Before(call'[c]) <=> Before(call[c])
        /\ Live' <=> Live
        /\ Assigning' <=> Assigning
    BY <2>1, Zenon DEF Carries, UsesRead, Before, Live, Deleting, Assigning, At
  <2>3. Emptied'
    BY <2>1, Zenon DEF Emptied, Op, At
  <2>4. ASSUME NEW t \in Tickets
        PROVE  pend[t] \in Nat /\ pend'[t] \in Nat /\ pend'[t] <= pend[t] + 1
    <3>1. pend[t] \in 0 .. (PendingTimeout + 1) /\ pend'[t] = Capped(pend[t], PendingTimeout + 1)
      BY <1>2, <1>t DEF Tick, StoreTypes
    <3> QED BY <3>1, <1>n DEF Capped
  <2>5. ASSUME NEW c \in Calls, ~At(c, "idle"), ~At(c, "mmf")
        PROVE  call[c].lag \in Nat /\ call'[c].lag = call[c].lag + 1
    <3>1. call[c] \in CallRecords /\ call'[c] = [call[c] EXCEPT !.lag = @ + 1]
      BY <1>2, <1>t, <2>5, Zenon DEF Tick, CallTypes, At
    <3> QED BY <3>1, <1>n DEF CallRecords
  <2>6. ASSUME NEW t \in Tickets, NEW b \in Nat, Fresh(t, b)
        PROVE  t \in assigned' \/ (pend'[t] <= b + 1 /\ Free(t)')
    <3>1. Free(t) => Free(t)'
      BY <2>1, <2>2, Zenon DEF Free
    <3>2. pend[t] <= b => pend'[t] <= b + 1
      BY <2>4
    <3> QED BY <2>1, <2>6, <3>1, <3>2, Zenon DEF Fresh
  <2>7. StoredFresh'
    <3> SUFFICES ASSUME Live, acked' # None, acked' <= TTL, ~Assigning, NEW t \in stored.tickets
                 PROVE  Fresh(t, acked + MaxLag)'
      BY <2>1, <2>2, Zenon DEF StoredFresh
    <3>1. t \in Tickets
      BY <1>t DEF Live, StoreTypes, Records
    <3>2. /\ acked # None /\ acked <= TTL /\ acked + MaxLag \in Nat
          /\ acked' + MaxLag = acked + MaxLag + 1
      <4>1. acked # None /\ acked' = Capped(acked, TTL + 1)
        BY <1>2, Zenon DEF Tick
      <4>2. acked \in Nat
        BY <4>1, <1>t, <1>n DEF StoreTypes
      <4> QED BY <4>1, <4>2, <1>n DEF Capped
    <3>3. Fresh(t, acked + MaxLag)
      BY <3>2, <1>m, Zenon DEF StoredFresh
    <3>4. t \in assigned' \/ (pend'[t] <= acked + MaxLag + 1 /\ Free(t)')
      BY <3>1, <3>2, <3>3, <2>6, Zenon
    <3> QED BY <3>2, <3>4, Zenon DEF Fresh
  <2>8. ReadFresh'
    <3> SUFFICES ASSUME NEW c \in Calls, UsesRead(call[c]), NEW t \in call[c].read.tickets
                 PROVE  Fresh(t, TTL + MaxLag + call[c].lag)'
      BY <2>1, <2>2, Zenon DEF ReadFresh
    <3>1. call[c].read # None /\ ~At(c, "idle") /\ ~At(c, "mmf")
      BY <1>t, Zenon DEF CallsOK, CallOK, UsesRead, Creators, At
    <3>2. t \in Tickets
      BY <3>1, <1>t DEF CallTypes, CallRecords, Records
    <3>3. TTL + MaxLag + call[c].lag \in Nat
          /\ TTL + MaxLag + call'[c].lag = TTL + MaxLag + call[c].lag + 1
      BY <3>1, <2>5, <1>n
    <3>4. t \in assigned' \/ (pend'[t] <= TTL + MaxLag + call[c].lag + 1 /\ Free(t)')
      BY <3>2, <3>3, <2>6, <1>m, Zenon DEF ReadFresh
    <3> QED BY <3>3, <3>4, Zenon DEF Fresh
  <2>9. MatchFresh'
    <3> SUFFICES ASSUME NEW c \in Calls, Carries(call[c]), Live \/ Before(call[c]),
                        NEW t \in call[c].match
                 PROVE  /\ pend'[t] <= call'[c].lag /\ t \notin assigned'
                        /\ \A d \in Calls : d # c /\ Carries(call'[d]) => t \notin call'[d].match
      BY <2>1, <2>2, Zenon DEF MatchFresh
    <3>1. /\ pend[t] <= call[c].lag /\ t \notin assigned /\ t \in Tickets
          /\ \A d \in Calls : d # c /\ Carries(call[d]) => t \notin call[d].match
      BY <1>m, <1>t, Zenon DEF MatchFresh, CallTypes, CallRecords
    <3>2. ~At(c, "idle") /\ ~At(c, "mmf")
      BY Zenon DEF Carries, At
    <3>3. pend'[t] <= call'[c].lag
      BY <3>1, <3>2, <2>4, <2>5
    <3> QED BY <3>1, <3>3, <2>1, <2>2, Zenon
  <2> QED BY <2>3, <2>7, <2>8, <2>9, Zenon DEF FreshInv
<1> QED
  BY <1>1, <1>2, Zenon DEF LockExpires, QueryAcked, QueryIndex, QueryFetch,
    queryFrame, vars, redisVars

\* The invariant behind the tickets an acknowledgement assigns.
THEOREM FreshInvariant ==
  ASSUME NoFaults, Timely
  PROVE  Spec => [](IInv /\ SafeInv /\ WayInv /\ Emptied /\ FreshInv)
<1>1. Init => Emptied /\ FreshInv
  <2> SUFFICES ASSUME Init PROVE Emptied /\ FreshInv
    BY Zenon
  <2>1. \A c \in Calls : call[c] = Idle
    BY Zenon DEF Init
  <2>2. ~Live /\ Emptied
    BY <2>1, IdleFacts, IdleHands, Zenon DEF Init, Live, Emptied, Op, At
  <2> QED
    BY <2>1, <2>2, IdleFacts, IdleHands, Zenon DEF FreshInv, StoredFresh, ReadFresh, MatchFresh,
      UsesRead
<1>2. IInv /\ SafeInv /\ WayInv /\ Emptied /\ FreshInv /\ [Next]_vars => Emptied' /\ FreshInv'
  <2> SUFFICES ASSUME IInv, SafeInv, WayInv, Emptied, FreshInv, [Next]_vars
               PROVE  Emptied' /\ FreshInv'
    BY Zenon
  <2>0. FirstInv /\ TrackInv
    BY Zenon DEF WayInv
  <2>1. ASSUME NEW c \in Calls, Step(c) PROVE Emptied' /\ FreshInv'
    BY <2>0, <2>1, EmptiedStep, FreshStep, Zenon
  <2>2. ASSUME NEW c \in Calls, Start(c) \/ StartCleanup(c) PROVE Emptied' /\ FreshInv'
    BY <2>0, <2>2, FreshStart, Zenon
  <2>3. CASE LockExpires \/ QueryAcked \/ QueryIndex \/ QueryFetch \/ Tick \/ UNCHANGED vars
    BY <2>0, <2>3, FreshOther, Zenon
  <2>4. \A c \in Calls : ~Crash(c)
    BY Zenon DEF Crash, Fault, NoFaults
  <2> QED BY <2>1, <2>2, <2>3, <2>4, Zenon DEF Next
<1>3. Spec => [](IInv /\ SafeInv /\ WayInv)
  BY WayInvariant, Zenon
<1> QED BY <1>1, <1>2, <1>3, PTL DEF Spec

\* While nothing fails, and a call ends within half of what is left of the pending
\* release timeout when a backfill expires, an acknowledgement only assigns tickets
\* that no other match can have taken in the meantime.
THEOREM AssignsPending ==
  ASSUME NoFaults, Timely
  PROVE  Spec => AssignedWhilePending
<1> DEFINE Still == \A t \in assigned' \ assigned : Pending(t)
<1>1. IInv /\ SafeInv /\ WayInv /\ Emptied /\ FreshInv /\ [Next]_vars => [Still]_vars
  <2> SUFFICES ASSUME IInv, SafeInv, WayInv, FreshInv, Next, NEW t \in assigned' \ assigned
               PROVE  Pending(t)
    BY Zenon
  <2>f. \A c \in Calls : ~Crash(c)
    BY Zenon DEF Crash, Fault, NoFaults
  <2>1. PICK c \in Calls : Assign(c)
    <3>1. ~UNCHANGED assigned
      BY Zenon
    <3> QED
      BY <3>1, <2>f, StepTouches, StartFrame, TickFrame, Zenon DEF Next, LockExpires,
        QueryAcked, QueryIndex, QueryFetch, queryFrame, redisVars
  <2>2. t \in call[c].read.tickets
    BY <2>1, Zenon DEF Assign, Command
  <2>3. At(c, "assign") /\ Op(c) = "ack"
    <3>1. At(c, "assign")
      BY <2>1, Zenon DEF Assign
    <3>2. OnTrack(call[c]) /\ CallOK(call[c]) /\ Op(c) \in Ops /\ (Op(c) = "none" => At(c, "idle"))
      BY Zenon DEF IInv, TypeOK, CallTypes, CallRecords, CallsOK, WayInv, TrackInv,
        FirstInv, Op
    <3> QED BY <3>1, <3>2, Zenon DEF OnTrack, CallOK, Ops, Creators, Op, At
  <2>4. pend[t] <= TTL + MaxLag + call[c].lag
    BY <2>2, <2>3, Zenon DEF FreshInv, ReadFresh, UsesRead, Fresh, Op, At
  <2>5. call[c].lag \in 0 .. MaxLag /\ t \in Tickets
    <3>1. call[c].read # None
      BY <2>3, Zenon DEF IInv, CallsOK, CallOK, Creators, Op, At
    <3> QED BY <3>1, <2>2 DEF IInv, TypeOK, CallTypes, CallRecords, Records
  <2>6. pend[t] \in Nat
    BY <2>5, BackfillConstants DEF IInv, TypeOK, StoreTypes
  <2> QED BY <2>4, <2>5, <2>6, TTLType, BackfillConstants DEF Pending, Timely
<1> HIDE DEF Still
<1>2. Spec => [](IInv /\ SafeInv /\ WayInv /\ Emptied /\ FreshInv)
  BY FreshInvariant, Zenon
<1>3. Spec => [][Still]_vars
  BY <1>1, <1>2, PTL DEF Spec
<1> QED BY <1>3, PTL DEF AssignedWhilePending, Still
==============================================================================
