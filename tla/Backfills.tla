----------------------------- MODULE Backfills -----------------------------
(***************************************************************************)
(* The life of one backfill: its Redis record, its index entry, the time   *)
(* of its last acknowledgement and the lock that guards it, with the calls *)
(* that share them (statestore/backfill.go and its callers).  Game servers *)
(* create, update, acknowledge and delete it, FetchMatches adds a match's  *)
(* tickets to it, every synchronizer cycle removes it once expired, and    *)
(* query servers cache it.  Ids are unique and every key, lock and index   *)
(* entry belongs to one id, so that one backfill stands for all.  One      *)
(* action is one Redis command, with the local work that follows it.       *)
(* Times are ages in ticks, saturating where nothing tells them apart.     *)
(***************************************************************************)
EXTENDS Naturals, FiniteSets

CONSTANTS
    Calls,          \* calls that may run at the same time
    Tickets,        \* the tickets matchmaking may add to the backfill
    PendingTimeout, \* pendingReleaseTimeout, in ticks
    MaxLag,         \* bound: ticks that may pass while a call runs
    MaxCalls,       \* bound: calls of clients and matchmaking
    MaxFaults,      \* bound: failures
    Faults,         \* what may fail: "store" a command, "crash" a process,
                    \* "expiry" the lock expires while its holder works
    None            \* no value

ASSUME BackfillConstants ==
    /\ PendingTimeout \in Nat /\ MaxLag \in Nat
    /\ MaxCalls \in Nat /\ MaxFaults \in Nat
    /\ Faults \subseteq {"store", "crash", "expiry"}
    /\ None \notin Nat /\ None \notin Calls
    /\ None \notin [gen : Nat, tickets : SUBSET Tickets]

VARIABLES
    stored,     \* the backfill key: None or its generation and ticket ids
    index,      \* its generation in allBackfills, or None
    acked,      \* age of its backfill_last_ack_time entry, or None
    pend,       \* ticket -> age of its proposed_ticket_ids entry
    assigned,   \* tickets assigned, and so deindexed, through the backfill
    lock,       \* the holder of lock/<id>, or None
    call,       \* call -> what it does, where it is and what it knows
    known,      \* "no", "creating" or "yes": whether clients have the id
    view,       \* the generation in a query server's cache, or None
    query,      \* progress of updateBackfillCache, and what it read
    calls,      \* calls made so far
    faults,     \* failures so far
    aborted     \* tickets FetchMatches left pending when something failed

redisVars == <<stored, index, acked, pend, assigned, lock>>
queryVars == <<view, query>>
ghostVars == <<calls, aborted>>
vars == <<redisVars, call, known, queryVars, ghostVars, faults>>

NoMargin == PendingTimeout

\* getBackfillReleaseTimeout
TTL == (PendingTimeout \div 5) * 4

\* proposed_ticket_ids entries older than the timeout do not count.
Pending(t) == pend[t] <= PendingTimeout
Unpend(ts) == [t \in Tickets |-> IF t \in ts THEN PendingTimeout + 1 ELSE pend[t]]
Pool == {t \in Tickets : ~Pending(t) /\ t \notin assigned}

NewCall(op, at, seen) ==
    [op |-> op, at |-> at, seen |-> seen, match |-> {}, read |-> None, lag |-> 0]
Idle == NewCall("none", "idle", None)
NoQuery == [at |-> "idle", since |-> None]

Init ==
    /\ stored = None /\ index = None /\ acked = None
    /\ pend = [t \in Tickets |-> PendingTimeout + 1] /\ assigned = {}
    /\ lock = None
    /\ call = [c \in Calls |-> Idle]
    /\ known = "no"
    /\ view = None /\ query = NoQuery
    /\ calls = 0 /\ faults = 0 /\ aborted = {}

At(c, where) == call[c].at = where
Go(c, where) == call' = [call EXCEPT ![c].at = where]
Op(c) == call[c].op

\* The call returns; FetchMatches keeps the tickets of a match it fails on
\* pending.
Return(c) == call' = [call EXCEPT ![c] = Idle] /\ UNCHANGED aborted
Abort(c) ==
    /\ call' = [call EXCEPT ![c] = Idle]
    /\ aborted' = aborted \cup call[c].match

Fault(kind) == kind \in Faults /\ faults < MaxFaults /\ faults' = faults + 1

\* A command that may fail: its effect happens and the call goes on as in "ok",
\* or the call sees an error and goes on as in "bad", with the effect or not.
Command(effect, none, ok, bad) ==
    \/ effect /\ ok /\ UNCHANGED faults
    \/ (effect \/ none) /\ bad /\ Fault("store")
-----------------------------------------------------------------------------
(* Calls begin. *)

Begin(c, op, at) ==
    /\ call[c] = Idle /\ calls < MaxCalls /\ calls' = calls + 1
    /\ call' = [call EXCEPT ![c] = NewCall(op, at, None)]
    /\ UNCHANGED <<redisVars, queryVars, aborted, faults>>

\* The frontend's CreateBackfill.
StartCreate(c) == known = "no" /\ known' = "creating" /\ Begin(c, "create", "setnx")

\* UpdateBackfill, AcknowledgeBackfill and DeleteBackfill of a game server.
StartClient(c) ==
    /\ known = "yes" /\ UNCHANGED known
    /\ \E op \in {"update", "ack", "delete"} : Begin(c, op, "lock")

\* A match function proposes a match with the backfill it queried, or with a
\* new one; the evaluator accepts it.
Propose(c) ==
    /\ call[c] = Idle /\ calls < MaxCalls /\ calls' = calls + 1
    /\ \E op \in {"fetch", "new"} :
         /\ IF op = "fetch" THEN view # None /\ UNCHANGED known
                           ELSE known = "no" /\ known' = "creating"
         /\ call' = [call EXCEPT ![c] = NewCall(op, "mmf", view)]
    /\ UNCHANGED <<redisVars, queryVars, aborted, faults>>

\* The synchronizer makes the match's tickets pending and returns the match to
\* the backend, which calls createOrUpdateBackfill.
Pend(c) ==
    /\ At(c, "mmf")
    /\ \E ts \in SUBSET Pool \ {{}} :
         /\ pend' = [t \in Tickets |-> IF t \in ts THEN 0 ELSE pend[t]]
         /\ call' = [call EXCEPT ![c].match = ts,
                                 ![c].at = IF Op(c) = "new" THEN "setnx"
                                                            ELSE "lock"]
         /\ aborted' = aborted \ ts
    /\ UNCHANGED <<stored, index, acked, assigned, lock, known, queryVars, calls,
                   faults>>

JustExpired == acked # None /\ acked = TTL

\* GetExpiredBackfillIDs finds the backfill, and a cleanupWorker takes it up.
Expired == acked # None /\ acked >= TTL
StartCleanup(c) ==
    /\ call[c] = Idle /\ Expired
    /\ call' = [call EXCEPT ![c] = NewCall("cleanup", "lock", None)]
    /\ UNCHANGED <<redisVars, known, queryVars, ghostVars, faults>>
-----------------------------------------------------------------------------
(* The lock of the backfill. *)

Unguarded(c) == lock' = c

Acquire(c) == lock = None /\ lock' = c

\* Lock; while someone else holds it the caller retries and may give up.
Lock(c) ==
    /\ At(c, "lock")
    /\ \/ /\ Acquire(c)
          /\ Go(c, IF Op(c) \in {"delete", "cleanup"} THEN "hdel" ELSE "get")
          /\ UNCHANGED <<aborted, faults>>
       \/ lock # None /\ Abort(c) /\ UNCHANGED <<lock, faults>>
       \/ Fault("store") /\ Abort(c) /\ UNCHANGED lock
    /\ UNCHANGED <<stored, index, acked, pend, assigned, known, queryVars, calls>>

\* The deferred Unlock, which only removes a lock that is still the caller's,
\* and where the call goes from there: FetchMatches drops a match whose
\* backfill is gone or changed, and fails on any other error.
Unlock(c) ==
    /\ call[c].at \in {"unlock", "reject", "fail"}
    /\ \/ lock' = (IF lock = c THEN None ELSE lock) /\ UNCHANGED faults
       \/ Fault("store") /\ UNCHANGED lock
    /\ \/ At(c, "unlock") /\ Return(c)
       \/ At(c, "reject") /\ Go(c, "drop") /\ UNCHANGED aborted
       \/ At(c, "fail") /\ Abort(c)
    /\ UNCHANGED <<stored, index, acked, pend, assigned, known, queryVars, calls>>

\* The calls between Lock and Unlock.
Outside == {"idle", "mmf", "setnx", "lock", "drop"}
Holds(c) == call[c].at \notin Outside /\ Op(c) \notin {"create", "new"}

\* A lock outlives a holder that crashed, or failed to unlock, until it expires.
LockExpires ==
    /\ lock # None /\ lock' = None
    /\ \/ ~Holds(lock) /\ UNCHANGED faults
       \/ Holds(lock) /\ Fault("expiry")
    /\ UNCHANGED <<stored, index, acked, pend, assigned, call, known, queryVars,
                   ghostVars>>
-----------------------------------------------------------------------------
(* The commands of the calls, by the Redis command. *)

FirstGeneration == 1

\* CreateBackfill; the id is new, so that no record is in the way.
SetNX(c) ==
    /\ At(c, "setnx")
    /\ Command(stored' = [gen |-> FirstGeneration, tickets |-> call[c].match],
               UNCHANGED stored,
               Go(c, "zadd") /\ UNCHANGED aborted,
               Abort(c))
    /\ UNCHANGED <<index, acked, pend, assigned, lock, known, queryVars, calls>>

\* GetBackfill: NotFound and a generation other than the match's make
\* FetchMatches drop the match; DeleteBackfillCompletely goes on regardless.
Deletes(c) == Op(c) \in {"delete", "cleanup"}

Rejected(c) == stored = None \/ (Op(c) = "fetch" /\ stored.gen # call[c].seen)

Get(c) ==
    /\ At(c, "get")
    /\ LET next == CASE Deletes(c) -> "release"
                     [] ~Deletes(c) /\ Rejected(c) ->
                          IF Op(c) = "fetch" THEN "reject" ELSE "fail"
                     [] OTHER -> "check"
       IN \/ /\ call' = [call EXCEPT ![c].read = stored, ![c].at = next]
             /\ UNCHANGED faults
          \/ /\ Go(c, IF Deletes(c) THEN "release" ELSE "fail")
             /\ Fault("store")
    /\ UNCHANGED <<redisVars, known, queryVars, ghostVars>>

\* isBackfillExpired
IsBackfillExpired == acked # None /\ acked > TTL

\* The check of UpdateBackfill ("check" for an update or a match, "recheck" for
\* an acknowledgement) and of UpdateAcknowledgmentTimestamp ("check").
Check(c) ==
    /\ call[c].at \in {"check", "recheck"}
    /\ \/ /\ acked # None /\ ~IsBackfillExpired /\ UNCHANGED faults
          /\ Go(c, IF Op(c) = "ack" /\ At(c, "check") THEN "zadd" ELSE "set")
       \/ (acked = None \/ IsBackfillExpired) /\ UNCHANGED faults /\ Go(c, "fail")
       \/ Fault("store") /\ Go(c, "fail")
    /\ UNCHANGED <<redisVars, known, queryVars, ghostVars>>

\* doUpdateAcknowledgmentTimestamp, in CreateBackfill and AcknowledgeBackfill.
ZAdd(c) ==
    /\ At(c, "zadd")
    /\ Command(acked' = 0, UNCHANGED acked,
               /\ Go(c, CASE Op(c) # "ack" -> "hset"
                          [] Op(c) = "ack" /\ call[c].read.tickets = {} -> "unlock"
                          [] OTHER -> "assign")
               /\ UNCHANGED aborted,
               IF Op(c) = "ack" THEN Go(c, "fail") /\ UNCHANGED aborted
                                ELSE Abort(c))
    /\ UNCHANGED <<stored, index, pend, assigned, lock, known, queryVars, calls>>

\* AcknowledgeBackfill assigns and deindexes the tickets it read.
Assign(c) ==
    /\ At(c, "assign")
    /\ Command(assigned' = assigned \cup call[c].read.tickets,
               UNCHANGED assigned, Go(c, "recheck"), Go(c, "fail"))
    /\ UNCHANGED <<stored, index, acked, pend, lock, known, queryVars, ghostVars>>

ReplacesTickets(c) ==
    [gen |-> call[c].read.gen + (IF Op(c) = "ack" THEN 0 ELSE 1),
     tickets |-> IF Op(c) = "fetch" THEN call[c].match ELSE {}]

\* What the SET of UpdateBackfill writes, for each of its callers.
Written(c) ==
    [gen |-> call[c].read.gen + (IF Op(c) = "ack" THEN 0 ELSE 1),
     tickets |-> IF Op(c) = "fetch" THEN call[c].read.tickets \cup call[c].match
                                    ELSE {}]

Set(c) ==
    /\ At(c, "set")
    /\ Command(stored' = Written(c), UNCHANGED stored,
               Go(c, CASE Op(c) = "ack" -> "unlock"
                       [] Op(c) = "update" -> "release"
                       [] OTHER -> "hset"),
               Go(c, "fail"))
    /\ UNCHANGED <<index, acked, pend, assigned, lock, known, queryVars, ghostVars>>

\* DeleteTicketsFromPendingRelease of the backfill's former tickets, which does
\* nothing when there are none.
Release(c) ==
    /\ At(c, "release")
    /\ LET ts == IF call[c].read = None THEN {} ELSE call[c].read.tickets
       IN Command(pend' = Unpend(ts), UNCHANGED pend,
                  Go(c, IF Deletes(c) THEN "del" ELSE "hset"),
                  ts # {} /\ Go(c, IF Deletes(c) THEN "del" ELSE "fail"))
    /\ UNCHANGED <<stored, index, acked, assigned, lock, known, queryVars, ghostVars>>

\* IndexBackfill sends HSET without reading the reply, so that a lost command
\* may go unnoticed.  It ends every call it is part of.
HSet(c) ==
    /\ At(c, "hset")
    /\ LET gen == IF Op(c) \in {"create", "new"} THEN FirstGeneration
                  ELSE Written(c).gen
           done == IF Op(c) \in {"create", "new"} THEN Return(c) /\ known' = "yes"
                   ELSE Go(c, "unlock") /\ UNCHANGED <<aborted, known>>
           error == IF Op(c) \in {"create", "new"} THEN Abort(c) /\ UNCHANGED known
                    ELSE Go(c, "fail") /\ UNCHANGED <<aborted, known>>
       IN Command(index' = gen, UNCHANGED index, done, done \/ error)
    /\ UNCHANGED <<stored, acked, pend, assigned, lock, queryVars, calls>>

\* DeindexBackfill, which sends HDEL in the same way; an error ends the deletion.
HDel(c) ==
    /\ At(c, "hdel")
    /\ Command(index' = None, UNCHANGED index, Go(c, "get"),
               Go(c, "get") \/ Go(c, "fail"))
    /\ UNCHANGED <<stored, acked, pend, assigned, lock, known, queryVars, ghostVars>>

\* DeleteBackfill: when DEL removes nothing it reports NotFound, and the
\* acknowledgement entry stays.
Del(c) ==
    /\ At(c, "del")
    /\ Command(stored' = None, UNCHANGED stored,
               Go(c, IF stored = None THEN "unlock" ELSE "zrem"),
               Go(c, "unlock"))
    /\ UNCHANGED <<index, acked, pend, assigned, lock, known, queryVars, ghostVars>>

\* deleteExpiredBackfillID
ZRem(c) ==
    /\ At(c, "zrem")
    /\ Command(acked' = None, UNCHANGED acked, Go(c, "unlock"), Go(c, "unlock"))
    /\ UNCHANGED <<stored, index, pend, assigned, lock, known, queryVars, ghostVars>>

\* synchronizeRecv releases the tickets of the match it drops.
Drop(c) ==
    /\ At(c, "drop")
    /\ \/ pend' = Unpend(call[c].match) /\ Return(c) /\ UNCHANGED faults
       \/ Fault("store") /\ Abort(c) /\ UNCHANGED pend
    /\ UNCHANGED <<stored, index, acked, assigned, lock, known, queryVars, calls>>

\* The process of a call dies between two commands.
Crash(c) ==
    /\ call[c] # Idle /\ Fault("crash") /\ Abort(c)
    /\ UNCHANGED <<redisVars, known, queryVars, calls>>
-----------------------------------------------------------------------------
(* updateBackfillCache of a query server. *)

queryFrame == <<redisVars, call, known, ghostVars>>

\* GetIndexedBackfills, first command: is the backfill acknowledged in time?
QueryAcked ==
    /\ query.at = "idle"
    /\ query' = [at |-> IF acked # None /\ acked <= TTL THEN "live" ELSE "lapsed",
                since |-> index]
    /\ UNCHANGED <<view, queryFrame, faults>>

KeepCached(gen) == gen = None

\* A cached backfill is dropped when it is no longer indexed or a newer
\* generation is.
Outdated(gen) == gen = None \/ view < gen

\* GetIndexedBackfills, second command: HGETALL.  A failure leaves the cache as
\* it is.
QueryIndex ==
    /\ query.at \in {"live", "lapsed"}
    /\ \/ LET gen == IF query.at = "live" THEN index ELSE None
              kept == IF view = None \/ Outdated(gen) THEN None ELSE view
          IN /\ view' = kept
             /\ query' = IF gen # None /\ kept = None
                         THEN [query EXCEPT !.at = "fetch"]
                         ELSE NoQuery
             /\ UNCHANGED faults
       \/ /\ Fault("store") /\ UNCHANGED view
          /\ query' = NoQuery
    /\ UNCHANGED queryFrame

\* GetBackfills: MGET; a backfill that is gone by now is left out.
QueryFetch ==
    /\ query.at = "fetch"
    /\ \/ view' = (IF stored = None THEN None ELSE stored.gen) /\ UNCHANGED faults
       \/ Fault("store") /\ UNCHANGED view
    /\ query' = NoQuery
    /\ UNCHANGED queryFrame
-----------------------------------------------------------------------------
Capped(n, cap) == IF n >= cap THEN cap ELSE n + 1

\* Time passes; no call takes more than MaxLag ticks once it has tickets or
\* wants the lock.
Tick ==
    /\ \A c \in Calls : call[c].at \in {"idle", "mmf"} \/ call[c].lag < MaxLag
    /\ acked' = (IF acked = None THEN None ELSE Capped(acked, TTL + 1))
    /\ pend' = [t \in Tickets |-> Capped(pend[t], PendingTimeout + 1)]
    /\ call' = [c \in Calls |-> IF call[c].at \in {"idle", "mmf"} THEN call[c]
                                ELSE [call[c] EXCEPT !.lag = @ + 1]]
    /\ UNCHANGED <<stored, index, assigned, lock, known, queryVars, ghostVars, faults>>

Start(c) == StartCreate(c) \/ StartClient(c) \/ Propose(c) \/ Pend(c)

Step(c) ==
    \/ Lock(c) \/ Unlock(c) \/ SetNX(c) \/ Get(c) \/ Check(c) \/ ZAdd(c)
    \/ Assign(c) \/ Set(c) \/ Release(c) \/ HSet(c) \/ HDel(c) \/ Del(c)
    \/ ZRem(c) \/ Drop(c)

Next ==
    \/ \E c \in Calls : Start(c) \/ StartCleanup(c) \/ Step(c) \/ Crash(c)
    \/ LockExpires \/ QueryAcked \/ QueryIndex \/ QueryFetch \/ Tick

Spec == Init /\ [][Next]_vars

\* Calls that have begun go on, cycles and so cleanups keep coming, locks
\* expire and time passes.
FairSpec ==
    /\ Spec
    /\ \A c \in Calls : WF_vars(Step(c))
    /\ WF_vars(\E c \in Calls : StartCleanup(c))
    /\ WF_vars(LockExpires) /\ WF_vars(Tick)
-----------------------------------------------------------------------------
(* Properties. *)

Gens == Nat \ {0}
Records == [gen : Gens, tickets : SUBSET Tickets]
Ops == {"none", "create", "update", "ack", "delete", "fetch", "new", "cleanup"}
Places == {"idle", "mmf", "setnx", "lock", "unlock", "reject", "fail", "get",
           "check", "recheck", "zadd", "assign", "set", "release", "hset", "hdel",
           "del", "zrem", "drop"}

StoreTypes ==
    /\ stored \in Records \cup {None} /\ index \in Gens \cup {None}
    /\ acked \in 0 .. (TTL + 1) \cup {None}
    /\ pend \in [Tickets -> 0 .. (PendingTimeout + 1)]
    /\ assigned \subseteq Tickets /\ lock \in Calls \cup {None}

CallRecords ==
    [op : Ops, at : Places, seen : Gens \cup {None}, match : SUBSET Tickets,
     read : Records \cup {None}, lag : 0 .. MaxLag]
CallTypes == call \in [Calls -> CallRecords]

OtherTypes ==
    /\ known \in {"no", "creating", "yes"} /\ view \in Gens \cup {None}
    /\ query \in [at : {"idle", "live", "lapsed", "fetch"}, since : Gens \cup {None}]
    /\ calls \in 0 .. MaxCalls /\ faults \in 0 .. MaxFaults
    /\ aborted \subseteq Tickets

\* Every variable stays in its type; a stored backfill has a generation of at
\* least 1.
TypeOK == StoreTypes /\ CallTypes /\ OtherTypes

\* No update is lost: UpdateBackfill replaces exactly the record its call read,
\* so that neither the tickets of another match nor a newer generation
\* disappears, whatever other calls do between its GET and its SET.
NoLostUpdate ==
    [][\A c \in Calls : At(c, "set") /\ stored' # stored => stored = call[c].read]_vars

\* A match joins the very generation its match function saw.
JoinsSeenGeneration ==
    [][\A c \in Calls : At(c, "set") /\ Op(c) = "fetch" /\ stored' # stored =>
         stored # None /\ stored.gen = call[c].seen]_vars

\* Every UpdateBackfill builds on what its caller saw: the record it read under the
\* lock, and for a match the generation its match function was given.
UpdatesBuildOnSeen == NoLostUpdate /\ JoinsSeenGeneration

\* The tickets an acknowledgement assigns are still pending, so that no other
\* match can have taken them from the pool: the backfill expires, at 80% of the
\* pending release timeout, before they come back.
AssignedWhilePending ==
    [][\A t \in assigned' \ assigned : Pending(t)]_vars

\* Between calls the index holds the stored generation and the acknowledgement
\* times hold the backfill exactly as long as it is stored.
IndexFollowsRecord ==
    (lock = None /\ \A c \in Calls : ~Holds(c) /\ Op(c) \notin {"create", "new"}) =>
      /\ index = (IF stored = None THEN None ELSE stored.gen)
      /\ (acked = None) = (stored = None)

\* No ticket is left pending for nothing: it waits for the backfill, belongs to
\* a running call or is assigned, or FetchMatches failed on its match.
PendingForAReason ==
    \A t \in Tickets : Pending(t) /\ t \notin assigned \cup aborted =>
      \/ stored # None /\ t \in stored.tickets
      \/ \E c \in Calls :
           t \in call[c].match \cup (IF call[c].read = None THEN {}
                                     ELSE call[c].read.tickets)

\* A cache update leaves no generation older than the one indexed when it began.
ServedIsRecent ==
    [][query.at # "idle" /\ query'.at = "idle" /\ query.since # None /\ view' # None
         /\ faults' = faults => view' >= query.since]_vars

\* What queries serve follows what is stored: the index between calls, and the cache
\* after each of its updates.
ServedFollowsStored == []IndexFollowsRecord /\ ServedIsRecent

\* An expired backfill is removed, whatever fails on the way.  An update that
\* lost its lock may write the record back after a cleanup; what it writes has
\* no acknowledgement time and does not count as expired.
ExpiredRemoved ==
    (stored # None /\ acked # None /\ acked > TTL) ~> (stored = None \/ acked = None)
=============================================================================
