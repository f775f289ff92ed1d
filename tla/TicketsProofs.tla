--------------------------- MODULE TicketsProofs ---------------------------
(***************************************************************************)
(* Proofs about Tickets, for any sets of tickets, assignment calls, query  *)
(* servers and watchers.  With Faults unrestricted: what a reader of the   *)
(* store may rely on although commands fail and servers crash.             *)
(***************************************************************************)
EXTENDS Tickets, TLAPS

\* Only tickets that are known to clients are in the pool, deleted or assigned.
KnownInv ==
    /\ \A t \in Tickets : create[t] = "idle" => tickets[t] = None
    /\ \A t \in Tickets : create[t] # "done" =>
         /\ tickets[t] \notin Assigns /\ delete[t] = "idle"
         /\ t \notin allTickets /\ t \notin proposedTicketIDs
    /\ \A a \in Assigns : \A t \in ids[a] : create[t] = "done"
    /\ \A a \in Assigns : found[a] \subseteq ids[a] /\ deindex[a] \subseteq ids[a]

\* FailureIsFinal, from the moment of the MGET.
FailInv ==
    \A a \in Assigns : assign[a] \in {"read", "deindex", "unpend", "done"} =>
        \A t \in ids[a] \ found[a] : tickets[t] = None

\* AcknowledgeBackfill does not touch the pending release entries, and only a call
\* that has assigned its tickets deindexes them.
StepInv ==
    /\ \A a \in Acks : assign[a] # "unpend"
    /\ \A a \in Assigns : assign[a] \in {"idle", "read"} => deindex[a] = {}

\* A ticket whose assignment was sent to a watcher never is without one again.
WatchInv ==
    \A t \in Watched : sent[t] # <<>> => tickets[t] # "new" /\ create[t] # "idle"

TInv == TypeOK /\ KnownInv /\ StepInv /\ WatchInv
-----------------------------------------------------------------------------
(* Types *)

\* What the steps of an assignment are.
LEMMA CleanupSteps ==
    ASSUME NEW a \in Assigns
    PROVE  /\ Cleanup(a)[1] = "deindex"
           /\ a \in Acks => /\ assign[a] = "deindex" => AfterCleanup(a) = "done"
           /\ a \notin Acks => /\ assign[a] = "deindex" => AfterCleanup(a) = "unpend"
                               /\ assign[a] = "unpend" => AfterCleanup(a) = "done"
BY Zenon DEF Cleanup, AfterCleanup

\* Every Redis command keeps the types of tickets, index and pending release set.
LEMMA StoreTypesStep ==
    ASSUME TInv
    PROVE  [Next]_vars => StoreTypes'
<1>1. ASSUME NEW t \in Tickets, CreateTicket(t) PROVE StoreTypes'
  <2>1. tickets' \in [Tickets -> Contents]
    BY <1>1, Zenon DEF CreateTicket, TInv, TypeOK, StoreTypes, Contents
  <2>0. tickets \in [Tickets -> Contents] /\ tickets[t] = None
    BY <1>1, Zenon DEF CreateTicket, TInv, TypeOK, StoreTypes, KnownInv
  <2>2. \A u \in Tickets : tickets'[u] \in Assigns <=> tickets[u] \in Assigns
    <3>1. CASE tickets' = tickets
      BY <3>1, Zenon
    <3>2. CASE tickets' = [tickets EXCEPT ![t] = "new"]
      BY <2>0, <3>2, TicketConstants, Zenon
    <3> QED BY <1>1, <3>1, <3>2, Zenon DEF CreateTicket
  <2>3. volatile' = {u \in Tickets : tickets'[u] \in Assigns}
    BY <1>1, <2>2, Zenon DEF CreateTicket, TInv, TypeOK, StoreTypes
  <2> QED BY <1>1, <2>1, <2>3, Zenon DEF CreateTicket, TInv, TypeOK, StoreTypes
<1>2. ASSUME NEW t \in Tickets, IndexTicket(t) PROVE StoreTypes'
  BY <1>2, TicketConstants DEF IndexTicket, TInv, TypeOK, StoreTypes, CallTypes,
    AssignTypes, KnownInv, Contents
<1>3. ASSUME NEW t \in Tickets, DeleteDeindex(t) PROVE StoreTypes'
  BY <1>3, TicketConstants DEF DeleteDeindex, TInv, TypeOK, StoreTypes, CallTypes,
    AssignTypes, KnownInv, Contents
<1>4. ASSUME NEW t \in Tickets, DeleteTicket(t) PROVE StoreTypes'
  <2>1. tickets \in [Tickets -> Contents] /\ volatile = {u \in Tickets : tickets[u] \in Assigns}
    BY Zenon DEF TInv, TypeOK, StoreTypes
  <2>2. CASE UNCHANGED <<tickets, volatile>>
    BY <1>4, <2>2, Zenon DEF DeleteTicket, TInv, TypeOK, StoreTypes
  <2>3. CASE tickets' = [tickets EXCEPT ![t] = None] /\ volatile' = volatile \ {t}
    <3>1. tickets' \in [Tickets -> Contents]
      BY <2>1, <2>3, Zenon DEF Contents
    <3>2. volatile' = {u \in Tickets : tickets'[u] \in Assigns}
      BY <2>1, <2>3, TicketConstants, Zenon
    <3> QED BY <1>4, <3>1, <3>2, Zenon DEF DeleteTicket, TInv, TypeOK, StoreTypes
  <2> QED BY <1>4, <2>2, <2>3, Zenon DEF DeleteTicket
<1>5. ASSUME NEW t \in Tickets, DeleteFromPending(t) PROVE StoreTypes'
  BY <1>5, TicketConstants DEF DeleteFromPending, TInv, TypeOK, StoreTypes, CallTypes,
    AssignTypes, KnownInv, Contents
<1>6. ASSUME NEW t \in Tickets, CrashDelete(t) PROVE StoreTypes'
  BY <1>6, Zenon DEF CrashDelete, redisVars, TInv, TypeOK, StoreTypes
<1>7. ASSUME NEW a \in Assigns, NEW S \in SUBSET Known, UpdateAssignmentsRead(a, S) PROVE StoreTypes'
  BY <1>7, Zenon DEF UpdateAssignmentsRead, redisVars, TInv, TypeOK, StoreTypes
<1>8. ASSUME NEW a \in Assigns, UpdateAssignmentsExec(a) PROVE StoreTypes'
  <2>1. SetXX(a) \subseteq Tickets
    BY Zenon DEF SetXX, TInv, TypeOK, AssignTypes
  <2>2. CASE UNCHANGED <<tickets, history, volatile>>
    BY <1>8, <2>2, Zenon DEF UpdateAssignmentsExec, TInv, TypeOK, StoreTypes
  <2>3. CASE Written(SetXX(a), a)
    <3>1. tickets' \in [Tickets -> Contents]
      BY <2>3, Zenon DEF Written, TInv, TypeOK, StoreTypes, Contents
    <3>2. history' \in [Tickets -> Seq(Assigns)]
      BY <2>3 DEF Written, TInv, TypeOK, StoreTypes
    <3>3. \A u \in Tickets : tickets'[u] \in Assigns <=> u \in SetXX(a) \/ tickets[u] \in Assigns
      BY <2>3, Zenon DEF Written
    <3>4. volatile' = {u \in Tickets : tickets'[u] \in Assigns}
      BY <2>1, <2>3, <3>3, Zenon DEF Written, WithTTL, TInv, TypeOK, StoreTypes
    <3> QED
      BY <1>8, <3>1, <3>2, <3>4, Zenon DEF UpdateAssignmentsExec, TInv, TypeOK,
        StoreTypes
  <2> QED BY <1>8, <2>2, <2>3, Zenon DEF UpdateAssignmentsExec
<1>9. ASSUME NEW a \in Assigns, NEW t \in deindex[a], DeindexAssigned(a, t) PROVE StoreTypes'
  BY <1>9, TicketConstants DEF DeindexAssigned, TInv, TypeOK, StoreTypes, CallTypes,
    AssignTypes, KnownInv, Contents
<1>10. ASSUME NEW a \in Assigns, UnpendAssigned(a) PROVE StoreTypes'
  BY <1>10, TicketConstants DEF UnpendAssigned, TInv, TypeOK, StoreTypes, CallTypes,
    AssignTypes, KnownInv, Contents
<1>11. ASSUME NEW a \in Assigns, CrashAssign(a) PROVE StoreTypes'
  BY <1>11, Zenon DEF CrashAssign, redisVars, TInv, TypeOK, StoreTypes
<1>12. ASSUME NEW S \in SUBSET Known, AddTicketsToPendingRelease(S) PROVE StoreTypes'
  BY <1>12, TicketConstants DEF AddTicketsToPendingRelease, TInv, TypeOK, StoreTypes,
    CallTypes, AssignTypes, KnownInv, Contents, Known
<1>13. ASSUME NEW S \in SUBSET Known, DeleteTicketsFromPendingRelease(S) PROVE StoreTypes'
  BY <1>13, TicketConstants DEF DeleteTicketsFromPendingRelease, TInv, TypeOK,
    StoreTypes, CallTypes, AssignTypes, KnownInv, Contents, Known
<1>14. ASSUME ReleaseAllTickets PROVE StoreTypes'
  BY <1>14, TicketConstants DEF ReleaseAllTickets, TInv, TypeOK, StoreTypes,
    CallTypes, AssignTypes, KnownInv, Contents
<1>15. ASSUME NEW t \in Tickets, PendingTimeout(t) PROVE StoreTypes'
  BY <1>15, TicketConstants DEF PendingTimeout, TInv, TypeOK, StoreTypes, CallTypes,
    AssignTypes, KnownInv, Contents
<1>16. ASSUME NEW t \in Tickets, Expire(t) PROVE StoreTypes'
  BY <1>16, TicketConstants DEF Expire, TInv, TypeOK, StoreTypes, CallTypes,
    AssignTypes, KnownInv, Contents
<1>17. ASSUME NEW q \in Queries, QueryRead(q) PROVE StoreTypes'
  BY <1>17, Zenon DEF QueryRead, redisVars, TInv, TypeOK, StoreTypes
<1>18. ASSUME NEW q \in Queries, QueryFetch(q) PROVE StoreTypes'
  BY <1>18, Zenon DEF QueryFetch, redisVars, TInv, TypeOK, StoreTypes
<1>19. ASSUME NEW t \in Watched, WatchStart(t) PROVE StoreTypes'
  BY <1>19, Zenon DEF WatchStart, redisVars, TInv, TypeOK, StoreTypes
<1>20. ASSUME NEW t \in Watched, WatchPoll(t) PROVE StoreTypes'
  BY <1>20, Zenon DEF WatchPoll, redisVars, TInv, TypeOK, StoreTypes
<1>21. ASSUME NEW t \in Watched, WatchEnds(t) PROVE StoreTypes'
  BY <1>21, Zenon DEF WatchEnds, redisVars, TInv, TypeOK, StoreTypes
<1>22. ASSUME UNCHANGED vars PROVE StoreTypes'
  BY <1>22, Zenon DEF vars, redisVars, TInv, TInv, TypeOK, StoreTypes
<1> QED
  BY <1>1, <1>2, <1>3, <1>4, <1>5, <1>6, <1>7, <1>8, <1>9, <1>10, <1>11, <1>12, <1>13,
    <1>14, <1>15, <1>16, <1>17, <1>18, <1>19, <1>20, <1>21, <1>22, Zenon DEF Next,
    Create, Delete, Assign

\* A create or a delete goes from one of its commands to another.
LEMMA CallTypesStep ==
    ASSUME TInv
    PROVE  [Next]_vars => CallTypes'
<1>1. ASSUME NEW t \in Tickets, CreateTicket(t) PROVE CallTypes'
  BY <1>1, Zenon DEF CreateTicket, TInv, TypeOK, CallTypes
<1>2. ASSUME NEW t \in Tickets, IndexTicket(t) PROVE CallTypes'
  BY <1>2, Zenon DEF IndexTicket, TInv, TypeOK, CallTypes
<1>3. ASSUME NEW t \in Tickets, DeleteDeindex(t) PROVE CallTypes'
  BY <1>3, Zenon DEF DeleteDeindex, TInv, TypeOK, CallTypes
<1>4. ASSUME NEW t \in Tickets, DeleteTicket(t) PROVE CallTypes'
  BY <1>4, Zenon DEF DeleteTicket, TInv, TypeOK, CallTypes
<1>5. ASSUME NEW t \in Tickets, DeleteFromPending(t) PROVE CallTypes'
  BY <1>5, Zenon DEF DeleteFromPending, TInv, TypeOK, CallTypes
<1>6. ASSUME NEW t \in Tickets, CrashDelete(t) PROVE CallTypes'
  BY <1>6, Zenon DEF CrashDelete, TInv, TypeOK, CallTypes
<1>7. ASSUME NEW a \in Assigns, NEW S \in SUBSET Known, UpdateAssignmentsRead(a, S) PROVE CallTypes'
  BY <1>7, Zenon DEF UpdateAssignmentsRead, TInv, TypeOK, CallTypes
<1>8. ASSUME NEW a \in Assigns, UpdateAssignmentsExec(a) PROVE CallTypes'
  BY <1>8, Zenon DEF UpdateAssignmentsExec, TInv, TypeOK, CallTypes
<1>9. ASSUME NEW a \in Assigns, NEW t \in deindex[a], DeindexAssigned(a, t) PROVE CallTypes'
  BY <1>9, Zenon DEF DeindexAssigned, TInv, TypeOK, CallTypes
<1>10. ASSUME NEW a \in Assigns, UnpendAssigned(a) PROVE CallTypes'
  BY <1>10, Zenon DEF UnpendAssigned, TInv, TypeOK, CallTypes
<1>11. ASSUME NEW a \in Assigns, CrashAssign(a) PROVE CallTypes'
  BY <1>11, Zenon DEF CrashAssign, TInv, TypeOK, CallTypes
<1>12. ASSUME NEW S \in SUBSET Known, AddTicketsToPendingRelease(S) PROVE CallTypes'
  BY <1>12, Zenon DEF AddTicketsToPendingRelease, callVars, TInv, TypeOK, CallTypes
<1>13. ASSUME NEW S \in SUBSET Known, DeleteTicketsFromPendingRelease(S) PROVE CallTypes'
  BY <1>13, Zenon DEF DeleteTicketsFromPendingRelease, callVars, TInv, TypeOK, CallTypes
<1>14. ASSUME ReleaseAllTickets PROVE CallTypes'
  BY <1>14, Zenon DEF ReleaseAllTickets, callVars, TInv, TypeOK, CallTypes
<1>15. ASSUME NEW t \in Tickets, PendingTimeout(t) PROVE CallTypes'
  BY <1>15, Zenon DEF PendingTimeout, callVars, TInv, TypeOK, CallTypes
<1>16. ASSUME NEW t \in Tickets, Expire(t) PROVE CallTypes'
  BY <1>16, Zenon DEF Expire, callVars, TInv, TypeOK, CallTypes
<1>17. ASSUME NEW q \in Queries, QueryRead(q) PROVE CallTypes'
  BY <1>17, Zenon DEF QueryRead, TInv, TypeOK, CallTypes
<1>18. ASSUME NEW q \in Queries, QueryFetch(q) PROVE CallTypes'
  BY <1>18, Zenon DEF QueryFetch, TInv, TypeOK, CallTypes
<1>19. ASSUME NEW t \in Watched, WatchStart(t) PROVE CallTypes'
  BY <1>19, Zenon DEF WatchStart, TInv, TypeOK, CallTypes
<1>20. ASSUME NEW t \in Watched, WatchPoll(t) PROVE CallTypes'
  BY <1>20, Zenon DEF WatchPoll, TInv, TypeOK, CallTypes
<1>21. ASSUME NEW t \in Watched, WatchEnds(t) PROVE CallTypes'
  BY <1>21, Zenon DEF WatchEnds, TInv, TypeOK, CallTypes
<1>22. ASSUME UNCHANGED vars PROVE CallTypes'
  BY <1>22, Zenon DEF vars, callVars, TInv, TInv, TypeOK, CallTypes
<1> QED
  BY <1>1, <1>2, <1>3, <1>4, <1>5, <1>6, <1>7, <1>8, <1>9, <1>10, <1>11, <1>12, <1>13,
    <1>14, <1>15, <1>16, <1>17, <1>18, <1>19, <1>20, <1>21, <1>22, Zenon DEF Next,
    Create, Delete, Assign

\* An AssignTickets goes from one of its commands to another.
LEMMA AssignTypesStep ==
    ASSUME TInv
    PROVE  [Next]_vars => AssignTypes'
<1>1. ASSUME NEW t \in Tickets, CreateTicket(t) PROVE AssignTypes'
  BY <1>1, Zenon DEF CreateTicket, assignVars, TInv, TypeOK, AssignTypes
<1>2. ASSUME NEW t \in Tickets, IndexTicket(t) PROVE AssignTypes'
  BY <1>2, Zenon DEF IndexTicket, assignVars, TInv, TypeOK, AssignTypes
<1>3. ASSUME NEW t \in Tickets, DeleteDeindex(t) PROVE AssignTypes'
  BY <1>3, Zenon DEF DeleteDeindex, assignVars, TInv, TypeOK, AssignTypes
<1>4. ASSUME NEW t \in Tickets, DeleteTicket(t) PROVE AssignTypes'
  BY <1>4, Zenon DEF DeleteTicket, assignVars, TInv, TypeOK, AssignTypes
<1>5. ASSUME NEW t \in Tickets, DeleteFromPending(t) PROVE AssignTypes'
  BY <1>5, Zenon DEF DeleteFromPending, assignVars, TInv, TypeOK, AssignTypes
<1>6. ASSUME NEW t \in Tickets, CrashDelete(t) PROVE AssignTypes'
  BY <1>6, Zenon DEF CrashDelete, assignVars, TInv, TypeOK, AssignTypes
<1>7. ASSUME NEW a \in Assigns, NEW S \in SUBSET Known, UpdateAssignmentsRead(a, S) PROVE AssignTypes'
  BY <1>7, CleanupSteps DEF UpdateAssignmentsRead, TInv, TypeOK, AssignTypes, StepInv,
    Known
<1>8. ASSUME NEW a \in Assigns, UpdateAssignmentsExec(a) PROVE AssignTypes'
  BY <1>8, CleanupSteps DEF UpdateAssignmentsExec, TInv, TypeOK, AssignTypes, StepInv,
    SetXX
<1>9. ASSUME NEW a \in Assigns, NEW t \in deindex[a], DeindexAssigned(a, t) PROVE AssignTypes'
  BY <1>9, CleanupSteps, Zenon DEF DeindexAssigned, TInv, TypeOK, AssignTypes, StepInv
<1>10. ASSUME NEW a \in Assigns, UnpendAssigned(a) PROVE AssignTypes'
  BY <1>10, CleanupSteps, Zenon DEF UnpendAssigned, TInv, TypeOK, AssignTypes, StepInv
<1>11. ASSUME NEW a \in Assigns, CrashAssign(a) PROVE AssignTypes'
  BY <1>11, CleanupSteps, Zenon DEF CrashAssign, TInv, TypeOK, AssignTypes, StepInv
<1>12. ASSUME NEW S \in SUBSET Known, AddTicketsToPendingRelease(S) PROVE AssignTypes'
  BY <1>12, Zenon DEF AddTicketsToPendingRelease, callVars, assignVars, TInv, TypeOK,
    AssignTypes
<1>13. ASSUME NEW S \in SUBSET Known, DeleteTicketsFromPendingRelease(S) PROVE AssignTypes'
  BY <1>13, Zenon DEF DeleteTicketsFromPendingRelease, callVars, assignVars, TInv,
    TypeOK, AssignTypes
<1>14. ASSUME ReleaseAllTickets PROVE AssignTypes'
  BY <1>14, Zenon DEF ReleaseAllTickets, callVars, assignVars, TInv, TypeOK, AssignTypes
<1>15. ASSUME NEW t \in Tickets, PendingTimeout(t) PROVE AssignTypes'
  BY <1>15, Zenon DEF PendingTimeout, callVars, assignVars, TInv, TypeOK, AssignTypes
<1>16. ASSUME NEW t \in Tickets, Expire(t) PROVE AssignTypes'
  BY <1>16, Zenon DEF Expire, callVars, assignVars, TInv, TypeOK, AssignTypes
<1>17. ASSUME NEW q \in Queries, QueryRead(q) PROVE AssignTypes'
  BY <1>17, Zenon DEF QueryRead, assignVars, TInv, TypeOK, AssignTypes
<1>18. ASSUME NEW q \in Queries, QueryFetch(q) PROVE AssignTypes'
  BY <1>18, Zenon DEF QueryFetch, assignVars, TInv, TypeOK, AssignTypes
<1>19. ASSUME NEW t \in Watched, WatchStart(t) PROVE AssignTypes'
  BY <1>19, Zenon DEF WatchStart, assignVars, TInv, TypeOK, AssignTypes
<1>20. ASSUME NEW t \in Watched, WatchPoll(t) PROVE AssignTypes'
  BY <1>20, Zenon DEF WatchPoll, assignVars, TInv, TypeOK, AssignTypes
<1>21. ASSUME NEW t \in Watched, WatchEnds(t) PROVE AssignTypes'
  BY <1>21, Zenon DEF WatchEnds, assignVars, TInv, TypeOK, AssignTypes
<1>22. ASSUME UNCHANGED vars PROVE AssignTypes'
  BY <1>22, Zenon DEF vars, callVars, assignVars, TInv, TInv, TypeOK, AssignTypes
<1> QED
  BY <1>1, <1>2, <1>3, <1>4, <1>5, <1>6, <1>7, <1>8, <1>9, <1>10, <1>11, <1>12, <1>13,
    <1>14, <1>15, <1>16, <1>17, <1>18, <1>19, <1>20, <1>21, <1>22, Zenon DEF Next,
    Create, Delete, Assign

\* A watcher keeps the types of what it has read and sent.
LEMMA WatchTypesStep ==
    ASSUME TInv
    PROVE  [Next]_vars => WatchTypes'
<1>1. ASSUME NEW t \in Tickets, CreateTicket(t) PROVE WatchTypes'
  BY <1>1, Zenon DEF CreateTicket, watchVars, TInv, TypeOK, WatchTypes
<1>2. ASSUME NEW t \in Tickets, IndexTicket(t) PROVE WatchTypes'
  BY <1>2, Zenon DEF IndexTicket, watchVars, TInv, TypeOK, WatchTypes
<1>3. ASSUME NEW t \in Tickets, DeleteDeindex(t) PROVE WatchTypes'
  BY <1>3, Zenon DEF DeleteDeindex, watchVars, TInv, TypeOK, WatchTypes
<1>4. ASSUME NEW t \in Tickets, DeleteTicket(t) PROVE WatchTypes'
  BY <1>4, Zenon DEF DeleteTicket, watchVars, TInv, TypeOK, WatchTypes
<1>5. ASSUME NEW t \in Tickets, DeleteFromPending(t) PROVE WatchTypes'
  BY <1>5, Zenon DEF DeleteFromPending, watchVars, TInv, TypeOK, WatchTypes
<1>6. ASSUME NEW t \in Tickets, CrashDelete(t) PROVE WatchTypes'
  BY <1>6, Zenon DEF CrashDelete, watchVars, TInv, TypeOK, WatchTypes
<1>7. ASSUME NEW a \in Assigns, NEW S \in SUBSET Known, UpdateAssignmentsRead(a, S) PROVE WatchTypes'
  BY <1>7, Zenon DEF UpdateAssignmentsRead, watchVars, TInv, TypeOK, WatchTypes
<1>8. ASSUME NEW a \in Assigns, UpdateAssignmentsExec(a) PROVE WatchTypes'
  BY <1>8, Zenon DEF UpdateAssignmentsExec, watchVars, TInv, TypeOK, WatchTypes
<1>9. ASSUME NEW a \in Assigns, NEW t \in deindex[a], DeindexAssigned(a, t) PROVE WatchTypes'
  BY <1>9, Zenon DEF DeindexAssigned, watchVars, TInv, TypeOK, WatchTypes
<1>10. ASSUME NEW a \in Assigns, UnpendAssigned(a) PROVE WatchTypes'
  BY <1>10, Zenon DEF UnpendAssigned, watchVars, TInv, TypeOK, WatchTypes
<1>11. ASSUME NEW a \in Assigns, CrashAssign(a) PROVE WatchTypes'
  BY <1>11, Zenon DEF CrashAssign, watchVars, TInv, TypeOK, WatchTypes
<1>12. ASSUME NEW S \in SUBSET Known, AddTicketsToPendingRelease(S) PROVE WatchTypes'
  BY <1>12, Zenon DEF AddTicketsToPendingRelease, callVars, watchVars, TInv, TypeOK,
    WatchTypes
<1>13. ASSUME NEW S \in SUBSET Known, DeleteTicketsFromPendingRelease(S) PROVE WatchTypes'
  BY <1>13, Zenon DEF DeleteTicketsFromPendingRelease, callVars, watchVars, TInv,
    TypeOK, WatchTypes
<1>14. ASSUME ReleaseAllTickets PROVE WatchTypes'
  BY <1>14, Zenon DEF ReleaseAllTickets, callVars, watchVars, TInv, TypeOK, WatchTypes
<1>15. ASSUME NEW t \in Tickets, PendingTimeout(t) PROVE WatchTypes'
  BY <1>15, Zenon DEF PendingTimeout, callVars, watchVars, TInv, TypeOK, WatchTypes
<1>16. ASSUME NEW t \in Tickets, Expire(t) PROVE WatchTypes'
  BY <1>16, Zenon DEF Expire, callVars, watchVars, TInv, TypeOK, WatchTypes
<1>17. ASSUME NEW q \in Queries, QueryRead(q) PROVE WatchTypes'
  BY <1>17, Zenon DEF QueryRead, watchVars, TInv, TypeOK, WatchTypes
<1>18. ASSUME NEW q \in Queries, QueryFetch(q) PROVE WatchTypes'
  BY <1>18, Zenon DEF QueryFetch, watchVars, TInv, TypeOK, WatchTypes
<1>19. ASSUME NEW t \in Watched, WatchStart(t) PROVE WatchTypes'
  BY <1>19, TicketConstants, Zenon DEF WatchStart, TInv, TypeOK, WatchTypes,
    StoreTypes, Contents
<1>20. ASSUME NEW t \in Watched, WatchPoll(t) PROVE WatchTypes'
  <2>1. CASE UNCHANGED sent /\ watch' = [watch EXCEPT ![t] = "done"]
    BY <2>1, Zenon DEF TInv, TypeOK, WatchTypes
  <2>2. CASE tickets[t] # None /\ IsUpdate(t) /\ UNCHANGED watch /\ sent' = [sent EXCEPT ![t] = Append(@, tickets[t])]
    <3>1. t \in Tickets /\ sent[t] \in Seq(Assigns) /\ tickets[t] \in Contents
      BY TicketConstants, Zenon DEF TInv, TypeOK, WatchTypes, StoreTypes
    <3>2. tickets[t] # "new"
      <4>1. CASE sent[t] = <<>>
        BY <2>2, <4>1, Zenon DEF IsUpdate, currAssignment
      <4>2. CASE sent[t] # <<>>
        BY <2>2, <3>1, <4>2, Zenon DEF TInv, WatchInv
      <4> QED BY <4>1, <4>2, Zenon
    <3> QED BY <2>2, <3>1, <3>2 DEF TInv, TypeOK, WatchTypes, Contents
  <2> QED BY <1>20, <2>1, <2>2, Zenon DEF WatchPoll
<1>21. ASSUME NEW t \in Watched, WatchEnds(t) PROVE WatchTypes'
  BY <1>21, TicketConstants, Zenon DEF WatchEnds, TInv, TypeOK, WatchTypes,
    StoreTypes, Contents
<1>22. ASSUME UNCHANGED vars PROVE WatchTypes'
  BY <1>22, Zenon DEF vars, callVars, watchVars, TInv, TInv, TypeOK, WatchTypes
<1> QED
  BY <1>1, <1>2, <1>3, <1>4, <1>5, <1>6, <1>7, <1>8, <1>9, <1>10, <1>11, <1>12, <1>13,
    <1>14, <1>15, <1>16, <1>17, <1>18, <1>19, <1>20, <1>21, <1>22, Zenon DEF Next,
    Create, Delete, Assign

\* AcknowledgeBackfill does not get to the pending release entries, and nothing is
\* deindexed before it is assigned.
LEMMA StepInvStep ==
    ASSUME TInv
    PROVE  [Next]_vars => StepInv'
<1>1. ASSUME NEW t \in Tickets, CreateTicket(t) PROVE StepInv'
  BY <1>1, Zenon DEF CreateTicket, assignVars, TInv, StepInv
<1>2. ASSUME NEW t \in Tickets, IndexTicket(t) PROVE StepInv'
  BY <1>2, Zenon DEF IndexTicket, assignVars, TInv, StepInv
<1>3. ASSUME NEW t \in Tickets, DeleteDeindex(t) PROVE StepInv'
  BY <1>3, Zenon DEF DeleteDeindex, assignVars, TInv, StepInv
<1>4. ASSUME NEW t \in Tickets, DeleteTicket(t) PROVE StepInv'
  BY <1>4, Zenon DEF DeleteTicket, assignVars, TInv, StepInv
<1>5. ASSUME NEW t \in Tickets, DeleteFromPending(t) PROVE StepInv'
  BY <1>5, Zenon DEF DeleteFromPending, assignVars, TInv, StepInv
<1>6. ASSUME NEW t \in Tickets, CrashDelete(t) PROVE StepInv'
  BY <1>6, Zenon DEF CrashDelete, assignVars, TInv, StepInv
<1>7. ASSUME NEW a \in Assigns, NEW S \in SUBSET Known, UpdateAssignmentsRead(a, S) PROVE StepInv'
  BY <1>7, TicketConstants, CleanupSteps DEF UpdateAssignmentsRead, TInv, TypeOK,
    AssignTypes, StepInv
<1>8. ASSUME NEW a \in Assigns, UpdateAssignmentsExec(a) PROVE StepInv'
  BY <1>8, TicketConstants, CleanupSteps DEF UpdateAssignmentsExec, TInv, TypeOK,
    AssignTypes, StepInv
<1>9. ASSUME NEW a \in Assigns, NEW t \in deindex[a], DeindexAssigned(a, t) PROVE StepInv'
  BY <1>9, TicketConstants, CleanupSteps, Zenon DEF DeindexAssigned, TInv, TypeOK,
    AssignTypes, StepInv
<1>10. ASSUME NEW a \in Assigns, UnpendAssigned(a) PROVE StepInv'
  BY <1>10, TicketConstants, CleanupSteps, Zenon DEF UnpendAssigned, TInv, TypeOK,
    AssignTypes, StepInv
<1>11. ASSUME NEW a \in Assigns, CrashAssign(a) PROVE StepInv'
  BY <1>11, TicketConstants, CleanupSteps, Zenon DEF CrashAssign, TInv, TypeOK,
    AssignTypes, StepInv
<1>12. ASSUME NEW S \in SUBSET Known, AddTicketsToPendingRelease(S) PROVE StepInv'
  BY <1>12, Zenon DEF AddTicketsToPendingRelease, callVars, assignVars, TInv, StepInv
<1>13. ASSUME NEW S \in SUBSET Known, DeleteTicketsFromPendingRelease(S) PROVE StepInv'
  BY <1>13, Zenon DEF DeleteTicketsFromPendingRelease, callVars, assignVars, TInv,
    StepInv
<1>14. ASSUME ReleaseAllTickets PROVE StepInv'
  BY <1>14, Zenon DEF ReleaseAllTickets, callVars, assignVars, TInv, StepInv
<1>15. ASSUME NEW t \in Tickets, PendingTimeout(t) PROVE StepInv'
  BY <1>15, Zenon DEF PendingTimeout, callVars, assignVars, TInv, StepInv
<1>16. ASSUME NEW t \in Tickets, Expire(t) PROVE StepInv'
  BY <1>16, Zenon DEF Expire, callVars, assignVars, TInv, StepInv
<1>17. ASSUME NEW q \in Queries, QueryRead(q) PROVE StepInv'
  BY <1>17, Zenon DEF QueryRead, assignVars, TInv, StepInv
<1>18. ASSUME NEW q \in Queries, QueryFetch(q) PROVE StepInv'
  BY <1>18, Zenon DEF QueryFetch, assignVars, TInv, StepInv
<1>19. ASSUME NEW t \in Watched, WatchStart(t) PROVE StepInv'
  BY <1>19, Zenon DEF WatchStart, assignVars, TInv, StepInv
<1>20. ASSUME NEW t \in Watched, WatchPoll(t) PROVE StepInv'
  BY <1>20, Zenon DEF WatchPoll, assignVars, TInv, StepInv
<1>21. ASSUME NEW t \in Watched, WatchEnds(t) PROVE StepInv'
  BY <1>21, Zenon DEF WatchEnds, assignVars, TInv, StepInv
<1>22. ASSUME UNCHANGED vars PROVE StepInv'
  BY <1>22, Zenon DEF vars, callVars, assignVars, TInv, StepInv
<1> QED
  BY <1>1, <1>2, <1>3, <1>4, <1>5, <1>6, <1>7, <1>8, <1>9, <1>10, <1>11, <1>12, <1>13,
    <1>14, <1>15, <1>16, <1>17, <1>18, <1>19, <1>20, <1>21, <1>22, Zenon DEF Next,
    Create, Delete, Assign

\* Only tickets that clients know of get into the pool, are deleted or are assigned.
LEMMA KnownInvStep ==
    ASSUME TInv
    PROVE  [Next]_vars => KnownInv'
<1>1. ASSUME NEW t \in Tickets, CreateTicket(t) PROVE KnownInv'
  <2>1. \A u \in Tickets : create'[u] # "idle" \/ tickets'[u] = None
    BY <1>1 DEF CreateTicket, TInv, TypeOK, StoreTypes, CallTypes, KnownInv
  <2>2. \A u \in Tickets : create'[u] # "done" =>
           create[u] # "done" /\ tickets'[u] \notin Assigns
    BY <1>1, TicketConstants DEF CreateTicket, TInv, TypeOK, StoreTypes, CallTypes,
      KnownInv
  <2>3. \A u \in Tickets : create[u] = "done" => create'[u] = "done"
    BY <1>1, Zenon DEF CreateTicket, TInv, TypeOK, CallTypes
  <2>4. UNCHANGED <<allTickets, proposedTicketIDs, delete, ids, found, deindex>>
    BY <1>1, Zenon DEF CreateTicket, assignVars
  <2>5. \A b \in Assigns : ids[b] \subseteq Tickets
    BY Zenon DEF TInv, TypeOK, AssignTypes
  <2> QED BY <2>1, <2>2, <2>3, <2>4, <2>5, Zenon DEF TInv, KnownInv
<1>2. ASSUME NEW t \in Tickets, IndexTicket(t) PROVE KnownInv'
  BY <1>2 DEF IndexTicket, assignVars, TInv, TypeOK, StoreTypes, CallTypes,
    AssignTypes, KnownInv
<1>3. ASSUME NEW t \in Tickets, DeleteDeindex(t) PROVE KnownInv'
  BY <1>3 DEF DeleteDeindex, assignVars, TInv, TypeOK, StoreTypes, CallTypes,
    AssignTypes, KnownInv, Known
<1>4. ASSUME NEW t \in Tickets, DeleteTicket(t) PROVE KnownInv'
  BY <1>4 DEF DeleteTicket, assignVars, TInv, TypeOK, StoreTypes, CallTypes,
    AssignTypes, KnownInv
<1>5. ASSUME NEW t \in Tickets, DeleteFromPending(t) PROVE KnownInv'
  BY <1>5, Zenon DEF DeleteFromPending, assignVars, TInv, TypeOK, StoreTypes,
    CallTypes, AssignTypes, KnownInv
<1>6. ASSUME NEW t \in Tickets, CrashDelete(t) PROVE KnownInv'
  BY <1>6, Zenon DEF CrashDelete, redisVars, assignVars, TInv, TypeOK, StoreTypes,
    CallTypes, AssignTypes, KnownInv
<1>7. ASSUME NEW a \in Assigns, NEW S \in SUBSET Known, UpdateAssignmentsRead(a, S) PROVE KnownInv'
  <2>1. /\ tickets' = tickets /\ allTickets' = allTickets
        /\ proposedTicketIDs' = proposedTicketIDs /\ create' = create
        /\ delete' = delete /\ deindex' = deindex
    BY <1>7, Zenon DEF UpdateAssignmentsRead, redisVars
  <2>0. KnownInv
    BY Zenon DEF TInv
  <2>2. CASE ids' = ids /\ found' = found
    BY <2>0, <2>1, <2>2, Zenon DEF KnownInv
  <2>3. CASE /\ ids' = [ids EXCEPT ![a] = S]
             /\ found' = [found EXCEPT ![a] = {t \in S : tickets[t] # None}]
    <3>1. deindex[a] = {}
      BY <1>7, Zenon DEF TInv, StepInv, UpdateAssignmentsRead
    <3>2. \A b \in Assigns : /\ \A t \in ids'[b] : create[t] = "done"
                             /\ found'[b] \subseteq ids'[b] /\ deindex[b] \subseteq ids'[b]
      BY <2>3, <3>1, Zenon DEF TInv, Known, KnownInv, TypeOK, AssignTypes
    <3>3. \A t \in Tickets :
             /\ create'[t] = "idle" => tickets'[t] = None
             /\ create'[t] # "done" =>
                  /\ tickets'[t] \notin Assigns /\ delete'[t] = "idle"
                  /\ t \notin allTickets' /\ t \notin proposedTicketIDs'
      BY <2>0, <2>1, Zenon DEF KnownInv
    <3>4. \A b \in Assigns : /\ \A t \in ids'[b] : create'[t] = "done"
                             /\ found'[b] \subseteq ids'[b] /\ deindex'[b] \subseteq ids'[b]
      BY <2>1, <3>2, Zenon
    <3> QED BY <3>3, <3>4, Zenon DEF KnownInv
  <2> QED BY <1>7, <2>2, <2>3, Zenon DEF UpdateAssignmentsRead
<1>8. ASSUME NEW a \in Assigns, UpdateAssignmentsExec(a) PROVE KnownInv'
  <2>1. UNCHANGED <<allTickets, proposedTicketIDs, create, delete, ids>>
    BY <1>8, Zenon DEF UpdateAssignmentsExec
  <2>2. SetXX(a) \subseteq found[a] /\ found[a] \subseteq ids[a]
    BY Zenon DEF SetXX, TInv, KnownInv
  <2>3. \A u \in Tickets : create[u] # "done" => tickets'[u] = tickets[u]
    BY <1>8, <2>2, Zenon DEF UpdateAssignmentsExec, Written, TInv, KnownInv
  <2>4. \A b \in Assigns : found'[b] \subseteq ids[b] /\ deindex'[b] \subseteq ids[b]
    BY <1>8, <2>2 DEF UpdateAssignmentsExec, TInv, KnownInv, TypeOK, AssignTypes
  <2> QED BY <2>1, <2>3, <2>4, Zenon DEF TInv, KnownInv
<1>9. ASSUME NEW a \in Assigns, NEW t \in deindex[a], DeindexAssigned(a, t) PROVE KnownInv'
  BY <1>9 DEF DeindexAssigned, TInv, TypeOK, StoreTypes, CallTypes, AssignTypes,
    KnownInv
<1>10. ASSUME NEW a \in Assigns, UnpendAssigned(a) PROVE KnownInv'
  BY <1>10, Zenon DEF UnpendAssigned, TInv, TypeOK, StoreTypes, CallTypes,
    AssignTypes, KnownInv
<1>11. ASSUME NEW a \in Assigns, CrashAssign(a) PROVE KnownInv'
  BY <1>11, Zenon DEF CrashAssign, redisVars, TInv, KnownInv
<1>12. ASSUME NEW S \in SUBSET Known, AddTicketsToPendingRelease(S) PROVE KnownInv'
  BY <1>12, Zenon DEF AddTicketsToPendingRelease, callVars, assignVars, TInv, TypeOK,
    StoreTypes, CallTypes, AssignTypes, KnownInv, Known
<1>13. ASSUME NEW S \in SUBSET Known, DeleteTicketsFromPendingRelease(S) PROVE KnownInv'
  BY <1>13, Zenon DEF DeleteTicketsFromPendingRelease, callVars, assignVars, TInv,
    TypeOK, StoreTypes, CallTypes, AssignTypes, KnownInv
<1>14. ASSUME ReleaseAllTickets PROVE KnownInv'
  BY <1>14, Zenon DEF ReleaseAllTickets, callVars, assignVars, TInv, TypeOK,
    StoreTypes, CallTypes, AssignTypes, KnownInv
<1>15. ASSUME NEW t \in Tickets, PendingTimeout(t) PROVE KnownInv'
  BY <1>15, Zenon DEF PendingTimeout, callVars, assignVars, TInv, TypeOK, StoreTypes,
    CallTypes, AssignTypes, KnownInv
<1>16. ASSUME NEW t \in Tickets, Expire(t) PROVE KnownInv'
  BY <1>16, Zenon DEF Expire, callVars, assignVars, TInv, TypeOK, StoreTypes,
    CallTypes, AssignTypes, KnownInv
<1>17. ASSUME NEW q \in Queries, QueryRead(q) PROVE KnownInv'
  BY <1>17, Zenon DEF QueryRead, redisVars, assignVars, TInv, KnownInv
<1>18. ASSUME NEW q \in Queries, QueryFetch(q) PROVE KnownInv'
  BY <1>18, Zenon DEF QueryFetch, redisVars, assignVars, TInv, KnownInv
<1>19. ASSUME NEW t \in Watched, WatchStart(t) PROVE KnownInv'
  BY <1>19, Zenon DEF WatchStart, redisVars, assignVars, TInv, KnownInv
<1>20. ASSUME NEW t \in Watched, WatchPoll(t) PROVE KnownInv'
  BY <1>20, Zenon DEF WatchPoll, redisVars, assignVars, TInv, KnownInv
<1>21. ASSUME NEW t \in Watched, WatchEnds(t) PROVE KnownInv'
  BY <1>21, Zenon DEF WatchEnds, redisVars, assignVars, TInv, KnownInv
<1>22. ASSUME UNCHANGED vars PROVE KnownInv'
  BY <1>22, Zenon DEF vars, callVars, redisVars, assignVars, TInv, KnownInv
<1> QED
  BY <1>1, <1>2, <1>3, <1>4, <1>5, <1>6, <1>7, <1>8, <1>9, <1>10, <1>11, <1>12, <1>13,
    <1>14, <1>15, <1>16, <1>17, <1>18, <1>19, <1>20, <1>21, <1>22, Zenon DEF Next,
    Create, Delete, Assign

\* A ticket whose assignment was sent to a watcher never is without one again.
LEMMA WatchInvStep ==
    ASSUME TInv
    PROVE  [Next]_vars => WatchInv'
<1>1. ASSUME NEW t \in Tickets, CreateTicket(t) PROVE WatchInv'
  BY <1>1, TicketConstants DEF CreateTicket, watchVars, TInv, TypeOK, StoreTypes,
    CallTypes, WatchTypes, AssignTypes, KnownInv, WatchInv
<1>2. ASSUME NEW t \in Tickets, IndexTicket(t) PROVE WatchInv'
  BY <1>2, TicketConstants DEF IndexTicket, watchVars, TInv, TypeOK, StoreTypes,
    CallTypes, WatchTypes, AssignTypes, KnownInv, WatchInv
<1>3. ASSUME NEW t \in Tickets, DeleteDeindex(t) PROVE WatchInv'
  BY <1>3, Zenon DEF DeleteDeindex, watchVars, TInv, WatchInv
<1>4. ASSUME NEW t \in Tickets, DeleteTicket(t) PROVE WatchInv'
  BY <1>4, TicketConstants DEF DeleteTicket, watchVars, TInv, TypeOK, StoreTypes,
    CallTypes, WatchTypes, AssignTypes, KnownInv, WatchInv
<1>5. ASSUME NEW t \in Tickets, DeleteFromPending(t) PROVE WatchInv'
  BY <1>5, Zenon DEF DeleteFromPending, watchVars, TInv, WatchInv
<1>6. ASSUME NEW t \in Tickets, CrashDelete(t) PROVE WatchInv'
  BY <1>6, Zenon DEF CrashDelete, redisVars, watchVars, TInv, WatchInv
<1>7. ASSUME NEW a \in Assigns, NEW S \in SUBSET Known, UpdateAssignmentsRead(a, S) PROVE WatchInv'
  BY <1>7, Zenon DEF UpdateAssignmentsRead, redisVars, watchVars, TInv, WatchInv
<1>8. ASSUME NEW a \in Assigns, UpdateAssignmentsExec(a) PROVE WatchInv'
  BY <1>8, TicketConstants DEF UpdateAssignmentsExec, watchVars, TInv, TypeOK,
    StoreTypes, CallTypes, WatchTypes, AssignTypes, KnownInv, WatchInv, Written
<1>9. ASSUME NEW a \in Assigns, NEW t \in deindex[a], DeindexAssigned(a, t) PROVE WatchInv'
  BY <1>9, Zenon DEF DeindexAssigned, watchVars, TInv, WatchInv
<1>10. ASSUME NEW a \in Assigns, UnpendAssigned(a) PROVE WatchInv'
  BY <1>10, Zenon DEF UnpendAssigned, watchVars, TInv, WatchInv
<1>11. ASSUME NEW a \in Assigns, CrashAssign(a) PROVE WatchInv'
  BY <1>11, Zenon DEF CrashAssign, redisVars, watchVars, TInv, WatchInv
<1>12. ASSUME NEW S \in SUBSET Known, AddTicketsToPendingRelease(S) PROVE WatchInv'
  BY <1>12, Zenon DEF AddTicketsToPendingRelease, callVars, watchVars, TInv, WatchInv
<1>13. ASSUME NEW S \in SUBSET Known, DeleteTicketsFromPendingRelease(S) PROVE WatchInv'
  BY <1>13, Zenon DEF DeleteTicketsFromPendingRelease, callVars, watchVars, TInv,
    WatchInv
<1>14. ASSUME ReleaseAllTickets PROVE WatchInv'
  BY <1>14, Zenon DEF ReleaseAllTickets, callVars, watchVars, TInv, WatchInv
<1>15. ASSUME NEW t \in Tickets, PendingTimeout(t) PROVE WatchInv'
  BY <1>15, Zenon DEF PendingTimeout, callVars, watchVars, TInv, WatchInv
<1>16. ASSUME NEW t \in Tickets, Expire(t) PROVE WatchInv'
  BY <1>16, TicketConstants DEF Expire, callVars, watchVars, TInv, TypeOK, StoreTypes,
    CallTypes, WatchTypes, AssignTypes, KnownInv, WatchInv
<1>17. ASSUME NEW q \in Queries, QueryRead(q) PROVE WatchInv'
  BY <1>17, Zenon DEF QueryRead, redisVars, watchVars, TInv, WatchInv
<1>18. ASSUME NEW q \in Queries, QueryFetch(q) PROVE WatchInv'
  BY <1>18, Zenon DEF QueryFetch, redisVars, watchVars, TInv, WatchInv
<1>19. ASSUME NEW t \in Watched, WatchStart(t) PROVE WatchInv'
  BY <1>19, Zenon DEF WatchStart, redisVars, TInv, WatchInv
<1>20. ASSUME NEW t \in Watched, WatchPoll(t) PROVE WatchInv'
  BY <1>20, TicketConstants DEF WatchPoll, redisVars, TInv, TypeOK, StoreTypes,
    CallTypes, WatchTypes, AssignTypes, KnownInv, WatchInv, IsUpdate, currAssignment
<1>21. ASSUME NEW t \in Watched, WatchEnds(t) PROVE WatchInv'
  BY <1>21, Zenon DEF WatchEnds, redisVars, TInv, WatchInv
<1>22. ASSUME UNCHANGED vars PROVE WatchInv'
  BY <1>22, Zenon DEF vars, callVars, redisVars, watchVars, TInv, WatchInv
<1> QED
  BY <1>1, <1>2, <1>3, <1>4, <1>5, <1>6, <1>7, <1>8, <1>9, <1>10, <1>11, <1>12, <1>13,
    <1>14, <1>15, <1>16, <1>17, <1>18, <1>19, <1>20, <1>21, <1>22, Zenon DEF Next,
    Create, Delete, Assign

\* What a query update has to leave out is a set of tickets.
LEMMA OutTypes == ASSUME TypeOK, Track PROVE out' \in [Queries -> SUBSET Tickets]
BY Zenon DEF Track, TypeOK, QueryTypes

\* A query update keeps the types of what it has read.
LEMMA QueryTypesStep ==
    ASSUME TInv
    PROVE  [Next]_vars => QueryTypes'
<1>1. ASSUME NEW t \in Tickets, CreateTicket(t) PROVE QueryTypes'
  BY <1>1, OutTypes, Zenon DEF CreateTicket, queryVars, TInv, TypeOK, QueryTypes
<1>2. ASSUME NEW t \in Tickets, IndexTicket(t) PROVE QueryTypes'
  BY <1>2, OutTypes, Zenon DEF IndexTicket, queryVars, TInv, TypeOK, QueryTypes
<1>3. ASSUME NEW t \in Tickets, DeleteDeindex(t) PROVE QueryTypes'
  BY <1>3, OutTypes, Zenon DEF DeleteDeindex, queryVars, TInv, TypeOK, QueryTypes
<1>4. ASSUME NEW t \in Tickets, DeleteTicket(t) PROVE QueryTypes'
  BY <1>4, OutTypes, Zenon DEF DeleteTicket, queryVars, TInv, TypeOK, QueryTypes
<1>5. ASSUME NEW t \in Tickets, DeleteFromPending(t) PROVE QueryTypes'
  BY <1>5, OutTypes, Zenon DEF DeleteFromPending, queryVars, TInv, TypeOK, QueryTypes
<1>6. ASSUME NEW t \in Tickets, CrashDelete(t) PROVE QueryTypes'
  BY <1>6, OutTypes, Zenon DEF CrashDelete, queryVars, TInv, TypeOK, QueryTypes
<1>7. ASSUME NEW a \in Assigns, NEW S \in SUBSET Known, UpdateAssignmentsRead(a, S) PROVE QueryTypes'
  BY <1>7, OutTypes, Zenon DEF UpdateAssignmentsRead, queryVars, TInv, TypeOK,
    QueryTypes
<1>8. ASSUME NEW a \in Assigns, UpdateAssignmentsExec(a) PROVE QueryTypes'
  BY <1>8, OutTypes, Zenon DEF UpdateAssignmentsExec, queryVars, TInv, TypeOK,
    QueryTypes
<1>9. ASSUME NEW a \in Assigns, NEW t \in deindex[a], DeindexAssigned(a, t) PROVE QueryTypes'
  BY <1>9, OutTypes, Zenon DEF DeindexAssigned, queryVars, TInv, TypeOK, QueryTypes
<1>10. ASSUME NEW a \in Assigns, UnpendAssigned(a) PROVE QueryTypes'
  BY <1>10, OutTypes, Zenon DEF UnpendAssigned, queryVars, TInv, TypeOK, QueryTypes
<1>11. ASSUME NEW a \in Assigns, CrashAssign(a) PROVE QueryTypes'
  BY <1>11, OutTypes, Zenon DEF CrashAssign, queryVars, TInv, TypeOK, QueryTypes
<1>12. ASSUME NEW S \in SUBSET Known, AddTicketsToPendingRelease(S) PROVE QueryTypes'
  BY <1>12, OutTypes, Zenon DEF AddTicketsToPendingRelease, callVars, queryVars, TInv,
    TypeOK, QueryTypes
<1>13. ASSUME NEW S \in SUBSET Known, DeleteTicketsFromPendingRelease(S) PROVE QueryTypes'
  BY <1>13, OutTypes, Zenon DEF DeleteTicketsFromPendingRelease, callVars, queryVars,
    TInv, TypeOK, QueryTypes
<1>14. ASSUME ReleaseAllTickets PROVE QueryTypes'
  BY <1>14, OutTypes, Zenon DEF ReleaseAllTickets, callVars, queryVars, TInv, TypeOK,
    QueryTypes
<1>15. ASSUME NEW t \in Tickets, PendingTimeout(t) PROVE QueryTypes'
  BY <1>15, OutTypes, Zenon DEF PendingTimeout, callVars, queryVars, TInv, TypeOK,
    QueryTypes
<1>16. ASSUME NEW t \in Tickets, Expire(t) PROVE QueryTypes'
  BY <1>16, OutTypes, Zenon DEF Expire, callVars, queryVars, TInv, TypeOK, QueryTypes
<1>17. ASSUME NEW q \in Queries, QueryRead(q) PROVE QueryTypes'
  <2>1. CASE query' = [query EXCEPT ![q] = 0] /\ UNCHANGED <<read, value>>
    BY <1>17, <2>1, OutTypes DEF QueryRead, TInv, TypeOK, QueryTypes
  <2>2. CASE /\ query' = [query EXCEPT ![q] = @ + 1]
             /\ read' = [read EXCEPT ![q] =
                          IF ReadOrder[query'[q]] = "pending"
                          THEN [@ EXCEPT !.pending = proposedTicketIDs]
                          ELSE [@ EXCEPT !.index = allTickets]]
             /\ value' = [value EXCEPT ![q] = IF query'[q] = 2
                                             THEN Pruned(@, Current(read'[q]))
                                             ELSE @]
    <3>1. query' \in [Queries -> 0 .. 2]
      BY <1>17, <2>2 DEF QueryRead, TInv, TypeOK, QueryTypes
    <3>2. read' \in [Queries -> [index : SUBSET Tickets, pending : SUBSET Tickets]]
      BY SMTT(40), <2>2 DEF TInv, TypeOK, QueryTypes, StoreTypes
    <3>3. \A v \in [Tickets -> Contents] : \A C : Pruned(v, C) \in [Tickets -> Contents]
      BY Zenon DEF Pruned, Contents
    <3>4. value' \in [Queries -> [Tickets -> Contents]]
      BY <2>2, <3>3, Zenon DEF TInv, TypeOK, QueryTypes
    <3> QED
      BY <1>17, <3>1, <3>2, <3>4, OutTypes, Zenon DEF QueryRead, TInv, TypeOK,
        QueryTypes
  <2> QED BY <1>17, <2>1, <2>2, Zenon DEF QueryRead
<1>18. ASSUME NEW q \in Queries, QueryFetch(q) PROVE QueryTypes'
  <2> DEFINE v == [t \in Tickets |-> IF t \in Current(read[q]) /\ value[q][t] = None
                                   THEN tickets[t] ELSE value[q][t]]
  <2>1. v \in [Tickets -> Contents]
    BY DEF TInv, TypeOK, QueryTypes, StoreTypes
  <2>2. value' = value \/ value' = [value EXCEPT ![q] = v]
    BY <1>18, Zenon DEF QueryFetch
  <2>3. value' \in [Queries -> [Tickets -> Contents]]
    BY <2>1, <2>2, Zenon DEF TInv, TypeOK, QueryTypes
  <2>4. query' \in [Queries -> 0 .. 2] /\ read' = read /\ Track
    BY <1>18 DEF QueryFetch, TInv, TypeOK, QueryTypes
  <2> QED BY <2>3, <2>4, OutTypes, Zenon DEF TInv, TypeOK, QueryTypes
<1>19. ASSUME NEW t \in Watched, WatchStart(t) PROVE QueryTypes'
  BY <1>19, OutTypes, Zenon DEF WatchStart, queryVars, TInv, TypeOK, QueryTypes
<1>20. ASSUME NEW t \in Watched, WatchPoll(t) PROVE QueryTypes'
  BY <1>20, OutTypes, Zenon DEF WatchPoll, queryVars, TInv, TypeOK, QueryTypes
<1>21. ASSUME NEW t \in Watched, WatchEnds(t) PROVE QueryTypes'
  BY <1>21, OutTypes, Zenon DEF WatchEnds, queryVars, TInv, TypeOK, QueryTypes
<1>22. ASSUME UNCHANGED vars PROVE QueryTypes'
  BY <1>22, Zenon DEF vars, callVars, queryVars, TInv, TypeOK, QueryTypes
<1> QED
  BY <1>1, <1>2, <1>3, <1>4, <1>5, <1>6, <1>7, <1>8, <1>9, <1>10, <1>11, <1>12, <1>13,
    <1>14, <1>15, <1>16, <1>17, <1>18, <1>19, <1>20, <1>21, <1>22, Zenon DEF Next,
    Create, Delete, Assign

-----------------------------------------------------------------------------
(* Tickets that are gone *)

\* The step that NeverResurrected allows.
StaysGone ==
    \A t \in Tickets : create[t] # "idle" /\ tickets[t] = None => tickets'[t] = None

\* No command brings back a ticket that is gone.
LEMMA StaysGoneStep ==
    ASSUME TInv
    PROVE  [Next]_vars => StaysGone
<1>1. ASSUME NEW t \in Tickets, CreateTicket(t) PROVE StaysGone
  BY <1>1, Zenon DEF CreateTicket, TInv, TypeOK, StoreTypes, StaysGone
<1>2. ASSUME NEW t \in Tickets, IndexTicket(t) PROVE StaysGone
  BY <1>2, Zenon DEF IndexTicket, TInv, StaysGone
<1>3. ASSUME NEW t \in Tickets, DeleteDeindex(t) PROVE StaysGone
  BY <1>3, Zenon DEF DeleteDeindex, TInv, StaysGone
<1>4. ASSUME NEW t \in Tickets, DeleteTicket(t) PROVE StaysGone
  BY <1>4, Zenon DEF DeleteTicket, TInv, TypeOK, StoreTypes, StaysGone
<1>5. ASSUME NEW t \in Tickets, DeleteFromPending(t) PROVE StaysGone
  BY <1>5, Zenon DEF DeleteFromPending, TInv, StaysGone
<1>6. ASSUME NEW t \in Tickets, CrashDelete(t) PROVE StaysGone
  BY <1>6, Zenon DEF CrashDelete, redisVars, TInv, StaysGone
<1>7. ASSUME NEW a \in Assigns, NEW S \in SUBSET Known, UpdateAssignmentsRead(a, S) PROVE StaysGone
  BY <1>7, Zenon DEF UpdateAssignmentsRead, redisVars, TInv, StaysGone
<1>8. ASSUME NEW a \in Assigns, UpdateAssignmentsExec(a) PROVE StaysGone
  BY <1>8, Zenon DEF UpdateAssignmentsExec, TInv, TypeOK, StoreTypes, StaysGone,
    Written, SetXX
<1>9. ASSUME NEW a \in Assigns, NEW t \in deindex[a], DeindexAssigned(a, t) PROVE StaysGone
  BY <1>9, Zenon DEF DeindexAssigned, TInv, StaysGone
<1>10. ASSUME NEW a \in Assigns, UnpendAssigned(a) PROVE StaysGone
  BY <1>10, Zenon DEF UnpendAssigned, TInv, StaysGone
<1>11. ASSUME NEW a \in Assigns, CrashAssign(a) PROVE StaysGone
  BY <1>11, Zenon DEF CrashAssign, redisVars, TInv, StaysGone
<1>12. ASSUME NEW S \in SUBSET Known, AddTicketsToPendingRelease(S) PROVE StaysGone
  BY <1>12, Zenon DEF AddTicketsToPendingRelease, TInv, StaysGone
<1>13. ASSUME NEW S \in SUBSET Known, DeleteTicketsFromPendingRelease(S) PROVE StaysGone
  BY <1>13, Zenon DEF DeleteTicketsFromPendingRelease, TInv, StaysGone
<1>14. ASSUME ReleaseAllTickets PROVE StaysGone
  BY <1>14, Zenon DEF ReleaseAllTickets, TInv, StaysGone
<1>15. ASSUME NEW t \in Tickets, PendingTimeout(t) PROVE StaysGone
  BY <1>15, Zenon DEF PendingTimeout, TInv, StaysGone
<1>16. ASSUME NEW t \in Tickets, Expire(t) PROVE StaysGone
  BY <1>16, Zenon DEF Expire, TInv, TypeOK, StoreTypes, StaysGone
<1>17. ASSUME NEW q \in Queries, QueryRead(q) PROVE StaysGone
  BY <1>17, Zenon DEF QueryRead, redisVars, TInv, StaysGone
<1>18. ASSUME NEW q \in Queries, QueryFetch(q) PROVE StaysGone
  BY <1>18, Zenon DEF QueryFetch, redisVars, TInv, StaysGone
<1>19. ASSUME NEW t \in Watched, WatchStart(t) PROVE StaysGone
  BY <1>19, Zenon DEF WatchStart, redisVars, TInv, StaysGone
<1>20. ASSUME NEW t \in Watched, WatchPoll(t) PROVE StaysGone
  BY <1>20, Zenon DEF WatchPoll, redisVars, TInv, StaysGone
<1>21. ASSUME NEW t \in Watched, WatchEnds(t) PROVE StaysGone
  BY <1>21, Zenon DEF WatchEnds, redisVars, TInv, StaysGone
<1>22. ASSUME UNCHANGED vars PROVE StaysGone
  BY <1>22, Zenon DEF vars, redisVars, TInv, StaysGone
<1> QED
  BY <1>1, <1>2, <1>3, <1>4, <1>5, <1>6, <1>7, <1>8, <1>9, <1>10, <1>11, <1>12, <1>13,
    <1>14, <1>15, <1>16, <1>17, <1>18, <1>19, <1>20, <1>21, <1>22, Zenon DEF Next,
    Create, Delete, Assign

\* Once a call has read its tickets, the ones it did not find stay away.
LEMMA FailInvStep ==
    ASSUME TInv, FailInv, StaysGone
    PROVE  [Next]_vars => FailInv'
<1>0. \A a \in Assigns : \A t \in ids[a] : t \in Tickets /\ create[t] # "idle"
  BY Zenon DEF TInv, TypeOK, AssignTypes, KnownInv
<1>1. ASSUME NEW t \in Tickets, CreateTicket(t) PROVE FailInv'
  BY <1>1, <1>0, Zenon DEF CreateTicket, assignVars, FailInv, StaysGone
<1>2. ASSUME NEW t \in Tickets, IndexTicket(t) PROVE FailInv'
  BY <1>2, <1>0, Zenon DEF IndexTicket, assignVars, FailInv, StaysGone
<1>3. ASSUME NEW t \in Tickets, DeleteDeindex(t) PROVE FailInv'
  BY <1>3, <1>0, Zenon DEF DeleteDeindex, assignVars, FailInv, StaysGone
<1>4. ASSUME NEW t \in Tickets, DeleteTicket(t) PROVE FailInv'
  BY <1>4, <1>0, Zenon DEF DeleteTicket, assignVars, FailInv, StaysGone
<1>5. ASSUME NEW t \in Tickets, DeleteFromPending(t) PROVE FailInv'
  BY <1>5, <1>0, Zenon DEF DeleteFromPending, assignVars, FailInv, StaysGone
<1>6. ASSUME NEW t \in Tickets, CrashDelete(t) PROVE FailInv'
  BY <1>6, <1>0, Zenon DEF CrashDelete, redisVars, assignVars, FailInv, StaysGone
<1>7. ASSUME NEW a \in Assigns, NEW S \in SUBSET Known, UpdateAssignmentsRead(a, S) PROVE FailInv'
  <2>1. UNCHANGED tickets /\ S \subseteq Tickets
    BY <1>7, Zenon DEF UpdateAssignmentsRead, redisVars, Known
  <2>2. CASE UNCHANGED <<ids, found>> /\ assign' = [assign EXCEPT ![a] = "failed"]
    BY <2>1, <2>2, Zenon DEF FailInv, TInv, TypeOK, AssignTypes
  <2>3. CASE /\ assign' = [assign EXCEPT ![a] = "read"]
             /\ ids' = [ids EXCEPT ![a] = S]
             /\ found' = [found EXCEPT ![a] = {t \in S : tickets[t] # None}]
    BY <2>1, <2>3, Zenon DEF FailInv, TInv, TypeOK, AssignTypes
  <2> QED BY <1>7, <2>2, <2>3, Zenon DEF UpdateAssignmentsRead
<1>8. ASSUME NEW a \in Assigns, UpdateAssignmentsExec(a) PROVE FailInv'
  <2>1. UNCHANGED ids /\ ids[a] \subseteq Tickets
    BY <1>8, Zenon DEF UpdateAssignmentsExec, TInv, TypeOK, AssignTypes
  <2>2. \A b \in Assigns \ {a} : assign'[b] = assign[b] /\ found'[b] = found[b]
    BY <1>8, Zenon DEF UpdateAssignmentsExec, TInv, TypeOK, AssignTypes
  <2>3. CASE assign'[a] = "failed"
    BY <1>0, <2>1, <2>2, <2>3, Zenon DEF FailInv, StaysGone
  <2>4. CASE Written(SetXX(a), a) /\ found' = [found EXCEPT ![a] = SetXX(a)]
    <3>1. \A t \in ids[a] \ SetXX(a) : tickets[t] = None
      BY <1>8, Zenon DEF UpdateAssignmentsExec, FailInv, SetXX
    <3>2. found'[a] = SetXX(a)
      BY <2>4, Zenon DEF TInv, TypeOK, AssignTypes
    <3>3. \A t \in ids[a] \ SetXX(a) : tickets'[t] = None
      BY <1>0, <2>1, <3>1, Zenon DEF StaysGone
    <3> QED BY <1>0, <2>1, <2>2, <3>2, <3>3, Zenon DEF FailInv, StaysGone
  <2> QED
    BY <1>8, <2>3, <2>4, Zenon DEF UpdateAssignmentsExec, TInv, TypeOK, AssignTypes
<1>9. ASSUME NEW a \in Assigns, NEW t \in deindex[a], DeindexAssigned(a, t) PROVE FailInv'
  BY <1>9, <1>0, CleanupSteps, Zenon DEF DeindexAssigned, FailInv, StaysGone, TInv,
    TypeOK, AssignTypes
<1>10. ASSUME NEW a \in Assigns, UnpendAssigned(a) PROVE FailInv'
  BY <1>10, <1>0, CleanupSteps, Zenon DEF UnpendAssigned, FailInv, StaysGone, TInv,
    TypeOK, AssignTypes
<1>11. ASSUME NEW a \in Assigns, CrashAssign(a) PROVE FailInv'
  BY <1>11, <1>0, CleanupSteps, Zenon DEF CrashAssign, redisVars, FailInv, StaysGone,
    TInv, TypeOK, AssignTypes
<1>12. ASSUME NEW S \in SUBSET Known, AddTicketsToPendingRelease(S) PROVE FailInv'
  BY <1>12, <1>0, Zenon DEF AddTicketsToPendingRelease, callVars, assignVars, FailInv,
    StaysGone
<1>13. ASSUME NEW S \in SUBSET Known, DeleteTicketsFromPendingRelease(S) PROVE FailInv'
  BY <1>13, <1>0, Zenon DEF DeleteTicketsFromPendingRelease, callVars, assignVars,
    FailInv, StaysGone
<1>14. ASSUME ReleaseAllTickets PROVE FailInv'
  BY <1>14, <1>0, Zenon DEF ReleaseAllTickets, callVars, assignVars, FailInv, StaysGone
<1>15. ASSUME NEW t \in Tickets, PendingTimeout(t) PROVE FailInv'
  BY <1>15, <1>0, Zenon DEF PendingTimeout, callVars, assignVars, FailInv, StaysGone
<1>16. ASSUME NEW t \in Tickets, Expire(t) PROVE FailInv'
  BY <1>16, <1>0, Zenon DEF Expire, callVars, assignVars, FailInv, StaysGone
<1>17. ASSUME NEW q \in Queries, QueryRead(q) PROVE FailInv'
  BY <1>17, <1>0, Zenon DEF QueryRead, redisVars, assignVars, FailInv, StaysGone
<1>18. ASSUME NEW q \in Queries, QueryFetch(q) PROVE FailInv'
  BY <1>18, <1>0, Zenon DEF QueryFetch, redisVars, assignVars, FailInv, StaysGone
<1>19. ASSUME NEW t \in Watched, WatchStart(t) PROVE FailInv'
  BY <1>19, <1>0, Zenon DEF WatchStart, redisVars, assignVars, FailInv, StaysGone
<1>20. ASSUME NEW t \in Watched, WatchPoll(t) PROVE FailInv'
  BY <1>20, <1>0, Zenon DEF WatchPoll, redisVars, assignVars, FailInv, StaysGone
<1>21. ASSUME NEW t \in Watched, WatchEnds(t) PROVE FailInv'
  BY <1>21, <1>0, Zenon DEF WatchEnds, redisVars, assignVars, FailInv, StaysGone
<1>22. ASSUME UNCHANGED vars PROVE FailInv'
  BY <1>22, Zenon DEF vars, callVars, redisVars, assignVars, TInv, FailInv
<1> QED
  BY <1>1, <1>2, <1>3, <1>4, <1>5, <1>6, <1>7, <1>8, <1>9, <1>10, <1>11, <1>12, <1>13,
    <1>14, <1>15, <1>16, <1>17, <1>18, <1>19, <1>20, <1>21, <1>22, Zenon DEF Next,
    Create, Delete, Assign

-----------------------------------------------------------------------------
(* Theorems *)

\* The invariants hold of an empty store.
LEMMA TicketsInit == Init => TInv /\ FailInv
<1> SUFFICES ASSUME Init PROVE TInv /\ FailInv
  BY Zenon
<1>1. StoreTypes
  BY TicketConstants DEF Init, StoreTypes, Contents
<1>2. CallTypes /\ AssignTypes /\ WatchTypes
  BY DEF Init, CallTypes, AssignTypes, WatchTypes
<1>3. QueryTypes
  BY SMTT(40) DEF Init, QueryTypes, Contents
<1>4. KnownInv /\ StepInv /\ WatchInv /\ FailInv
  BY TicketConstants, Zenon DEF Init, KnownInv, StepInv, WatchInv, FailInv
<1> QED BY <1>1, <1>2, <1>3, <1>4, Zenon DEF TInv, TypeOK

\* The invariant is inductive.
LEMMA TInvStep == TInv /\ [Next]_vars => TInv'
BY StoreTypesStep, CallTypesStep, AssignTypesStep, QueryTypesStep, WatchTypesStep,
   KnownInvStep, StepInvStep, WatchInvStep, Zenon DEF TInv, TypeOK

\* The inductive invariant on which the other theorems rest.
THEOREM TicketsInvariant == Spec => [](TInv /\ FailInv)
<1>1. TInv /\ FailInv /\ [Next]_vars => (TInv /\ FailInv)'
  BY TInvStep, StaysGoneStep, FailInvStep, Zenon
<1> QED BY <1>1, TicketsInit, PTL DEF Spec

\* Type correctness; in particular exactly the assigned tickets have a time to live.
THEOREM TicketTypes == Spec => []TypeOK
BY TicketsInvariant, PTL DEF TInv

\* A deleted or expired ticket never comes back, whatever fails.
THEOREM NoResurrection == Spec => NeverResurrected
<1>1. TInv /\ [Next]_vars =>
        [\A t \in Tickets : create[t] # "idle" /\ tickets[t] = None => tickets'[t] = None]_vars
  BY StaysGoneStep, Zenon DEF StaysGone
<1> QED BY <1>1, TicketsInvariant, PTL DEF Spec, NeverResurrected

\* A ticket that AssignTickets reports as not found is gone for good.
THEOREM NotFoundIsFinal == Spec => []FailureIsFinal
<1>1. FailInv => FailureIsFinal
  BY Zenon DEF FailInv, FailureIsFinal
<1> QED BY <1>1, TicketsInvariant, PTL

\* Both together: a ticket that is gone stays gone, and only such tickets are reported
\* as not found.
THEOREM GoneForGood == Spec => GoneStaysGone
BY NoResurrection, NotFoundIsFinal, PTL DEF GoneStaysGone
-----------------------------------------------------------------------------
(* The pool: what a query server serves, and what is in the index. *)

\* A ticket out of the pool since the update began is left out by what was read.
ServeAt(q) ==
    /\ query[q] = 0 => out[q] = {}
    /\ query[q] = 1 => \A t \in out[q] : t \in read[q].pending \/ t \notin allTickets
    /\ query[q] = 2 => /\ \A t \in out[q] : t \notin Current(read[q])
                       /\ \A t \in Tickets : value[q][t] # None => t \in Current(read[q])

ServeInv == \A q \in Queries : ServeAt(q)

\* Who took a ticket out of the index, and who is about to.
PoolInv ==
    /\ \A t \in Tickets : create[t] = "stored" => tickets[t] = "new"
    /\ \A t \in Tickets : delete[t] \in {"deindexed", "deleted"} => t \notin allTickets
    /\ \A a \in Assigns : assign[a] = "deindex" =>
          \A t \in ids[a] \ deindex[a] : t \notin allTickets
    /\ \A a \in Assigns : assign[a] \in {"unpend", "done"} =>
          \A t \in ids[a] : t \notin allTickets
    /\ \A t \in allTickets : tickets[t] # "new" =>
          \E a \in Assigns : assign[a] = "deindex" /\ t \in deindex[a]
-----------------------------------------------------------------------------
(* What query servers serve *)

\* Commands of others only take tickets off the list of a running update.
LEMMA OutShrinks ==
    ASSUME Track, query' = query, NEW q \in Queries
    PROVE  /\ query[q] = 0 => out'[q] = {}
           /\ query[q] # 0 => out'[q] = out[q] \ Pool'
BY Zenon DEF Track

\* The commands of others, as long as they do not add to the index.
LEMMA QuietServe ==
    ASSUME TInv, ServeInv, Track, UNCHANGED queryVars,
           \A t \in allTickets' \ allTickets : t \in Pool'
    PROVE  ServeInv'
<1> SUFFICES ASSUME NEW q \in Queries
             PROVE  /\ query[q] = 0 => out'[q] = {}
                    /\ query[q] = 1 => \A t \in out'[q] :
                                         t \in read[q].pending \/ t \notin allTickets'
                    /\ query[q] = 2 => \A t \in out'[q] : t \notin Current(read[q])
  BY Zenon DEF ServeInv, ServeAt, queryVars, Current
<1>1. query' = query
  BY Zenon DEF queryVars
<1>2. query[q] = 0 => out'[q] = {}
  BY <1>1, OutShrinks, Zenon
<1>3. query[q] # 0 => out'[q] = out[q] \ Pool'
  BY <1>1, OutShrinks, Zenon
<1> QED BY <1>2, <1>3, Zenon DEF ServeInv, ServeAt

\* A query update serves no ticket that was out of the index when it began.
LEMMA ServeInvStep ==
    ASSUME TInv, ServeInv
    PROVE  [Next]_vars => ServeInv'
<1>1. ASSUME NEW t \in Tickets, CreateTicket(t) PROVE ServeInv'
  BY <1>1, QuietServe, Zenon DEF CreateTicket
<1>2. ASSUME NEW t \in Tickets, IndexTicket(t) PROVE ServeInv'
  <2>1. t \notin proposedTicketIDs /\ proposedTicketIDs' = proposedTicketIDs
    BY <1>2, Zenon DEF IndexTicket, TInv, KnownInv
  <2>2. \A u \in allTickets' \ allTickets : u \in Pool'
    BY <1>2, <2>1, Zenon DEF IndexTicket, Pool
  <2> QED BY <1>2, <2>2, QuietServe, Zenon DEF IndexTicket
<1>3. ASSUME NEW t \in Tickets, DeleteDeindex(t) PROVE ServeInv'
  BY <1>3, QuietServe, Zenon DEF DeleteDeindex
<1>4. ASSUME NEW t \in Tickets, DeleteTicket(t) PROVE ServeInv'
  BY <1>4, QuietServe, Zenon DEF DeleteTicket
<1>5. ASSUME NEW t \in Tickets, DeleteFromPending(t) PROVE ServeInv'
  BY <1>5, QuietServe, Zenon DEF DeleteFromPending
<1>6. ASSUME NEW t \in Tickets, CrashDelete(t) PROVE ServeInv'
  BY <1>6, QuietServe, Zenon DEF CrashDelete, redisVars
<1>7. ASSUME NEW a \in Assigns, NEW S \in SUBSET Known, UpdateAssignmentsRead(a, S) PROVE ServeInv'
  BY <1>7, QuietServe, Zenon DEF UpdateAssignmentsRead, redisVars
<1>8. ASSUME NEW a \in Assigns, UpdateAssignmentsExec(a) PROVE ServeInv'
  BY <1>8, QuietServe, Zenon DEF UpdateAssignmentsExec
<1>9. ASSUME NEW a \in Assigns, NEW t \in deindex[a], DeindexAssigned(a, t) PROVE ServeInv'
  BY <1>9, QuietServe, Zenon DEF DeindexAssigned
<1>10. ASSUME NEW a \in Assigns, UnpendAssigned(a) PROVE ServeInv'
  BY <1>10, QuietServe, Zenon DEF UnpendAssigned
<1>11. ASSUME NEW a \in Assigns, CrashAssign(a) PROVE ServeInv'
  BY <1>11, QuietServe, Zenon DEF CrashAssign, redisVars
<1>12. ASSUME NEW S \in SUBSET Known, AddTicketsToPendingRelease(S) PROVE ServeInv'
  BY <1>12, QuietServe, Zenon DEF AddTicketsToPendingRelease, callVars
<1>13. ASSUME NEW S \in SUBSET Known, DeleteTicketsFromPendingRelease(S) PROVE ServeInv'
  BY <1>13, QuietServe, Zenon DEF DeleteTicketsFromPendingRelease, callVars
<1>14. ASSUME ReleaseAllTickets PROVE ServeInv'
  BY <1>14, QuietServe, Zenon DEF ReleaseAllTickets, callVars
<1>15. ASSUME NEW t \in Tickets, PendingTimeout(t) PROVE ServeInv'
  BY <1>15, QuietServe, Zenon DEF PendingTimeout, callVars
<1>16. ASSUME NEW t \in Tickets, Expire(t) PROVE ServeInv'
  BY <1>16, QuietServe, Zenon DEF Expire, callVars
<1>17. ASSUME NEW q \in Queries, QueryRead(q) PROVE ServeInv'
  <2>1. \A p \in Queries \ {q} :
           query'[p] = query[p] /\ read'[p] = read[p] /\ value'[p] = value[p]
    BY <1>17, Zenon DEF QueryRead, TInv, TypeOK, QueryTypes
  <2>2. allTickets' = allTickets /\ proposedTicketIDs' = proposedTicketIDs /\ Pool' = Pool
    BY <1>17, Zenon DEF QueryRead, redisVars, Pool
  <2>3. \A p \in Queries :
           /\ query'[p] = 0 => out'[p] = {}
           /\ query[p] = 0 /\ query'[p] # 0 => out'[p] = Tickets \ Pool
           /\ query[p] # 0 /\ query'[p] # 0 => out'[p] = out[p] \ Pool
    BY <1>17, <2>2, Zenon DEF QueryRead, Track
  <2>4. \A p \in Queries \ {q} : ServeAt(p)'
    BY <2>1, <2>2, <2>3 DEF ServeInv, ServeAt, Current
  <2>5. ServeAt(q)'
    <3>1. CASE query' = [query EXCEPT ![q] = 0]
      BY <2>3, <3>1 DEF ServeAt, TInv, TypeOK, QueryTypes
    <3>2. CASE query[q] = 0 /\ query' = [query EXCEPT ![q] = @ + 1]
      <4>1. query'[q] = 1
        BY <3>2 DEF TInv, TypeOK, QueryTypes
      <4>2. read'[q].pending = proposedTicketIDs
        BY <1>17, <3>2, <4>1 DEF QueryRead, ReadOrder, TInv, TypeOK, QueryTypes
      <4> QED BY <2>2, <2>3, <3>2, <4>1, <4>2 DEF ServeAt, Pool
    <3>3. CASE query[q] = 1 /\ query' = [query EXCEPT ![q] = @ + 1]
      <4>1. query'[q] = 2
        BY <3>3 DEF TInv, TypeOK, QueryTypes
      <4>2. read'[q].pending = read[q].pending /\ read'[q].index = allTickets
        BY <1>17, <3>3, <4>1 DEF QueryRead, ReadOrder, TInv, TypeOK, QueryTypes
      <4>3. value'[q] = Pruned(value[q], Current(read'[q]))
        BY <1>17, <3>3, <4>1 DEF QueryRead, TInv, TypeOK, QueryTypes
      <4>4. \A t \in out'[q] : t \notin Current(read'[q])
        BY <2>3, <3>3, <4>1, <4>2 DEF ServeInv, ServeAt, Current
      <4>5. \A t \in Tickets : value'[q][t] # None => t \in Current(read'[q])
        BY <4>3, Zenon DEF Pruned
      <4> QED BY <4>1, <4>4, <4>5 DEF ServeAt, Current
    <3> QED BY <1>17, <3>1, <3>2, <3>3 DEF QueryRead, TInv, TypeOK, QueryTypes
  <2> QED BY <2>4, <2>5, Zenon DEF ServeInv
<1>18. ASSUME NEW q \in Queries, QueryFetch(q) PROVE ServeInv'
  <2>1. \A p \in Queries \ {q} :
           query'[p] = query[p] /\ read'[p] = read[p] /\ value'[p] = value[p]
    BY <1>18, Zenon DEF QueryFetch, TInv, TypeOK, QueryTypes
  <2>2. allTickets' = allTickets /\ Pool' = Pool /\ query'[q] = 0
    BY <1>18, Zenon DEF QueryFetch, redisVars, Pool, TInv, TypeOK, QueryTypes
  <2>3. \A p \in Queries :
           /\ query'[p] = 0 => out'[p] = {}
           /\ query[p] # 0 /\ query'[p] # 0 => out'[p] = out[p] \ Pool
    BY <1>18, <2>2, Zenon DEF QueryFetch, Track
  <2>4. \A p \in Queries \ {q} : ServeAt(p)'
    BY <2>1, <2>2, <2>3 DEF ServeInv, ServeAt, Current
  <2>5. ServeAt(q)'
    BY <2>2, <2>3 DEF ServeAt
  <2> QED BY <2>4, <2>5, Zenon DEF ServeInv
<1>19. ASSUME NEW t \in Watched, WatchStart(t) PROVE ServeInv'
  BY <1>19, QuietServe, Zenon DEF WatchStart, redisVars
<1>20. ASSUME NEW t \in Watched, WatchPoll(t) PROVE ServeInv'
  BY <1>20, QuietServe, Zenon DEF WatchPoll, redisVars
<1>21. ASSUME NEW t \in Watched, WatchEnds(t) PROVE ServeInv'
  BY <1>21, QuietServe, Zenon DEF WatchEnds, redisVars
<1>22. ASSUME UNCHANGED vars PROVE ServeInv'
  BY <1>22, Zenon DEF vars, callVars, redisVars, queryVars, TInv, ServeInv, ServeAt,
    Current
<1> QED
  BY <1>1, <1>2, <1>3, <1>4, <1>5, <1>6, <1>7, <1>8, <1>9, <1>10, <1>11, <1>12, <1>13,
    <1>14, <1>15, <1>16, <1>17, <1>18, <1>19, <1>20, <1>21, <1>22, Zenon DEF Next,
    Create, Delete, Assign

\* Only the last command of an update ends one that has made two.
EndsByFetch == \A q \in Queries : query[q] = 2 /\ query'[q] = 0 => QueryFetch(q)

\* Two places of a query update differ.
LEMMA TwoNotZero == 2 # 0
OBVIOUS

\* The other commands do not end an update that has read index and pending set.
LEMMA EndsByFetchStep ==
    ASSUME TInv
    PROVE  [Next]_vars => EndsByFetch
<1>1. ASSUME NEW t \in Tickets, CreateTicket(t) PROVE EndsByFetch
  BY <1>1, TwoNotZero, Zenon DEF CreateTicket, queryVars, EndsByFetch
<1>2. ASSUME NEW t \in Tickets, IndexTicket(t) PROVE EndsByFetch
  BY <1>2, TwoNotZero, Zenon DEF IndexTicket, queryVars, EndsByFetch
<1>3. ASSUME NEW t \in Tickets, DeleteDeindex(t) PROVE EndsByFetch
  BY <1>3, TwoNotZero, Zenon DEF DeleteDeindex, queryVars, EndsByFetch
<1>4. ASSUME NEW t \in Tickets, DeleteTicket(t) PROVE EndsByFetch
  BY <1>4, TwoNotZero, Zenon DEF DeleteTicket, queryVars, EndsByFetch
<1>5. ASSUME NEW t \in Tickets, DeleteFromPending(t) PROVE EndsByFetch
  BY <1>5, TwoNotZero, Zenon DEF DeleteFromPending, queryVars, EndsByFetch
<1>6. ASSUME NEW t \in Tickets, CrashDelete(t) PROVE EndsByFetch
  BY <1>6, TwoNotZero, Zenon DEF CrashDelete, queryVars, EndsByFetch
<1>7. ASSUME NEW a \in Assigns, NEW S \in SUBSET Known, UpdateAssignmentsRead(a, S) PROVE EndsByFetch
  BY <1>7, TwoNotZero, Zenon DEF UpdateAssignmentsRead, queryVars, EndsByFetch
<1>8. ASSUME NEW a \in Assigns, UpdateAssignmentsExec(a) PROVE EndsByFetch
  BY <1>8, TwoNotZero, Zenon DEF UpdateAssignmentsExec, queryVars, EndsByFetch
<1>9. ASSUME NEW a \in Assigns, NEW t \in deindex[a], DeindexAssigned(a, t) PROVE EndsByFetch
  BY <1>9, TwoNotZero, Zenon DEF DeindexAssigned, queryVars, EndsByFetch
<1>10. ASSUME NEW a \in Assigns, UnpendAssigned(a) PROVE EndsByFetch
  BY <1>10, TwoNotZero, Zenon DEF UnpendAssigned, queryVars, EndsByFetch
<1>11. ASSUME NEW a \in Assigns, CrashAssign(a) PROVE EndsByFetch
  BY <1>11, TwoNotZero, Zenon DEF CrashAssign, queryVars, EndsByFetch
<1>12. ASSUME NEW S \in SUBSET Known, AddTicketsToPendingRelease(S) PROVE EndsByFetch
  BY <1>12, TwoNotZero, Zenon DEF AddTicketsToPendingRelease, callVars, queryVars,
    EndsByFetch
<1>13. ASSUME NEW S \in SUBSET Known, DeleteTicketsFromPendingRelease(S) PROVE EndsByFetch
  BY <1>13, TwoNotZero, Zenon DEF DeleteTicketsFromPendingRelease, callVars,
    queryVars, EndsByFetch
<1>14. ASSUME ReleaseAllTickets PROVE EndsByFetch
  BY <1>14, TwoNotZero, Zenon DEF ReleaseAllTickets, callVars, queryVars, EndsByFetch
<1>15. ASSUME NEW t \in Tickets, PendingTimeout(t) PROVE EndsByFetch
  BY <1>15, TwoNotZero, Zenon DEF PendingTimeout, callVars, queryVars, EndsByFetch
<1>16. ASSUME NEW t \in Tickets, Expire(t) PROVE EndsByFetch
  BY <1>16, TwoNotZero, Zenon DEF Expire, callVars, queryVars, EndsByFetch
<1>17. ASSUME NEW q \in Queries, QueryRead(q) PROVE EndsByFetch
  BY <1>17 DEF QueryRead, EndsByFetch, TInv, TypeOK, QueryTypes
<1>18. ASSUME NEW q \in Queries, QueryFetch(q) PROVE EndsByFetch
  <2>1. query' = [query EXCEPT ![q] = 0]
    BY <1>18, Zenon DEF QueryFetch
  <2>2. ASSUME NEW p \in Queries, p # q, query[p] = 2 PROVE query'[p] # 0
    BY <2>1, <2>2, TwoNotZero, Zenon DEF TInv, TypeOK, QueryTypes
  <2> QED
    BY <1>18, <2>2, Zenon DEF EndsByFetch
<1>19. ASSUME NEW t \in Watched, WatchStart(t) PROVE EndsByFetch
  BY <1>19, TwoNotZero, Zenon DEF WatchStart, queryVars, EndsByFetch
<1>20. ASSUME NEW t \in Watched, WatchPoll(t) PROVE EndsByFetch
  BY <1>20, TwoNotZero, Zenon DEF WatchPoll, queryVars, EndsByFetch
<1>21. ASSUME NEW t \in Watched, WatchEnds(t) PROVE EndsByFetch
  BY <1>21, TwoNotZero, Zenon DEF WatchEnds, queryVars, EndsByFetch
<1>22. ASSUME UNCHANGED vars PROVE EndsByFetch
  BY <1>22, TwoNotZero, Zenon DEF vars, callVars, queryVars, TInv, EndsByFetch
<1> QED
  BY <1>1, <1>2, <1>3, <1>4, <1>5, <1>6, <1>7, <1>8, <1>9, <1>10, <1>11, <1>12, <1>13,
    <1>14, <1>15, <1>16, <1>17, <1>18, <1>19, <1>20, <1>21, <1>22, Zenon DEF Next,
    Create, Delete, Assign

\* A query server serves no ticket that was out of the pool all through its update.
THEOREM ServedFromPool == Spec => ServedWasInPool
<1>1. Init => ServeInv
  BY DEF Init, ServeInv, ServeAt
<1>2. TInv /\ ServeInv /\ [Next]_vars => ServeInv'
  BY ServeInvStep, Zenon
<1>3. ASSUME TInv, ServeInv, [Next]_vars, NEW q \in Queries, query[q] = 2, query'[q] = 0,
             NEW t \in Tickets, value'[q][t] # None
      PROVE  t \notin out[q]
  <2>1. QueryFetch(q)
    BY <1>3, EndsByFetchStep, Zenon DEF EndsByFetch
  <2>2. t \in Current(read[q])
    BY <1>3, <2>1 DEF QueryFetch, ServeInv, ServeAt, TInv, TypeOK, QueryTypes
  <2> QED BY <1>3, <2>2, Zenon DEF ServeInv, ServeAt
<1>4. TInv /\ ServeInv /\ [Next]_vars =>
        [\A q \in Queries : query[q] = 2 /\ query'[q] = 0 =>
           \A t \in Tickets : value'[q][t] # None => t \notin out[q]]_vars
  BY <1>3, Zenon
<1> QED BY <1>1, <1>2, <1>4, TicketsInvariant, PTL DEF Spec, ServedWasInPool
-----------------------------------------------------------------------------
(* The index when nothing fails *)

NoFaults == ~Fails /\ ~Crashes

\* Without failures, what a delete or an assignment has deindexed stays out of the
\* index, and a ticket without a key is about to be deindexed.
LEMMA PoolInvStep ==
    ASSUME NoFaults, TInv, PoolInv
    PROVE  [Next]_vars => PoolInv'
<1>1. ASSUME NEW t \in Tickets, CreateTicket(t) PROVE PoolInv'
  <2>1. /\ tickets' = [tickets EXCEPT ![t] = "new"]
        /\ create' = [create EXCEPT ![t] = "stored"]
    BY <1>1, Zenon DEF CreateTicket, NoFaults
  <2>2. UNCHANGED <<allTickets, delete, assign, ids, deindex>>
    BY <1>1, Zenon DEF CreateTicket, assignVars
  <2>3. \A u \in Tickets : create'[u] = "stored" => tickets'[u] = "new"
    BY <2>1, Zenon DEF TInv, TypeOK, StoreTypes, CallTypes, PoolInv
  <2>4. t \notin allTickets /\ allTickets \subseteq Tickets
    BY <1>1, Zenon DEF CreateTicket, TInv, TypeOK, StoreTypes, KnownInv
  <2>5. \A u \in allTickets : tickets'[u] = tickets[u]
    BY <2>1, <2>4, Zenon DEF TInv, TypeOK, StoreTypes
  <2> QED BY <2>2, <2>3, <2>5, Zenon DEF PoolInv
<1>2. ASSUME NEW t \in Tickets, IndexTicket(t) PROVE PoolInv'
  BY <1>2, TicketConstants DEF IndexTicket, assignVars, NoFaults, TInv, TypeOK,
    StoreTypes, CallTypes, AssignTypes, KnownInv, PoolInv
<1>3. ASSUME NEW t \in Tickets, DeleteDeindex(t) PROVE PoolInv'
  BY <1>3, TicketConstants DEF DeleteDeindex, assignVars, NoFaults, TInv, TypeOK,
    StoreTypes, CallTypes, AssignTypes, KnownInv, PoolInv, Known
<1>4. ASSUME NEW t \in Tickets, DeleteTicket(t) PROVE PoolInv'
  <2>1. /\ tickets' = [tickets EXCEPT ![t] = None]
        /\ delete' = [delete EXCEPT ![t] = "deleted"]
    BY <1>4, Zenon DEF DeleteTicket, NoFaults
  <2>2. UNCHANGED <<allTickets, create, assign, ids, deindex>>
    BY <1>4, Zenon DEF DeleteTicket, assignVars
  <2>3. delete[t] = "deindexed" /\ t \notin allTickets /\ create[t] = "done"
    BY <1>4, Zenon DEF DeleteTicket, PoolInv, TInv, KnownInv
  <2>4. \A u \in Tickets : create[u] = "stored" => tickets'[u] = "new"
    BY <2>1, <2>3, Zenon DEF TInv, TypeOK, StoreTypes, PoolInv
  <2>5. \A u \in allTickets : tickets'[u] = tickets[u]
    BY <2>1, <2>3, Zenon DEF TInv, TypeOK, StoreTypes
  <2>6. \A u \in Tickets : delete'[u] \in {"deindexed", "deleted"} => u \notin allTickets
    BY <2>1, <2>3, Zenon DEF TInv, TypeOK, CallTypes, PoolInv
  <2> QED BY <2>2, <2>4, <2>5, <2>6, Zenon DEF PoolInv
<1>5. ASSUME NEW t \in Tickets, DeleteFromPending(t) PROVE PoolInv'
  BY <1>5, TicketConstants DEF DeleteFromPending, assignVars, NoFaults, TInv, TypeOK,
    StoreTypes, CallTypes, AssignTypes, KnownInv, PoolInv
<1>6. ASSUME NEW t \in Tickets, CrashDelete(t) PROVE PoolInv'
  BY <1>6, Zenon DEF CrashDelete, NoFaults
<1>7. ASSUME NEW a \in Assigns, NEW S \in SUBSET Known, UpdateAssignmentsRead(a, S) PROVE PoolInv'
  <2>1. /\ assign' = [assign EXCEPT ![a] = "read"] /\ ids' = [ids EXCEPT ![a] = S]
        /\ assign[a] = "idle"
    BY <1>7, Zenon DEF UpdateAssignmentsRead, NoFaults
  <2>2. UNCHANGED <<tickets, allTickets, create, delete, deindex>>
    BY <1>7, Zenon DEF UpdateAssignmentsRead, redisVars
  <2>3. assign'[a] = "read"
    BY <2>1, Zenon DEF TInv, TypeOK, AssignTypes
  <2>4. \A b \in Assigns \ {a} : assign'[b] = assign[b] /\ ids'[b] = ids[b]
    BY <2>1, Zenon DEF TInv, TypeOK, AssignTypes
  <2>5. \A b \in Assigns : assign[b] = "deindex" => assign'[b] = "deindex"
    BY <2>1, <2>4, Zenon
  <2> QED BY <2>2, <2>3, <2>4, <2>5, Zenon DEF PoolInv
<1>8. ASSUME NEW a \in Assigns, UpdateAssignmentsExec(a) PROVE PoolInv'
  <2>1. /\ Written(SetXX(a), a) /\ deindex' = [deindex EXCEPT ![a] = ids[a]]
        /\ assign' = [assign EXCEPT ![a] = "deindex"] /\ assign[a] = "read"
    BY <1>8, CleanupSteps, Zenon DEF UpdateAssignmentsExec, NoFaults
  <2>2. UNCHANGED <<allTickets, create, delete, ids>>
    BY <1>8, Zenon DEF UpdateAssignmentsExec
  <2>3. assign'[a] = "deindex" /\ deindex'[a] = ids[a]
    BY <2>1, Zenon DEF TInv, TypeOK, AssignTypes
  <2>4. \A b \in Assigns \ {a} : assign'[b] = assign[b] /\ deindex'[b] = deindex[b]
    BY <2>1, Zenon DEF TInv, TypeOK, AssignTypes
  <2>5. SetXX(a) \subseteq ids[a] /\ allTickets \subseteq Tickets
    BY Zenon DEF SetXX, TInv, KnownInv, TypeOK, StoreTypes
  <2>6. \A u \in Tickets : u \in ids[a] \/ tickets'[u] = tickets[u]
    BY <2>1, <2>5, Zenon DEF Written
  <2>7. \A u \in Tickets : create[u] = "stored" => tickets'[u] = "new"
    BY <2>6, Zenon DEF PoolInv, TInv, KnownInv
  <2>8. ASSUME NEW u \in allTickets, tickets'[u] # "new"
        PROVE  \E b \in Assigns : assign'[b] = "deindex" /\ u \in deindex'[b]
    <3>1. CASE u \in ids[a]
      BY <2>3, <3>1, Zenon
    <3>2. CASE tickets[u] # "new"
      BY <2>1, <2>4, <3>2, Zenon DEF PoolInv
    <3> QED BY <2>5, <2>6, <2>8, <3>1, <3>2, Zenon
  <2>9. \A b \in Assigns : assign'[b] = "deindex" =>
           \A u \in ids[b] \ deindex'[b] : u \notin allTickets
    BY <2>3, <2>4, Zenon DEF PoolInv
  <2>10. \A b \in Assigns : assign'[b] \in {"unpend", "done"} =>
            \A u \in ids[b] : u \notin allTickets
    BY <2>3, <2>4, Zenon DEF PoolInv
  <2> QED BY <2>2, <2>7, <2>8, <2>9, <2>10, Zenon DEF PoolInv
<1>9. ASSUME NEW a \in Assigns, NEW t \in deindex[a], DeindexAssigned(a, t) PROVE PoolInv'
  BY <1>9, TicketConstants, CleanupSteps DEF DeindexAssigned, NoFaults, TInv, TypeOK,
    StoreTypes, CallTypes, AssignTypes, KnownInv, PoolInv, StepInv
<1>10. ASSUME NEW a \in Assigns, UnpendAssigned(a) PROVE PoolInv'
  BY <1>10, TicketConstants, CleanupSteps DEF UnpendAssigned, NoFaults, TInv, TypeOK,
    StoreTypes, CallTypes, AssignTypes, KnownInv, PoolInv, StepInv
<1>11. ASSUME NEW a \in Assigns, CrashAssign(a) PROVE PoolInv'
  BY <1>11, Zenon DEF CrashAssign, NoFaults
<1>12. ASSUME NEW S \in SUBSET Known, AddTicketsToPendingRelease(S) PROVE PoolInv'
  BY <1>12, Zenon DEF AddTicketsToPendingRelease, callVars, assignVars, PoolInv
<1>13. ASSUME NEW S \in SUBSET Known, DeleteTicketsFromPendingRelease(S) PROVE PoolInv'
  BY <1>13, Zenon DEF DeleteTicketsFromPendingRelease, callVars, assignVars, PoolInv
<1>14. ASSUME ReleaseAllTickets PROVE PoolInv'
  BY <1>14, Zenon DEF ReleaseAllTickets, callVars, assignVars, PoolInv
<1>15. ASSUME NEW t \in Tickets, PendingTimeout(t) PROVE PoolInv'
  BY <1>15, Zenon DEF PendingTimeout, callVars, assignVars, PoolInv
<1>16. ASSUME NEW t \in Tickets, Expire(t) PROVE PoolInv'
  BY <1>16, TicketConstants DEF Expire, callVars, assignVars, NoFaults, TInv, TypeOK,
    StoreTypes, CallTypes, AssignTypes, KnownInv, PoolInv
<1>17. ASSUME NEW q \in Queries, QueryRead(q) PROVE PoolInv'
  BY <1>17, Zenon DEF QueryRead, redisVars, assignVars, PoolInv
<1>18. ASSUME NEW q \in Queries, QueryFetch(q) PROVE PoolInv'
  BY <1>18, Zenon DEF QueryFetch, redisVars, assignVars, PoolInv
<1>19. ASSUME NEW t \in Watched, WatchStart(t) PROVE PoolInv'
  BY <1>19, Zenon DEF WatchStart, redisVars, assignVars, PoolInv
<1>20. ASSUME NEW t \in Watched, WatchPoll(t) PROVE PoolInv'
  BY <1>20, Zenon DEF WatchPoll, redisVars, assignVars, PoolInv
<1>21. ASSUME NEW t \in Watched, WatchEnds(t) PROVE PoolInv'
  BY <1>21, Zenon DEF WatchEnds, redisVars, assignVars, PoolInv
<1>22. ASSUME UNCHANGED vars PROVE PoolInv'
  BY <1>22, Zenon DEF vars, callVars, redisVars, assignVars, TInv, PoolInv
<1> QED
  BY <1>1, <1>2, <1>3, <1>4, <1>5, <1>6, <1>7, <1>8, <1>9, <1>10, <1>11, <1>12, <1>13,
    <1>14, <1>15, <1>16, <1>17, <1>18, <1>19, <1>20, <1>21, <1>22, Zenon DEF Next,
    Create, Delete, Assign

\* When nothing fails, an indexed ticket without contents is one that a running
\* assignment is about to take out of the index.
THEOREM IndexFollowsStore == ASSUME NoFaults PROVE Spec => []IndexedIsStored
<1>1. Init => PoolInv
  BY Zenon DEF Init, PoolInv
<1>2. TInv /\ PoolInv /\ [Next]_vars => PoolInv'
  BY PoolInvStep, Zenon
<1>3. TInv /\ PoolInv => IndexedIsStored
  BY TicketConstants, Zenon DEF PoolInv, IndexedIsStored, TInv, TypeOK, StoreTypes
<1> QED BY <1>1, <1>2, <1>3, TicketsInvariant, PTL DEF Spec

\* The step that NeverExposed allows.
Exposed == assign' # assign \/ delete' # delete => Pool' \subseteq Pool

\* An assignment or a delete returns no ticket to the pool.
LEMMA ExposedStep ==
    ASSUME NoFaults, TInv, PoolInv
    PROVE  [Next]_vars => Exposed
<1>1. ASSUME NEW t \in Tickets, CreateTicket(t) PROVE Exposed
  BY <1>1, Zenon DEF CreateTicket, assignVars, Pool, Exposed
<1>2. ASSUME NEW t \in Tickets, IndexTicket(t) PROVE Exposed
  BY <1>2, Zenon DEF IndexTicket, assignVars, Pool, Exposed
<1>3. ASSUME NEW t \in Tickets, DeleteDeindex(t) PROVE Exposed
  BY <1>3, Zenon DEF DeleteDeindex, assignVars, Pool, Exposed
<1>4. ASSUME NEW t \in Tickets, DeleteTicket(t) PROVE Exposed
  BY <1>4, Zenon DEF DeleteTicket, assignVars, Pool, Exposed
<1>5. ASSUME NEW t \in Tickets, DeleteFromPending(t) PROVE Exposed
  BY <1>5, Zenon DEF DeleteFromPending, PoolInv, Pool, Exposed
<1>6. ASSUME NEW t \in Tickets, CrashDelete(t) PROVE Exposed
  BY <1>6, Zenon DEF CrashDelete, NoFaults
<1>7. ASSUME NEW a \in Assigns, NEW S \in SUBSET Known, UpdateAssignmentsRead(a, S) PROVE Exposed
  BY <1>7, Zenon DEF UpdateAssignmentsRead, redisVars, Pool, Exposed
<1>8. ASSUME NEW a \in Assigns, UpdateAssignmentsExec(a) PROVE Exposed
  BY <1>8, Zenon DEF UpdateAssignmentsExec, Pool, Exposed
<1>9. ASSUME NEW a \in Assigns, NEW t \in deindex[a], DeindexAssigned(a, t) PROVE Exposed
  BY <1>9, Zenon DEF DeindexAssigned, Pool, Exposed
<1>10. ASSUME NEW a \in Assigns, UnpendAssigned(a) PROVE Exposed
  BY <1>10, Zenon DEF UnpendAssigned, PoolInv, Pool, Exposed
<1>11. ASSUME NEW a \in Assigns, CrashAssign(a) PROVE Exposed
  BY <1>11, Zenon DEF CrashAssign, NoFaults
<1>12. ASSUME NEW S \in SUBSET Known, AddTicketsToPendingRelease(S) PROVE Exposed
  BY <1>12, Zenon DEF AddTicketsToPendingRelease, callVars, assignVars, Pool, Exposed
<1>13. ASSUME NEW S \in SUBSET Known, DeleteTicketsFromPendingRelease(S) PROVE Exposed
  BY <1>13, Zenon DEF DeleteTicketsFromPendingRelease, callVars, assignVars, Pool,
    Exposed
<1>14. ASSUME ReleaseAllTickets PROVE Exposed
  BY <1>14, Zenon DEF ReleaseAllTickets, callVars, assignVars, Pool, Exposed
<1>15. ASSUME NEW t \in Tickets, PendingTimeout(t) PROVE Exposed
  BY <1>15, Zenon DEF PendingTimeout, callVars, assignVars, Pool, Exposed
<1>16. ASSUME NEW t \in Tickets, Expire(t) PROVE Exposed
  BY <1>16, Zenon DEF Expire, callVars, assignVars, Pool, Exposed
<1>17. ASSUME NEW q \in Queries, QueryRead(q) PROVE Exposed
  BY <1>17, Zenon DEF QueryRead, redisVars, assignVars, Pool, Exposed
<1>18. ASSUME NEW q \in Queries, QueryFetch(q) PROVE Exposed
  BY <1>18, Zenon DEF QueryFetch, redisVars, assignVars, Pool, Exposed
<1>19. ASSUME NEW t \in Watched, WatchStart(t) PROVE Exposed
  BY <1>19, Zenon DEF WatchStart, redisVars, assignVars, Pool, Exposed
<1>20. ASSUME NEW t \in Watched, WatchPoll(t) PROVE Exposed
  BY <1>20, Zenon DEF WatchPoll, redisVars, assignVars, Pool, Exposed
<1>21. ASSUME NEW t \in Watched, WatchEnds(t) PROVE Exposed
  BY <1>21, Zenon DEF WatchEnds, redisVars, assignVars, Pool, Exposed
<1>22. ASSUME UNCHANGED vars PROVE Exposed
  BY <1>22, Zenon DEF vars, callVars, redisVars, assignVars, Exposed
<1> QED
  BY <1>1, <1>2, <1>3, <1>4, <1>5, <1>6, <1>7, <1>8, <1>9, <1>10, <1>11, <1>12, <1>13,
    <1>14, <1>15, <1>16, <1>17, <1>18, <1>19, <1>20, <1>21, <1>22, Zenon DEF Next,
    Create, Delete, Assign

\* When nothing fails, neither assigning nor deleting brings a ticket back into the pool.
THEOREM NoExposure == ASSUME NoFaults PROVE Spec => NeverExposed
<1>1. Init => PoolInv
  BY Zenon DEF Init, PoolInv
<1>2. TInv /\ PoolInv /\ [Next]_vars => PoolInv'
  BY PoolInvStep, Zenon
<1>3. TInv /\ PoolInv /\ [Next]_vars =>
        [assign' # assign \/ delete' # delete => Pool' \subseteq Pool]_vars
  BY ExposedStep, Zenon DEF Exposed
<1> QED BY <1>1, <1>2, <1>3, TicketsInvariant, PTL DEF Spec, NeverExposed
-----------------------------------------------------------------------------
(* What a watcher is sent. *)

\* The entries of s are entries of h, in this order.
Embeds(s, h) ==
    \E f \in [1 .. Len(s) -> 1 .. Len(h)] :
        /\ \A i \in DOMAIN f : h[f[i]] = s[i]
        /\ \A i, j \in DOMAIN f : i < j => f[i] < f[j]

\* The key holds the assignment that was written last.
LastInv ==
    \A t \in Tickets : tickets[t] \in Assigns =>
        history[t] # <<>> /\ history[t][Len(history[t])] = tickets[t]

OrderInv == LastInv /\ WatchedInOrder

\* Append adds one entry and keeps the others.
LEMMA Appended ==
    ASSUME NEW s \in Seq(Assigns), NEW e \in Assigns
    PROVE  /\ Append(s, e) \in Seq(Assigns) /\ Len(Append(s, e)) = Len(s) + 1
           /\ Len(s) \in Nat /\ Append(s, e) # <<>>
           /\ \A i \in 1 .. Len(s) : Append(s, e)[i] = s[i]
           /\ Append(s, e)[Len(s) + 1] = e
OBVIOUS

\* What was sent stays in order when the key is written again.
LEMMA EmbedsLater ==
    ASSUME NEW s \in Seq(Assigns), NEW h \in Seq(Assigns), NEW e \in Assigns, Embeds(s, h)
    PROVE  Embeds(s, Append(h, e))
<1>1. PICK f \in [1 .. Len(s) -> 1 .. Len(h)] :
          /\ \A i \in DOMAIN f : h[f[i]] = s[i]
          /\ \A i, j \in DOMAIN f : i < j => f[i] < f[j]
  BY Zenon DEF Embeds
<1>2. f \in [1 .. Len(s) -> 1 .. Len(Append(h, e))]
  BY Appended
<1>3. \A i \in DOMAIN f : Append(h, e)[f[i]] = s[i]
  BY <1>1, Appended
<1> QED BY <1>1, <1>2, <1>3, Zenon DEF Embeds

\* An assignment other than the last one sent was written after it.
LEMMA EmbedsLast ==
    ASSUME NEW s \in Seq(Assigns), NEW h \in Seq(Assigns), Embeds(s, h), h # <<>>,
           s = <<>> \/ s[Len(s)] # h[Len(h)]
    PROVE  Embeds(Append(s, h[Len(h)]), h)
<1> DEFINE n == Len(s)
           m == Len(h)
           u == Append(s, h[m])
<1>1. PICK f \in [1 .. n -> 1 .. m] :
          /\ \A i \in DOMAIN f : h[f[i]] = s[i]
          /\ \A i, j \in DOMAIN f : i < j => f[i] < f[j]
  BY Zenon DEF Embeds
<1>2. m \in Nat /\ m >= 1 /\ h[m] \in Assigns /\ n \in Nat
  OBVIOUS
<1>3. /\ Len(u) = n + 1 /\ u[n + 1] = h[m]
      /\ \A i \in 1 .. n : u[i] = s[i]
  BY <1>2, Appended
<1> HIDE DEF n, m, u
<1>4. \A i \in 1 .. n : f[i] < m
  <2> SUFFICES ASSUME NEW i \in 1 .. n PROVE f[i] < m
    OBVIOUS
  <2>1. n \in 1 .. n /\ s # <<>>
    BY <1>2 DEF n
  <2>2. f[n] # m
    BY <1>1, <2>1 DEF n, m
  <2>3. i = n \/ f[i] < f[n]
    BY <1>1, <1>2, <2>1
  <2> QED BY <1>2, <2>1, <2>2, <2>3
<1> DEFINE g == [i \in 1 .. n + 1 |-> IF i = n + 1 THEN m ELSE f[i]]
<1>5. g \in [1 .. Len(u) -> 1 .. m]
  BY <1>2, <1>3
<1>6. \A i \in DOMAIN g : h[g[i]] = u[i]
  BY <1>1, <1>2, <1>3
<1>7. \A i, j \in DOMAIN g : i < j => g[i] < g[j]
  BY <1>1, <1>2, <1>4
<1> HIDE DEF g
<1> QED BY <1>5, <1>6, <1>7, Zenon DEF Embeds, m, u

\* Calls that write no assignment, and send none, keep the order.
LEMMA OrderKeep ==
    ASSUME OrderInv, UNCHANGED <<history, sent>>,
           \A t \in Tickets : tickets'[t] \in Assigns => tickets'[t] = tickets[t]
    PROVE  OrderInv'
<1>1. history' = history /\ sent' = sent
  BY Zenon
<1>2. LastInv'
  BY <1>1, Zenon DEF OrderInv, LastInv
<1>3. WatchedInOrder'
  <2> SUFFICES ASSUME NEW t \in Watched PROVE Embeds(sent'[t], history'[t])
    BY Zenon DEF WatchedInOrder, Embeds
  <2>1. Embeds(sent[t], history[t])
    BY Zenon DEF OrderInv, WatchedInOrder, Embeds
  <2> QED BY <1>1, <2>1, Zenon
<1> QED BY <1>2, <1>3, Zenon DEF OrderInv

\* Only EXEC writes an assignment, and only a poll sends one.
LEMMA OrderStep ==
    ASSUME TInv, OrderInv
    PROVE  [Next]_vars => OrderInv'
<1>t. StoreTypes /\ WatchTypes /\ WatchInv
  BY Zenon DEF TInv, TypeOK
<1>k. ASSUME UNCHANGED <<tickets, history, sent>> PROVE OrderInv'
  BY <1>k, OrderKeep, Zenon
<1>g. ASSUME NEW t \in Tickets, NEW v \in {"new", None},
             tickets' = [tickets EXCEPT ![t] = v], UNCHANGED <<history, sent>>
      PROVE  OrderInv'
  <2>1. \A u \in Tickets : tickets'[u] \in Assigns => tickets'[u] = tickets[u]
    BY <1>g, <1>t, TicketConstants DEF StoreTypes
  <2> QED BY <1>g, <2>1, OrderKeep, Zenon
<1>1. ASSUME NEW t \in Tickets,
             Create(t) \/ Delete(t) \/ CrashDelete(t) \/ PendingTimeout(t) \/ Expire(t)
      PROVE  OrderInv'
  BY <1>1, <1>k, <1>g, Zenon DEF Create, CreateTicket, IndexTicket, Delete, DeleteDeindex,
    DeleteTicket, DeleteFromPending, CrashDelete, PendingTimeout, Expire, redisVars,
    callVars, watchVars
<1>w. ASSUME NEW a \in Assigns, NEW S \in SUBSET Tickets, Written(S, a), UNCHANGED sent
      PROVE  OrderInv'
  <2>1. \A t \in Tickets : history[t] \in Seq(Assigns)
    BY <1>t, Zenon DEF StoreTypes
  <2>2. LastInv'
    <3> SUFFICES ASSUME NEW t \in Tickets, tickets'[t] \in Assigns
                 PROVE  history'[t] # <<>> /\ history'[t][Len(history'[t])] = tickets'[t]
      BY Zenon DEF LastInv
    <3>1. CASE t \in S
      <4>1. tickets'[t] = a /\ history'[t] = Append(history[t], a)
        BY <1>w, <3>1, Zenon DEF Written
      <4> QED BY <2>1, <4>1, Appended
    <3>2. CASE t \notin S
      <4>1. tickets'[t] = tickets[t] /\ history'[t] = history[t]
        BY <1>w, <3>2, Zenon DEF Written
      <4> QED BY <4>1, Zenon DEF OrderInv, LastInv
    <3> QED BY <3>1, <3>2, Zenon
  <2>3. WatchedInOrder'
    <3> SUFFICES ASSUME NEW t \in Watched PROVE Embeds(sent'[t], history'[t])
      BY Zenon DEF WatchedInOrder, Embeds
    <3>1. /\ t \in Tickets /\ sent[t] \in Seq(Assigns) /\ sent'[t] = sent[t]
          /\ Embeds(sent[t], history[t])
      BY <1>w, <1>t, TicketConstants, Zenon DEF WatchTypes, OrderInv, WatchedInOrder, Embeds
    <3>2. history'[t] \in {history[t], Append(history[t], a)}
      BY <1>w, <3>1, Zenon DEF Written
    <3> QED BY <2>1, <3>1, <3>2, EmbedsLater, Zenon
  <2> QED BY <2>2, <2>3, Zenon DEF OrderInv
<1>2. ASSUME NEW a \in Assigns, UpdateAssignmentsExec(a) PROVE OrderInv'
  <2>1. SetXX(a) \in SUBSET Tickets
    BY Zenon DEF SetXX, TInv, TypeOK, AssignTypes
  <2> QED
    BY <1>2, <2>1, <1>k, <1>w, Zenon DEF UpdateAssignmentsExec, watchVars
<1>3. ASSUME NEW a \in Assigns, Assign(a) \/ CrashAssign(a) PROVE OrderInv'
  BY <1>3, <1>2, <1>k, Zenon DEF Assign, UpdateAssignmentsRead, DeindexAssigned,
    UnpendAssigned, CrashAssign, redisVars, watchVars
<1>4. ASSUME NEW S \in SUBSET Known \ {{}},
             AddTicketsToPendingRelease(S) \/ DeleteTicketsFromPendingRelease(S)
      PROVE  OrderInv'
  BY <1>4, <1>k, Zenon DEF AddTicketsToPendingRelease, DeleteTicketsFromPendingRelease,
    callVars, watchVars
<1>5. ASSUME ReleaseAllTickets PROVE OrderInv'
  BY <1>5, <1>k, Zenon DEF ReleaseAllTickets, callVars, watchVars
<1>6. ASSUME NEW q \in Queries, QueryRead(q) \/ QueryFetch(q) PROVE OrderInv'
  BY <1>6, <1>k, Zenon DEF QueryRead, QueryFetch, redisVars, watchVars
<1>7. ASSUME NEW t \in Watched, WatchPoll(t) PROVE OrderInv'
  <2>1. CASE UNCHANGED sent
    BY <1>7, <2>1, <1>k, Zenon DEF WatchPoll, redisVars
  <2>2. CASE /\ tickets[t] # None /\ IsUpdate(t)
             /\ sent' = [sent EXCEPT ![t] = Append(@, tickets[t])]
    <3>1. /\ t \in Tickets /\ tickets[t] \in Contents /\ sent[t] \in Seq(Assigns)
          /\ history[t] \in Seq(Assigns) /\ UNCHANGED <<tickets, history>>
      BY <1>7, <1>t, TicketConstants, Zenon DEF StoreTypes, WatchTypes, WatchPoll, redisVars
    <3>2. tickets[t] \in Assigns
      BY <2>2, <3>1, <1>t, Zenon DEF IsUpdate, currAssignment, WatchInv, Contents
    <3>3. history[t] # <<>> /\ history[t][Len(history[t])] = tickets[t]
      BY <3>1, <3>2, Zenon DEF OrderInv, LastInv
    <3>4. sent[t] = <<>> \/ sent[t][Len(sent[t])] # tickets[t]
      BY <2>2, Zenon DEF IsUpdate, currAssignment
    <3>5. Embeds(Append(sent[t], tickets[t]), history[t])
      <4>1. Embeds(sent[t], history[t])
        BY Zenon DEF OrderInv, WatchedInOrder, Embeds
      <4> QED BY <4>1, <3>1, <3>3, <3>4, EmbedsLast, Zenon
    <3>6. WatchedInOrder'
      <4> SUFFICES ASSUME NEW u \in Watched PROVE Embeds(sent'[u], history'[u])
        BY Zenon DEF WatchedInOrder, Embeds
      <4>1. Embeds(sent[u], history[u])
        BY Zenon DEF OrderInv, WatchedInOrder, Embeds
      <4>2. sent'[u] = IF u = t THEN Append(sent[t], tickets[t]) ELSE sent[u]
        BY <2>2, <1>t, Zenon DEF WatchTypes
      <4>3. history'[u] = history[u]
        BY <3>1, Zenon
      <4>4. CASE u = t
        BY <4>2, <4>3, <4>4, <3>5, Zenon
      <4>5. CASE u # t
        BY <4>1, <4>2, <4>3, <4>5, Zenon
      <4> QED BY <4>4, <4>5, Zenon
    <3>7. LastInv'
      BY <3>1, Zenon DEF OrderInv, LastInv
    <3> QED BY <3>6, <3>7, Zenon DEF OrderInv
  <2> QED BY <1>7, <2>1, <2>2, Zenon DEF WatchPoll
<1>8. ASSUME NEW t \in Watched, WatchStart(t) \/ WatchEnds(t) PROVE OrderInv'
  BY <1>8, <1>k, Zenon DEF WatchStart, WatchEnds, redisVars
<1>9. ASSUME UNCHANGED vars PROVE OrderInv'
  BY <1>9, <1>k, Zenon DEF vars, redisVars, callVars, watchVars
<1> QED
  BY <1>1, <1>3, <1>4, <1>5, <1>6, <1>7, <1>8, <1>9, Zenon DEF Next

\* A watcher is sent assignments the ticket has had, in the order it had them and each
\* one once, whatever fails and however often the ticket is assigned anew.
THEOREM WatchesInOrder == Spec => []WatchedInOrder
<1>1. Init => OrderInv
  <2> SUFFICES ASSUME Init PROVE OrderInv
    BY Zenon
  <2>1. LastInv
    BY TicketConstants, Zenon DEF Init, LastInv
  <2>2. ASSUME NEW t \in Watched PROVE Embeds(sent[t], history[t])
    <3>1. sent[t] = <<>> /\ history[t] = <<>>
      BY TicketConstants, Zenon DEF Init
    <3>2. Len(<<>>) = 0 /\ 1 .. 0 = {}
      OBVIOUS
    <3> DEFINE f == [i \in 1 .. 0 |-> 1]
    <3>3. f \in [1 .. 0 -> 1 .. 0] /\ DOMAIN f = {}
      BY <3>2, Zenon
    <3> HIDE DEF f
    <3> QED BY <3>1, <3>2, <3>3, Zenon DEF Embeds
  <2> QED BY <2>1, <2>2, Zenon DEF OrderInv, WatchedInOrder, Embeds
<1>2. TInv /\ OrderInv /\ [Next]_vars => OrderInv'
  BY OrderStep, Zenon
<1> QED BY <1>1, <1>2, TicketsInvariant, PTL DEF Spec, OrderInv
=============================================================================
