------------------------------ MODULE Tickets ------------------------------
(***************************************************************************)
(* The life of a ticket: the Redis keys of statestore/ticket.go and the    *)
(* calls that share them.  The frontend creates, deletes and watches       *)
(* tickets, backends assign and release them, the synchronizer makes them  *)
(* pending, and query servers refresh their ticket caches.  A call is a    *)
(* sequence of Redis commands; one action is one command, with the local   *)
(* work that follows it.                                                   *)
(***************************************************************************)
EXTENDS Naturals, Sequences, FiniteSets

CONSTANTS
    Tickets,    \* the tickets clients create
    Assigns,    \* calls that assign tickets, each with an assignment of its own
    Acks,       \* those of Assigns that are AcknowledgeBackfill calls
    Queries,    \* query servers
    Watched,    \* the tickets a client watches
    Faults,     \* what may fail: "store" a command, "crash" a process
    None        \* no value

ASSUME TicketConstants ==
    /\ Acks \subseteq Assigns /\ Watched \subseteq Tickets
    /\ Faults \subseteq {"store", "crash"}
    /\ None \notin Assigns /\ "new" \notin Assigns /\ None # "new"

VARIABLES
    tickets,            \* key -> None, "new" (no assignment) or the assignment
    volatile,           \* the keys with a time to live (SET ... PX)
    allTickets,         \* the set of indexed tickets
    proposedTicketIDs,  \* the pending release entries younger than the timeout
    create,             \* ticket -> progress of doCreateTicket
    delete,             \* ticket -> progress of doDeleteTicket
    assign,             \* call -> progress of doAssignTickets
    ids,                \* call -> the ticket ids of its request
    found,              \* call -> what its MGET found, then what its EXEC set
    deindex,            \* call -> ids still to be deindexed
    query,              \* server -> commands of the update done, or 0 if idle
    read,               \* server -> what each command of the update returned
    value,              \* server -> its cache: ticket -> None or its contents
    watch,              \* ticket -> progress of doWatchAssignments
    sent,               \* ticket -> assignments sent to the watcher, in order
    history,            \* ticket -> assignments the key has held, in order
    out                 \* server -> tickets out of the pool since its update began

redisVars == <<tickets, volatile, allTickets, proposedTicketIDs, history>>
assignVars == <<assign, ids, found, deindex>>
queryVars == <<query, read, value>>
watchVars == <<watch, sent>>
callVars == <<create, delete, assignVars, queryVars, watchVars>>
vars == <<redisVars, callVars, out>>

\* The pool of a query: indexed tickets without a fresh pending release entry.
Pool == allTickets \ proposedTicketIDs

Init ==
    /\ tickets = [t \in Tickets |-> None] /\ volatile = {}
    /\ allTickets = {} /\ proposedTicketIDs = {}
    /\ create = [t \in Tickets |-> "idle"] /\ delete = [t \in Tickets |-> "idle"]
    /\ assign = [a \in Assigns |-> "idle"] /\ ids = [a \in Assigns |-> {}]
    /\ found = [a \in Assigns |-> {}] /\ deindex = [a \in Assigns |-> {}]
    /\ query = [q \in Queries |-> 0]
    /\ read = [q \in Queries |-> [index |-> {}, pending |-> {}]]
    /\ value = [q \in Queries |-> [t \in Tickets |-> None]]
    /\ watch = [t \in Watched |-> "idle"] /\ sent = [t \in Watched |-> <<>>]
    /\ history = [t \in Tickets |-> <<>>]
    /\ out = [q \in Queries |-> {}]

Fails == "store" \in Faults
Crashes == "crash" \in Faults

\* What a query server's updates have to leave out: the tickets that have been
\* out of the pool from the first command of its running update on.
Track == out' = [q \in Queries |->
                   CASE query'[q] = 0 -> {}
                     [] query[q] = 0 /\ query'[q] # 0 -> Tickets \ Pool'
                     [] OTHER -> out[q] \ Pool']
-----------------------------------------------------------------------------
(* doCreateTicket *)

CreateTicket(t) ==
    /\ create[t] = "idle"
    /\ \/ /\ tickets' = [tickets EXCEPT ![t] = "new"]
          /\ create' = [create EXCEPT ![t] = "stored"]
       \/ /\ Fails
          /\ create' = [create EXCEPT ![t] = "failed"] /\ UNCHANGED tickets
    /\ UNCHANGED <<volatile, allTickets, proposedTicketIDs, history, delete,
                   assignVars, queryVars, watchVars>>
    /\ Track

\* IndexTicket sends SADD without reading the reply, so that a lost command
\* goes unnoticed; without a connection the call fails.
IndexTicket(t) ==
    /\ create[t] = "stored"
    /\ \/ /\ allTickets' = allTickets \cup {t}
          /\ create' = [create EXCEPT ![t] = "done"]
       \/ /\ Fails
          /\ create' \in {[create EXCEPT ![t] = r] : r \in {"done", "failed"}}
          /\ UNCHANGED allTickets
       \/ /\ Crashes
          /\ create' = [create EXCEPT ![t] = "failed"] /\ UNCHANGED allTickets
    /\ UNCHANGED <<tickets, volatile, proposedTicketIDs, history, delete,
                   assignVars, queryVars, watchVars>>
    /\ Track

\* The ids that clients and directors know.
Known == {t \in Tickets : create[t] = "done"}
-----------------------------------------------------------------------------
(* doDeleteTicket, and its goroutine; a client may call it again *)

DeleteDeindex(t) ==
    /\ t \in Known /\ delete[t] \in {"idle", "done"}
    /\ \/ /\ allTickets' = allTickets \ {t}
          /\ delete' = [delete EXCEPT ![t] = "deindexed"]
       \/ /\ Fails
          /\ delete' \in {[delete EXCEPT ![t] = r] : r \in {"deindexed", "done"}}
          /\ UNCHANGED allTickets
    /\ UNCHANGED <<tickets, volatile, proposedTicketIDs, history, create,
                   assignVars, queryVars, watchVars>>
    /\ Track

\* DEL; its error is only logged.
DeleteTicket(t) ==
    /\ delete[t] = "deindexed"
    /\ \/ /\ tickets' = [tickets EXCEPT ![t] = None]
          /\ volatile' = volatile \ {t}
       \/ Fails /\ UNCHANGED <<tickets, volatile>>
    /\ delete' = [delete EXCEPT ![t] = "deleted"]
    /\ UNCHANGED <<allTickets, proposedTicketIDs, history, create, assignVars,
                   queryVars, watchVars>>
    /\ Track

DeleteFromPending(t) ==
    /\ delete[t] = "deleted"
    /\ \/ proposedTicketIDs' = proposedTicketIDs \ {t}
       \/ Fails /\ UNCHANGED proposedTicketIDs
    /\ delete' = [delete EXCEPT ![t] = "done"]
    /\ UNCHANGED <<tickets, volatile, allTickets, history, create, assignVars,
                   queryVars, watchVars>>
    /\ Track

CrashDelete(t) ==
    /\ Crashes /\ delete[t] \in {"deindexed", "deleted"}
    /\ delete' = [delete EXCEPT ![t] = "done"]
    /\ UNCHANGED <<redisVars, create, assignVars, queryVars, watchVars>>
    /\ Track
-----------------------------------------------------------------------------
(* doAssignTickets, and the same steps of AcknowledgeBackfill *)

UpdateAssignmentsRead(a, S) ==
    /\ assign[a] = "idle"
    /\ \/ /\ assign' = [assign EXCEPT ![a] = "read"]
          /\ ids' = [ids EXCEPT ![a] = S]
          /\ found' = [found EXCEPT ![a] = {t \in S : tickets[t] # None}]
       \/ /\ Fails
          /\ assign' = [assign EXCEPT ![a] = "failed"] /\ UNCHANGED <<ids, found>>
    /\ UNCHANGED <<redisVars, create, delete, deindex, queryVars, watchVars>>
    /\ Track

\* SET ... XX only changes keys that exist.
SetAlways(a) == found[a]
SetXX(a) == {t \in found[a] : tickets[t] # None}

\* SET ... PX sets the time to live with the value.
WithTTL(S) == volatile \cup S

Written(S, a) ==
    /\ tickets' = [t \in Tickets |-> IF t \in S THEN a ELSE tickets[t]]
    /\ history' = [t \in Tickets |-> IF t \in S THEN Append(history[t], a)
                                     ELSE history[t]]
    /\ volatile' = WithTTL(S)

\* The cleanup after the assignment; AcknowledgeBackfill leaves the pending release
\* entries to time out.
UnpendFirst(a) == IF a \in Acks THEN <<"deindex">> ELSE <<"unpend", "deindex">>
Cleanup(a) == IF a \in Acks THEN <<"deindex">> ELSE <<"deindex", "unpend">>

AfterCleanup(a) == IF assign[a] = Cleanup(a)[Len(Cleanup(a))] THEN "done"
                   ELSE Cleanup(a)[2]

\* EXEC of the SETs.  Its reply may be lost after it has been executed.
UpdateAssignmentsExec(a) ==
    /\ assign[a] = "read"
    /\ \/ /\ Written(SetXX(a), a)
          /\ found' = [found EXCEPT ![a] = SetXX(a)]
          /\ deindex' = [deindex EXCEPT ![a] = ids[a]]
          /\ assign' = [assign EXCEPT ![a] = Cleanup(a)[1]]
       \/ /\ Fails
          /\ Written(SetXX(a), a) \/ UNCHANGED <<tickets, history, volatile>>
          /\ assign' = [assign EXCEPT ![a] = "failed"]
          /\ UNCHANGED <<found, deindex>>
    /\ UNCHANGED <<allTickets, proposedTicketIDs, create, delete, ids, queryVars,
                   watchVars>>
    /\ Track

DeindexAssigned(a, t) ==
    /\ assign[a] = "deindex" /\ t \in deindex[a]
    /\ \/ allTickets' = allTickets \ {t}
       \/ Fails /\ UNCHANGED allTickets
    /\ deindex' = [deindex EXCEPT ![a] = @ \ {t}]
    /\ assign' = [assign EXCEPT ![a] = IF deindex'[a] = {} THEN AfterCleanup(a)
                                       ELSE @]
    /\ UNCHANGED <<tickets, volatile, proposedTicketIDs, history, create, delete,
                   ids, found, queryVars, watchVars>>
    /\ Track

UnpendAssigned(a) ==
    /\ assign[a] = "unpend"
    /\ \/ proposedTicketIDs' = proposedTicketIDs \ ids[a]
       \/ Fails /\ UNCHANGED proposedTicketIDs
    /\ assign' = [assign EXCEPT ![a] = AfterCleanup(a)]
    /\ UNCHANGED <<tickets, volatile, allTickets, history, create, delete, ids,
                   found, deindex, queryVars, watchVars>>
    /\ Track

CrashAssign(a) ==
    /\ Crashes /\ assign[a] \in {"read", "deindex", "unpend"}
    /\ assign' = [assign EXCEPT ![a] = "failed"]
    /\ UNCHANGED <<redisVars, create, delete, ids, found, deindex, queryVars,
                   watchVars>>
    /\ Track
-----------------------------------------------------------------------------
(* Pending release entries, and the time to live of assigned tickets *)

\* AddTicketsToPendingRelease for the tickets of accepted matches.  A match may
\* hold any ticket that has been indexed, even if it is deleted by now.
AddTicketsToPendingRelease(S) ==
    /\ proposedTicketIDs' = proposedTicketIDs \cup S
    /\ UNCHANGED <<tickets, volatile, allTickets, history, callVars>>
    /\ Track

\* ReleaseTickets, and the releases of UpdateBackfill and
\* DeleteBackfillCompletely.
DeleteTicketsFromPendingRelease(S) ==
    /\ proposedTicketIDs' = proposedTicketIDs \ S
    /\ UNCHANGED <<tickets, volatile, allTickets, history, callVars>>
    /\ Track

ReleaseAllTickets ==
    /\ proposedTicketIDs' = {}
    /\ UNCHANGED <<tickets, volatile, allTickets, history, callVars>>
    /\ Track

\* pendingReleaseTimeout has passed since t was added.
PendingTimeout(t) ==
    /\ t \in proposedTicketIDs
    /\ proposedTicketIDs' = proposedTicketIDs \ {t}
    /\ UNCHANGED <<tickets, volatile, allTickets, history, callVars>>
    /\ Track

\* assignedDeleteTimeout has passed since t was assigned.
Expire(t) ==
    /\ t \in volatile
    /\ tickets' = [tickets EXCEPT ![t] = None] /\ volatile' = volatile \ {t}
    /\ UNCHANGED <<allTickets, proposedTicketIDs, history, callVars>>
    /\ Track
-----------------------------------------------------------------------------
(* updateTicketCache: GetIndexedIDSet, then GetTickets for the new ids *)

\* The order of GetIndexedIDSet's commands.
IndexFirst == <<"index", "pending">>
ReadOrder == <<"pending", "index">>

Current(r) == r.index \ r.pending

\* The loop that deletes cached tickets that are not indexed any more.
NotPruned(v, current) == v
Pruned(v, current) == [t \in Tickets |-> IF t \in current THEN v[t] ELSE None]

QueryRead(q) ==
    /\ query[q] < 2
    /\ \/ /\ query' = [query EXCEPT ![q] = @ + 1]
          /\ read' = [read EXCEPT ![q] =
                        IF ReadOrder[query'[q]] = "pending"
                        THEN [@ EXCEPT !.pending = proposedTicketIDs]
                        ELSE [@ EXCEPT !.index = allTickets]]
          /\ value' = [value EXCEPT ![q] = IF query'[q] = 2
                                           THEN Pruned(@, Current(read'[q]))
                                           ELSE @]
       \/ /\ Fails /\ query' = [query EXCEPT ![q] = 0]
          /\ UNCHANGED <<read, value>>
    /\ UNCHANGED <<redisVars, create, delete, assignVars, watchVars>>
    /\ Track

\* GetTickets leaves out the tickets that are gone.
QueryFetch(q) ==
    /\ query[q] = 2
    /\ query' = [query EXCEPT ![q] = 0]
    /\ \/ value' = [value EXCEPT ![q] =
                      [t \in Tickets |-> IF t \in Current(read[q]) /\ @[t] = None
                                         THEN tickets[t] ELSE @[t]]]
       \/ Fails /\ UNCHANGED value
    /\ UNCHANGED <<redisVars, create, delete, assignVars, read, watchVars>>
    /\ Track
-----------------------------------------------------------------------------
(* doWatchAssignments on GetAssignments *)

WatchStart(t) ==
    /\ watch[t] = "idle" /\ t \in Known
    /\ watch' = [watch EXCEPT ![t] = "poll"]
    /\ UNCHANGED <<redisVars, create, delete, assignVars, queryVars, sent>>
    /\ Track

currAssignment(t) == IF sent[t] = <<>> THEN "new" ELSE sent[t][Len(sent[t])]

\* The callback's test.
FirstOnly(t) == currAssignment(t) = "new" /\ tickets[t] # "new"
AnyAssignment(t) == tickets[t] # "new" /\ Len(sent[t]) < 2 * Cardinality(Assigns)
IsUpdate(t) == tickets[t] # currAssignment(t)

WatchPoll(t) ==
    /\ watch[t] = "poll"
    /\ \/ /\ tickets[t] = None
          /\ watch' = [watch EXCEPT ![t] = "done"] /\ UNCHANGED sent
       \/ /\ tickets[t] # None /\ IsUpdate(t)
          /\ sent' = [sent EXCEPT ![t] = Append(@, tickets[t])] /\ UNCHANGED watch
    /\ UNCHANGED <<redisVars, create, delete, assignVars, queryVars>>
    /\ Track

\* The watcher cancels its call, or sending to it fails.
WatchEnds(t) ==
    /\ watch[t] = "poll"
    /\ watch' = [watch EXCEPT ![t] = "done"]
    /\ UNCHANGED <<redisVars, create, delete, assignVars, queryVars, sent>>
    /\ Track
-----------------------------------------------------------------------------
Create(t) == CreateTicket(t) \/ IndexTicket(t)

Delete(t) == DeleteDeindex(t) \/ DeleteTicket(t) \/ DeleteFromPending(t)

Assign(a) ==
    \/ \E S \in SUBSET Known \ {{}} : UpdateAssignmentsRead(a, S)
    \/ UpdateAssignmentsExec(a)
    \/ \E t \in deindex[a] : DeindexAssigned(a, t)
    \/ UnpendAssigned(a)

Next ==
    \/ \E t \in Tickets : \/ Create(t) \/ Delete(t) \/ CrashDelete(t)
                          \/ PendingTimeout(t) \/ Expire(t)
    \/ \E a \in Assigns : Assign(a) \/ CrashAssign(a)
    \/ \E S \in SUBSET Known \ {{}} :
          \/ AddTicketsToPendingRelease(S)
          \/ DeleteTicketsFromPendingRelease(S)
    \/ ReleaseAllTickets
    \/ \E q \in Queries : QueryRead(q) \/ QueryFetch(q)
    \/ \E t \in Watched : WatchStart(t) \/ WatchPoll(t) \/ WatchEnds(t)

Spec == Init /\ [][Next]_vars

\* The deleting goroutine runs on, and a watcher's call polls at a constant
\* interval without giving up.
Fairness ==
    /\ \A t \in Tickets : WF_vars(DeleteTicket(t)) /\ WF_vars(DeleteFromPending(t))
    /\ \A t \in Watched : WF_vars(WatchPoll(t))

FairSpec == Spec /\ Fairness
-----------------------------------------------------------------------------
Contents == {None, "new"} \cup Assigns

StoreTypes ==
    /\ tickets \in [Tickets -> Contents]
    /\ volatile = {t \in Tickets : tickets[t] \in Assigns}
    /\ allTickets \subseteq Tickets
    /\ proposedTicketIDs \subseteq Tickets
    /\ history \in [Tickets -> Seq(Assigns)]

CallTypes ==
    /\ create \in [Tickets -> {"idle", "stored", "done", "failed"}]
    /\ delete \in [Tickets -> {"idle", "deindexed", "deleted", "done"}]

AssignTypes ==
    /\ assign \in [Assigns -> {"idle", "read", "deindex", "unpend", "done", "failed"}]
    /\ ids \in [Assigns -> SUBSET Tickets] /\ found \in [Assigns -> SUBSET Tickets]
    /\ deindex \in [Assigns -> SUBSET Tickets]

QueryTypes ==
    /\ query \in [Queries -> 0 .. 2] /\ out \in [Queries -> SUBSET Tickets]
    /\ read \in [Queries -> [index : SUBSET Tickets, pending : SUBSET Tickets]]
    /\ value \in [Queries -> [Tickets -> Contents]]

WatchTypes ==
    watch \in [Watched -> {"idle", "poll", "done"}] /\ sent \in [Watched -> Seq(Assigns)]

\* The types of the variables, and that exactly the assigned tickets have a time to
\* live, so that every one of them is removed in the end.
TypeOK == StoreTypes /\ CallTypes /\ AssignTypes /\ QueryTypes /\ WatchTypes

\* A ticket that was deleted or has expired never comes back: an AssignTickets
\* call that read it before writes it with SET ... XX.
NeverResurrected ==
    [][\A t \in Tickets : create[t] # "idle" /\ tickets[t] = None =>
                          tickets'[t] = None]_vars

\* A ticket that AssignTickets reports as not found is gone for good, whatever
\* other calls were doing meanwhile.
FailureIsFinal ==
    \A a \in Assigns : assign[a] \in {"deindex", "unpend", "done"} =>
        \A t \in ids[a] \ found[a] : tickets[t] = None

\* A ticket that is gone stays gone, and AssignTickets only reports those as not found.
GoneStaysGone == []FailureIsFinal /\ NeverResurrected

\* After an update, a query server's cache holds no ticket that was pending or not
\* indexed all through the update: GetIndexedIDSet reads the pending release set
\* before the index, and calls that finish with a ticket deindex it before they
\* drop its pending release entry.
ServedWasInPool ==
    [][\A q \in Queries : query[q] = 2 /\ query'[q] = 0 =>
          \A t \in Tickets : value'[q][t] # None => t \notin out[q]]_vars

\* Neither assigning nor deleting tickets brings one back into the pool, not even
\* between two of the commands they send.
NeverExposed ==
    [][assign' # assign \/ delete' # delete => Pool' \subseteq Pool]_vars

\* The index has no entry without a ticket, except those that a running
\* assignment is about to remove.
IndexedIsStored ==
    \A t \in allTickets : tickets[t] = None =>
        \E a \in Assigns : assign[a] = "deindex" /\ t \in deindex[a]

\* A watcher is sent assignments the ticket has had, in the order it had them and
\* each one once.
WatchedInOrder ==
    \A t \in Watched : \E f \in [1 .. Len(sent[t]) -> 1 .. Len(history[t])] :
        /\ \A i \in DOMAIN f : history[t][f[i]] = sent[t][i]
        /\ \A i, j \in DOMAIN f : i < j => f[i] < f[j]

\* A watcher gets an assignment that stays, also one that replaces another, and its
\* watch ends when the ticket is deleted, even if an AssignTickets call is under way.
WatchSeesAssignment ==
    \A t \in Watched :
        /\ \A a \in Assigns :
             (watch[t] = "poll" /\ tickets[t] = a) ~>
             (watch[t] = "done" \/ tickets[t] # a \/ currAssignment(t) = a)
        /\ (watch[t] = "poll" /\ delete[t] = "deindexed") ~> watch[t] = "done"
=============================================================================
