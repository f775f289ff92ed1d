------------------------------ MODULE Tutorials ------------------------------
(***************************************************************************)
(* The tutorials' matchmaker: a frontend that creates tickets and deletes  *)
(* each once it is assigned, a director with one goroutine per profile, a  *)
(* match function that takes tickets of a pool in equal parts, and an      *)
(* evaluator that prefers the match whose oldest ticket has waited longest.*)
(* A profile has one pool, of the tickets with its tag.  A proposal is its *)
(* tickets and its profile: match ids, which are made from the time and a  *)
(* count, are taken to be distinct.                                        *)
(***************************************************************************)
EXTENDS Naturals, FiniteSets, SequencesExt

CONSTANTS
    Entrants,       \* the tickets the frontend may create
    GameModes,      \* the profiles
    Draws,          \* what makeTicket may draw: for each ticket the profiles
                    \* whose tags it has and its "time.enterqueue"
    PerMatch,       \* ticketsPerPoolPerMatch
    MaxFetches      \* bound: iterations of the director

ASSUME TutorialAssumption ==
    /\ \A d \in Draws : /\ d.tags \in [Entrants -> SUBSET GameModes]
                        /\ d.entered \in [Entrants -> Nat]
    /\ PerMatch \in Nat \ {0} /\ MaxFetches \in Nat

VARIABLES
    makeTicket,     \* the member of Draws, never changed
    entrant,        \* Open Match: the state of each ticket
    poller,         \* the goroutine deleteOnAssign of each ticket
    frontend,       \* "up", or "down" after log.Fatalf
    fetches,        \* iterations the director has begun
    director,       \* where the goroutine of each profile is
    fetched,        \* the matches it has fetched and not assigned
    failures        \* whether a call has failed

tutorialVars == <<makeTicket, entrant, poller, frontend, fetches, director, fetched, failures>>

TutorialTypes ==
    /\ entrant \in [Entrants -> {"no", "open", "pending", "assigned", "deleted"}]
    /\ poller \in [Entrants -> {"no", "get", "delete", "done"}]
    /\ frontend \in {"up", "down"} /\ failures \in {"none", "some"}
    /\ director \in [GameModes -> {"idle", "fetch", "assign"}]
    /\ \A p \in GameModes : ToSet(fetched[p]) \subseteq SUBSET Entrants

TutorialInit ==
    /\ makeTicket \in Draws
    /\ entrant = [t \in Entrants |-> "no"] /\ poller = [t \in Entrants |-> "no"]
    /\ frontend = "up" /\ fetches = 0 /\ failures = "none"
    /\ director = [p \in GameModes |-> "idle"] /\ fetched = [p \in GameModes |-> <<>>]

-----------------------------------------------------------------------------
(* The match function and the evaluator.                                   *)

Earliest(tickets) ==
    CHOOSE e \in {makeTicket.entered[t] : t \in tickets} :
        \A t \in tickets : e <= makeTicket.entered[t]

Latest(tickets) ==
    CHOOSE e \in {makeTicket.entered[t] : t \in tickets} :
        \A t \in tickets : e >= makeTicket.entered[t]

\* makeMatches: the tickets of the pool, in the order in which the query
\* returned them, PerMatch at a time until there are too few.
makeMatches(p, tickets) ==
    {[profile |-> p, tickets |-> {tickets[j] : j \in (i - 1) * PerMatch + 1 .. i * PerMatch}] :
        i \in 1 .. Len(tickets) \div PerMatch}

\* Mutant: the match whose youngest ticket has waited longest comes first.
byMinWait(m, n) == Latest(m.tickets) <= Latest(n.tickets)

\* The match whose earliest ticket has waited longest comes first.
byMaxWait(m, n) == Earliest(m.tickets) <= Earliest(n.tickets)

\* sort.Sort is not stable: equal matches come in any order.
Sorted(proposals) ==
    {s \in SetToSeqs(proposals) : \A i, j \in DOMAIN s : i < j => byMaxWait(s[i], s[j])}

Used(used, m) == used \cup m.tickets

maybeAdd(d, m) ==
    IF d.used \cap m.tickets # {} THEN d
    ELSE [used |-> Used(d.used, m), result |-> d.result \cup {m}]

evaluate(s) == FoldLeft(maybeAdd, [used |-> {}, result |-> {}], s).result

-----------------------------------------------------------------------------
(* The frontend.                                                           *)

\* A call that fails may have created the ticket, which nobody then deletes.
MainCreates(t) ==
    /\ frontend = "up" /\ entrant[t] = "no" /\ poller[t] = "no"
    /\ \/ /\ entrant' = [entrant EXCEPT ![t] = "open"]
          /\ poller' = [poller EXCEPT ![t] = "get"] /\ UNCHANGED failures
       \/ /\ failures' = "some" /\ poller' = [poller EXCEPT ![t] = "done"]
          /\ entrant' \in {entrant, [entrant EXCEPT ![t] = "open"]}
    /\ UNCHANGED <<makeTicket, frontend, fetches, director, fetched>>

\* A failure of any goroutine ends the program.
Fatal ==
    /\ frontend' = "down" /\ failures' = "some" /\ UNCHANGED poller

HasAssignment(t) == entrant[t] = "assigned"

GetTicket(t) ==
    /\ frontend = "up" /\ poller[t] = "get"
    /\ \/ /\ HasAssignment(t) /\ poller' = [poller EXCEPT ![t] = "delete"]
          /\ UNCHANGED <<frontend, failures>>
       \/ Fatal
    /\ UNCHANGED <<makeTicket, entrant, fetches, director, fetched>>

DeletesTicket(t) ==
    /\ frontend = "up" /\ poller[t] = "delete"
    /\ \/ /\ poller' = [poller EXCEPT ![t] = "done"] /\ UNCHANGED <<frontend, failures>>
          /\ entrant' = [entrant EXCEPT ![t] = "deleted"]
       \/ Fatal /\ entrant' \in {entrant, [entrant EXCEPT ![t] = "deleted"]}
    /\ UNCHANGED <<makeTicket, fetches, director, fetched>>

-----------------------------------------------------------------------------
(* The director.                                                           *)

DirectorTick ==
    /\ fetches < MaxFetches /\ \A p \in GameModes : director[p] = "idle"
    /\ fetches' = fetches + 1 /\ director' = [p \in GameModes |-> "fetch"]
    /\ UNCHANGED <<makeTicket, entrant, poller, frontend, fetched, failures>>

\* The calls of an iteration are answered from one cycle of Open Match: the
\* proposals of all profiles are evaluated together.
Pool(p) == {t \in Entrants : entrant[t] = "open" /\ p \in makeTicket.tags[t]}

Results(proposals) == {evaluate(s) : s \in Sorted(proposals)}

ProposalsOf(orders) == UNION {makeMatches(p, orders[p]) : p \in GameModes}

\* The tickets of a query come in any order.
Orders ==
    {f \in [GameModes -> UNION {SetToSeqs(Pool(p)) : p \in GameModes}] :
        \A p \in GameModes : f[p] \in SetToSeqs(Pool(p))}

ResultOf(p, result) ==
    {m.tickets : m \in {n \in result : n.profile = p}}

\* A stream that fails drops the matches it has delivered.
fetch ==
    /\ \A p \in GameModes : director[p] = "fetch"
    /\ \E orders \in Orders : \E result \in Results(ProposalsOf(orders)) :
       \E failed \in SUBSET GameModes :
        /\ entrant' = [t \in Entrants |->
                        IF \E m \in result : t \in m.tickets THEN "pending" ELSE entrant[t]]
        /\ director' = [p \in GameModes |-> IF p \in failed THEN "idle" ELSE "assign"]
        /\ fetched' = [p \in GameModes |-> IF p \in failed THEN <<>>
                                           ELSE SetToSeq(ResultOf(p, result))]
        /\ failures' = IF failed = {} THEN failures ELSE "some"
    /\ UNCHANGED <<makeTicket, poller, frontend, fetches>>

Assign(tickets) ==
    [t \in Entrants |-> IF t \in tickets /\ entrant[t] # "deleted" THEN "assigned" ELSE entrant[t]]

RestOf(p) == Tail(fetched[p])

assign(p) ==
    /\ director[p] = "assign" /\ fetched[p] # <<>>
    /\ \/ /\ entrant' = Assign(Head(fetched[p]))
          /\ fetched' = [fetched EXCEPT ![p] = RestOf(p)] /\ UNCHANGED <<director, failures>>
       \/ /\ entrant' \in {entrant, Assign(Head(fetched[p]))} /\ failures' = "some"
          /\ fetched' = [fetched EXCEPT ![p] = <<>>]
          /\ director' = [director EXCEPT ![p] = "idle"]
    /\ UNCHANGED <<makeTicket, poller, frontend, fetches>>

assigned(p) ==
    /\ director[p] = "assign" /\ fetched[p] = <<>>
    /\ director' = [director EXCEPT ![p] = "idle"]
    /\ UNCHANGED <<makeTicket, entrant, poller, frontend, fetches, fetched, failures>>

TutorialNext ==
    \/ \E t \in Entrants : MainCreates(t) \/ GetTicket(t) \/ DeletesTicket(t)
    \/ DirectorTick \/ fetch \/ \E p \in GameModes : assign(p) \/ assigned(p)

-----------------------------------------------------------------------------
(* Properties.                                                             *)

\* No two of the matches the goroutines of the director assign side by side
\* have a ticket in common, although the pools of the profiles overlap.
FetchedDisjoint ==
    \A p, q \in GameModes : \A i \in DOMAIN fetched[p], j \in DOMAIN fetched[q] :
        <<p, i>> # <<q, j>> => fetched[p][i] \cap fetched[q][j] = {}

\* Of all tickets for which there is a proposal, the one that has waited
\* longest is matched: no choice of matches passes it over for younger ones.
LongestWaitServed ==
    [][\A t \in Entrants :
         /\ director # director' /\ \A p \in GameModes : director[p] = "fetch"
         /\ entrant[t] = "open"
         /\ \E p \in GameModes : Cardinality(Pool(p)) >= PerMatch /\ t \in Pool(p)
                                  /\ Cardinality(Pool(p)) % PerMatch = 0
         /\ \A u \in Entrants \ {t} : entrant[u] = "open" => makeTicket.entered[t] < makeTicket.entered[u]
         => entrant'[t] = "pending"]_tutorialVars

\* When the director is between two iterations, a ticket is left pending only
\* if a call has failed.
NothingLeftPending ==
    /\ failures = "none" /\ \A p \in GameModes : director[p] = "idle"
    => \A t \in Entrants : entrant[t] # "pending"

\* Every ticket that is assigned is deleted in the end, unless a failed call
\* left it without its goroutine or ended the frontend.
AssignedIsDeleted ==
    <>[](failures = "none" => \A t \in Entrants : entrant[t] # "assigned")

\* Director, evaluator and frontend serve the tickets: the one that has waited
\* longest first, and the assigned ones to their end.
EntrantsServed == LongestWaitServed /\ AssignedIsDeleted
=============================================================================
