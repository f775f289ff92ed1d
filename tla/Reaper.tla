------------------------------- MODULE Reaper -------------------------------
(***************************************************************************)
(* The reaper of the continuous integration, as an HTTP server: every      *)
(* request for /reap lists the namespaces of the cluster and deletes the   *)
(* orphaned ones by name, one after the other; /close ends the process.    *)
(* Builds create namespaces and let them grow old meanwhile.               *)
(***************************************************************************)
EXTENDS Naturals

CONSTANTS
    Names,          \* names of namespaces, numbers in the order of the list
    OpenMatchNames, \* those with the prefix "open-match"
    Found,          \* those of namespaces that are old when the reaper starts
    Reaps,          \* requests for /reap
    MaxLives        \* how often each name is used

ASSUME ReaperAssumption ==
    /\ Names \subseteq Nat /\ OpenMatchNames \subseteq Names
    /\ MaxLives \in [Names -> Nat \ {0}] /\ Found \subseteq Names

VARIABLES
    namespaces,     \* how many namespaces have had each name, and which of them is there
    aged,           \* the namespaces that are older than params.Age
    reap,           \* where each request is
    items,          \* namespaces.Items that are still to come
    deleteErr,      \* err of ReapNamespaces
    orphans,        \* of the namespaces listed, those that were orphans then
    refused         \* those that the cluster did not let the request delete

reaperVars == <<namespaces, aged, reap, items, deleteErr, orphans, refused>>

Lives == UNION {[name : {n}, life : 1 .. MaxLives[n]] : n \in Names}

ReaperTypes ==
    /\ namespaces \in [Names -> [used : Nat, there : Nat]]
    /\ aged \subseteq Lives
    /\ reap \in [Reaps -> {"none", "list", "delete", "ok", "error", "cut"}]
    /\ items \in [Reaps -> SUBSET Lives] /\ deleteErr \in [Reaps -> {"nil", "error"}]
    /\ orphans \in [Reaps -> SUBSET Lives] /\ refused \in [Reaps -> SUBSET Lives]

ReaperInit ==
    /\ namespaces = [n \in Names |-> IF n \in Found THEN [used |-> 1, there |-> 1]
                                    ELSE [used |-> 0, there |-> 0]]
    /\ aged = [name : Found, life : {1}]
    /\ reap = [r \in Reaps |-> "none"] /\ deleteErr = [r \in Reaps |-> "nil"]
    /\ items = [r \in Reaps |-> {}] /\ orphans = [r \in Reaps |-> {}]
    /\ refused = [r \in Reaps |-> {}]

Present == {i \in Lives : namespaces[i.name].there = i.life}

-----------------------------------------------------------------------------
(* The cluster.                                                            *)

CreateNamespace(n) ==
    /\ namespaces[n].there = 0 /\ namespaces[n].used < MaxLives[n]
    /\ namespaces' = [namespaces EXCEPT ![n] = [used |-> @.used + 1, there |-> @.used + 1]]
    /\ UNCHANGED <<aged, reap, items, deleteErr, orphans, refused>>

Age(i) ==
    /\ i \notin aged /\ aged' = aged \cup {i}
    /\ UNCHANGED <<namespaces, reap, items, deleteErr, orphans, refused>>

\* Delete by name, whichever namespace has the name now.
Deleted(n) == namespaces' = [namespaces EXCEPT ![n].there = 0]

-----------------------------------------------------------------------------
(* ReapNamespaces.                                                         *)

Reap(r) ==
    /\ reap[r] = "none" /\ \A q \in Reaps : reap[q] # "cut"
    /\ reap' = [reap EXCEPT ![r] = "list"]
    /\ UNCHANGED <<namespaces, aged, items, deleteErr, orphans, refused>>

\* No configuration, no client or no list: nothing is deleted.
ListFails(r) ==
    /\ reap[r] = "list" /\ reap' = [reap EXCEPT ![r] = "error"]
    /\ UNCHANGED <<namespaces, aged, items, deleteErr, orphans, refused>>

List(r) ==
    /\ reap[r] = "list" /\ reap' = [reap EXCEPT ![r] = "delete"]
    /\ items' = [items EXCEPT ![r] = Present]
    /\ orphans' = [orphans EXCEPT ![r] = {i \in Present \cap aged : i.name \in OpenMatchNames}]
    /\ UNCHANGED <<namespaces, aged, deleteErr, refused>>

\* Mutant: the age does not count.
AnyAge(i) == i.name \in OpenMatchNames

\* The age counts when the item's turn comes, not when it was listed.
isOrphaned(i) == i \in aged /\ i.name \in OpenMatchNames

First(r, i) == i \in items[r] /\ \A j \in items[r] : i.name <= j.name

Skip(r, i) ==
    /\ reap[r] = "delete" /\ First(r, i) /\ ~isOrphaned(i)
    /\ items' = [items EXCEPT ![r] = @ \ {i}]
    /\ UNCHANGED <<namespaces, aged, reap, deleteErr, orphans, refused>>

\* There may be nothing of that name any more, or the cluster may refuse; the loop
\* goes on either way.
Delete(r, i) ==
    /\ reap[r] = "delete" /\ First(r, i) /\ isOrphaned(i)
    /\ \/ /\ namespaces[i.name].there # 0 /\ Deleted(i.name)
          /\ deleteErr' = [deleteErr EXCEPT ![r] = "nil"] /\ UNCHANGED refused
       \/ /\ deleteErr' = [deleteErr EXCEPT ![r] = "error"]
          /\ refused' = IF i \in Present THEN [refused EXCEPT ![r] = @ \cup {i}] ELSE refused
          /\ UNCHANGED namespaces
    /\ items' = [items EXCEPT ![r] = @ \ {i}]
    /\ UNCHANGED <<aged, reap, orphans>>

Answer(r) ==
    /\ reap[r] = "delete" /\ items[r] = {}
    /\ reap' = [reap EXCEPT ![r] = IF deleteErr[r] = "nil" THEN "ok" ELSE "error"]
    /\ UNCHANGED <<namespaces, aged, items, deleteErr, orphans, refused>>

\* /close: Serve returns, main ends the process, and with it every request; so
\* does a request that finds no current user.
Close ==
    /\ reap' = [r \in Reaps |-> IF reap[r] \in {"ok", "error"} THEN reap[r] ELSE "cut"]
    /\ UNCHANGED <<namespaces, aged, items, deleteErr, orphans, refused>>

ReaperNext ==
    \/ Close
    \/ \E n \in Names : CreateNamespace(n)
    \/ \E i \in Present : Age(i)
    \/ \E r \in Reaps : Reap(r) \/ ListFails(r) \/ List(r) \/ Answer(r)
    \/ \E r \in Reaps : \E i \in items[r] : Skip(r, i) \/ Delete(r, i)

ReaperSpec == ReaperInit /\ [][ReaperNext]_reaperVars

-----------------------------------------------------------------------------
(* Properties.                                                             *)

\* When a request is answered after its list, no orphan of that list is left
\* except those the cluster refused to delete: one failed Delete does not keep
\* the loop of ReapNamespaces from the others, nor does another request that
\* deletes the same namespaces.
OrphansAreGone ==
    \A r \in Reaps : reap[r] \in {"ok", "error"} =>
        \A i \in orphans[r] : i \in Present => i \in refused[r]

\* A namespace that is not an orphan is deleted only in the place of one: by a
\* request whose list has an older namespace of the same name.  ReapNamespaces
\* deletes what isOrphaned says of the list it made before.
SparesOthers ==
    [][\A i \in Present : ~(i \in Present') =>
         /\ i.name \in OpenMatchNames
         /\ i \in aged \/ \E r \in Reaps : \E j \in items[r] :
                             j \in aged /\ j.name = i.name /\ j.life < i.life]_reaperVars

\* A request deletes the orphans, and nothing but them.
ReapsOrphans == []OrphansAreGone /\ SparesOthers
=============================================================================
