---------------------------- MODULE QueryCache ----------------------------
(***************************************************************************)
(* The caches of the query service (query/cache.go): concurrent requests   *)
(* share one update of the cache, made by whoever takes the token out of   *)
(* startRunRequest, and read the cache under a WaitGroup that keeps the    *)
(* next update away.                                                       *)
(*                                                                         *)
(* The store is the number of changes made to it.  An update reads it      *)
(* piece by piece, so the cache gets some state between the ones at the    *)
(* beginning and at the end of the update.                                 *)
(***************************************************************************)
EXTENDS Naturals, Sequences, FiniteSets

CONSTANTS
    Requests,    \* calls of request
    MaxVersion,  \* bound on the changes of the store
    None, Error  \* no value, and the answer of a request that failed

ASSUME CacheConstants ==
    /\ IsFiniteSet(Requests) /\ MaxVersion \in Nat
    /\ None \notin Nat /\ Error \notin Nat /\ None # Error

VARIABLES
    req,      \* request -> its progress
    ctxDone,  \* requests whose context is done
    run,      \* progress of runRequest; "off" while the token is in the channel
    reqs,     \* the requests collected by runRequest and not yet let in
    wg,       \* the WaitGroup
    version,  \* the state of the store
    since,    \* its state when the running update began
    value,    \* the state in the cache
    err,      \* the last update failed
    asked,    \* request -> state of the store when it was made
    answer    \* request -> the state it was answered with, or Error

vars == <<req, ctxDone, run, reqs, wg, version, since, value, err, asked, answer>>

Init ==
    /\ req = [r \in Requests |-> "idle"] /\ ctxDone = {}
    /\ run = "off" /\ reqs = <<>> /\ wg = 0
    /\ version = 0 /\ since = 0 /\ value = 0 /\ err = FALSE
    /\ asked = [r \in Requests |-> None] /\ answer = [r \in Requests |-> None]

\* Frontends, backends and synchronizer change the store.
StoreChanges ==
    /\ version < MaxVersion
    /\ version' = version + 1
    /\ UNCHANGED <<req, ctxDone, run, reqs, wg, since, value, err, asked, answer>>
-----------------------------------------------------------------------------
(* request *)

Request(r) ==
    /\ req[r] = "idle"
    /\ req' = [req EXCEPT ![r] = "send"]
    /\ asked' = [asked EXCEPT ![r] = version]
    /\ UNCHANGED <<ctxDone, run, reqs, wg, version, since, value, err, answer>>

CancelCtx(r) ==
    /\ req[r] \in {"send", "wait", "run"}
    /\ ctxDone' = ctxDone \cup {r}
    /\ UNCHANGED <<req, run, reqs, wg, version, since, value, err, asked, answer>>

\* The first select: start a run with the token, or send the request to the run.
StartRun(r) ==
    /\ req[r] = "send" /\ run = "off"
    /\ run' = "first"
    /\ UNCHANGED <<req, ctxDone, reqs, wg, version, since, value, err, asked, answer>>

\* Where runRequest receives requests.
CollectDuringUpdate == {"first", "collect", "update"}
Collecting == {"first", "collect"}

SendRequest(r) ==
    /\ req[r] = "send" /\ run \in Collecting
    /\ req' = [req EXCEPT ![r] = "wait"]
    /\ reqs' = Append(reqs, r)
    /\ run' = IF run = "first" THEN "collect" ELSE run
    /\ UNCHANGED <<ctxDone, wg, version, since, value, err, asked, answer>>

\* Either select may see that the context is done.
Cancelled(r) ==
    /\ req[r] \in {"send", "wait"} /\ r \in ctxDone
    /\ req' = [req EXCEPT ![r] = "done"]
    /\ answer' = [answer EXCEPT ![r] = Error]
    /\ UNCHANGED <<ctxDone, run, reqs, wg, version, since, value, err, asked>>

\* f has read the cache; the deferred wg.Done.
Finish(r) ==
    /\ req[r] = "run"
    /\ req' = [req EXCEPT ![r] = "done"]
    /\ answer' = [answer EXCEPT ![r] = IF err THEN Error ELSE value]
    /\ wg' = wg - 1
    /\ UNCHANGED <<ctxDone, run, reqs, version, since, value, err, asked>>
-----------------------------------------------------------------------------
(* runRequest *)

\* The default case of collectAllWaiting, and the beginning of the update.
StopCollecting ==
    /\ run = "collect"
    /\ run' = "update" /\ since' = version
    /\ UNCHANGED <<req, ctxDone, reqs, wg, version, value, err, asked, answer>>

Update ==
    /\ run = "update"
    /\ run' = "admit"
    /\ \/ err' = FALSE /\ value' \in since .. version
       \/ err' = TRUE /\ UNCHANGED value
    /\ UNCHANGED <<req, ctxDone, reqs, wg, version, since, asked, answer>>

LetIn ==
    /\ run = "admit" /\ reqs # <<>>
    /\ run' = "offer" /\ wg' = wg + 1
    /\ UNCHANGED <<req, ctxDone, reqs, version, since, value, err, asked, answer>>

\* The two cases of the select on runNow.
RunNow ==
    /\ run = "offer" /\ req[Head(reqs)] = "wait"
    /\ req' = [req EXCEPT ![Head(reqs)] = "run"]
    /\ run' = "admit" /\ reqs' = Tail(reqs)
    /\ UNCHANGED <<ctxDone, wg, version, since, value, err, asked, answer>>

GiveBack == wg - 1

SkipCancelled ==
    /\ run = "offer" /\ Head(reqs) \in ctxDone
    /\ run' = "admit" /\ reqs' = Tail(reqs) /\ wg' = GiveBack
    /\ UNCHANGED <<req, ctxDone, version, since, value, err, asked, answer>>

\* wg.Wait, after which the token goes back.
Waited == wg = 0

EndRun ==
    /\ run = "admit" /\ reqs = <<>> /\ Waited
    /\ run' = "off"
    /\ UNCHANGED <<req, ctxDone, reqs, wg, version, since, value, err, asked, answer>>

Run == StopCollecting \/ Update \/ LetIn \/ RunNow \/ SkipCancelled \/ EndRun

Next ==
    \/ StoreChanges
    \/ \E r \in Requests : \/ Request(r) \/ CancelCtx(r) \/ StartRun(r)
                           \/ SendRequest(r) \/ Cancelled(r) \/ Finish(r)
    \/ Run

Spec == Init /\ [][Next]_vars

-----------------------------------------------------------------------------
Reading == {r \in Requests : req[r] = "run"}

StateTypes ==
    /\ req \in [Requests -> {"idle", "send", "wait", "run", "done"}]
    /\ ctxDone \subseteq Requests
    /\ run \in {"off", "first", "collect", "update", "admit", "offer"}
    /\ reqs \in Seq(Requests) /\ wg \in Nat

ValueTypes ==
    /\ version \in 0 .. MaxVersion /\ since \in 0 .. version
    /\ value \in 0 .. version /\ err \in BOOLEAN
    /\ asked \in [Requests -> 0 .. MaxVersion \cup {None}]
    /\ answer \in [Requests -> 0 .. MaxVersion \cup {None, Error}]

ReadersCounted == wg = Cardinality(Reading) + IF run = "offer" THEN 1 ELSE 0

\* The types, and that the WaitGroup counts the requests reading the cache and the
\* one that is being let in.
TypeOK == StateTypes /\ ValueTypes /\ ReadersCounted

\* Nobody reads the cache while an update writes it: the maps of the cache are not
\* safe for concurrent use.  Readers are gone before the next run can start.
NoReadDuringUpdate == run \notin {"admit", "offer"} => Reading = {}

\* A request is answered with a state of the store no older than the request, even
\* if it shares its update with others.
Fresh == INSTANCE FreshRead WITH version <- version, asked <- asked, answer <- answer
FreshAnswers == Fresh!AbsSpec
=============================================================================
