------------------------- MODULE QueryCacheProofs -------------------------
(***************************************************************************)
(* Proofs about QueryCache and PoolQueries, for any finite number of       *)
(* requests, any bound on the changes of the store, and any pools,         *)
(* entities and page sizes.                                                *)
(*                                                                         *)
(* What a request is answered with depends on the update it waited for, so *)
(* the inductive invariant relates the state of the store when a request   *)
(* was made with the state at which the running update began, and with the *)
(* state in the cache once it is over.                                     *)
(*                                                                         *)
(* What the client of a query has received is what its handler has sent,   *)
(* so far, of an answer that no later step changes: ClientInv says how     *)
(* much that is for every stop of the goroutine on its way.                *)
(***************************************************************************)
EXTENDS PoolQueries, FiniteSetTheorems, TLAPS

\* What every request of a run may expect of it.
FreshInv ==
    /\ \A r \in Requests : req[r] = "idle" <=> asked[r] = None
    /\ \A r \in Requests : req[r] # "done" <=> answer[r] = None
    /\ \A r \in Requests : req[r] # "idle" => asked[r] <= version
    /\ \A r \in Requests : req[r] = "wait" /\ run = "update" => asked[r] <= since
    /\ \A r \in Requests :
         req[r] \in {"wait", "run"} /\ run \in {"admit", "offer"} /\ ~err => asked[r] <= value
    /\ run = "offer" => reqs # <<>>

IInv == TypeOK /\ NoReadDuringUpdate /\ FreshInv
-----------------------------------------------------------------------------
(* Helpers *)

\* Adding a request to the readers and taking one away changes their number by one.
LEMMA ReadersCount ==
    /\ IsFiniteSet(Reading) /\ Cardinality(Reading) \in Nat
    /\ Reading = {} <=> Cardinality(Reading) = 0
    /\ \A r \in Reading : Cardinality(Reading \ {r}) = Cardinality(Reading) - 1
    /\ \A r \in Requests \ Reading : Cardinality(Reading \cup {r}) = Cardinality(Reading) + 1
<1>1. IsFiniteSet(Reading) /\ Cardinality(Reading) \in Nat
  BY CacheConstants, FS_Subset, FS_CardinalityType, Zenon DEF Reading
<1>2. Reading = {} <=> Cardinality(Reading) = 0
  BY <1>1, FS_EmptySet, Zenon
<1>3. ASSUME NEW r \in Reading PROVE Cardinality(Reading \ {r}) = Cardinality(Reading) - 1
  BY <1>1, FS_RemoveElement, Zenon
<1>4. ASSUME NEW r \in Requests \ Reading
      PROVE  Cardinality(Reading \cup {r}) = Cardinality(Reading) + 1
  BY <1>1, FS_AddElement, Zenon
<1> QED BY <1>1, <1>2, <1>3, <1>4, Zenon

\* The request that is being let in is a request, and the others remain in the queue.
LEMMA OfferedRequest ==
    ASSUME IInv, run = "offer"
    PROVE  reqs # <<>> /\ Head(reqs) \in Requests /\ Tail(reqs) \in Seq(Requests)
BY DEF IInv, TypeOK, StateTypes, FreshInv
-----------------------------------------------------------------------------
(* The invariant is inductive *)

\* The invariant holds before the first request.
LEMMA CacheInit == Init => IInv
<1> SUFFICES ASSUME Init PROVE IInv
  BY Zenon
<1>1. Reading = {} /\ Cardinality(Reading) = 0
  BY FS_EmptySet, Zenon DEF Init, Reading
<1>2. StateTypes /\ ReadersCounted
  BY <1>1 DEF Init, StateTypes, ReadersCounted
<1>3. ValueTypes
  <2>1. err \in BOOLEAN
    BY Zenon DEF Init
  <2>2. version \in 0 .. MaxVersion /\ since \in 0 .. version /\ value \in 0 .. version
    BY CacheConstants DEF Init
  <2>3. /\ asked \in [Requests -> 0 .. MaxVersion \cup {None}]
        /\ answer \in [Requests -> 0 .. MaxVersion \cup {None, Error}]
    BY Zenon DEF Init
  <2> QED BY <2>1, <2>2, <2>3, Zenon DEF ValueTypes
<1> QED BY <1>1, <1>2, <1>3, CacheConstants, Zenon DEF Init, IInv, TypeOK, NoReadDuringUpdate, FreshInv

\* The types of the requests and of runRequest.
LEMMA StateTypesStep == ASSUME IInv PROVE [Next]_vars => StateTypes'
<1>1. ASSUME StoreChanges PROVE StateTypes'
  BY <1>1, Zenon DEF StoreChanges, IInv, TypeOK, StateTypes
<1>2. ASSUME NEW r \in Requests, Request(r) PROVE StateTypes'
  BY <1>2, Zenon DEF Request, IInv, TypeOK, StateTypes
<1>3. ASSUME NEW r \in Requests, CancelCtx(r) PROVE StateTypes'
  BY <1>3, Zenon DEF CancelCtx, IInv, TypeOK, StateTypes
<1>4. ASSUME NEW r \in Requests, StartRun(r) PROVE StateTypes'
  BY <1>4, Zenon DEF StartRun, IInv, TypeOK, StateTypes
<1>5. ASSUME NEW r \in Requests, SendRequest(r) PROVE StateTypes'
  BY <1>5 DEF SendRequest, IInv, TypeOK, StateTypes, Collecting
<1>6. ASSUME NEW r \in Requests, Cancelled(r) PROVE StateTypes'
  BY <1>6, Zenon DEF Cancelled, IInv, TypeOK, StateTypes
<1>7. ASSUME NEW r \in Requests, Finish(r) PROVE StateTypes'
  <2>1. Cardinality(Reading) # 0
    BY <1>7, ReadersCount, Zenon DEF Finish, Reading
  <2>2. wg \in Nat \ {0}
    BY <2>1, ReadersCount DEF IInv, TypeOK, ReadersCounted
  <2> QED BY <1>7, <2>2 DEF Finish, IInv, TypeOK, StateTypes
<1>8. ASSUME StopCollecting PROVE StateTypes'
  BY <1>8, Zenon DEF StopCollecting, IInv, TypeOK, StateTypes
<1>9. ASSUME Update PROVE StateTypes'
  BY <1>9, Zenon DEF Update, IInv, TypeOK, StateTypes
<1>10. ASSUME LetIn PROVE StateTypes'
  BY <1>10 DEF LetIn, IInv, TypeOK, StateTypes
<1>11. ASSUME RunNow PROVE StateTypes'
  BY <1>11, OfferedRequest, Zenon DEF RunNow, IInv, TypeOK, StateTypes
<1>12. ASSUME SkipCancelled PROVE StateTypes'
  <2>1. reqs # <<>> /\ Tail(reqs) \in Seq(Requests)
    BY <1>12, OfferedRequest, Zenon DEF SkipCancelled
  <2>2. wg = Cardinality(Reading) + 1
    BY <1>12, Zenon DEF SkipCancelled, IInv, TypeOK, ReadersCounted
  <2> QED BY <1>12, <2>1, <2>2, ReadersCount DEF SkipCancelled, GiveBack, IInv, TypeOK, StateTypes
<1>13. ASSUME EndRun PROVE StateTypes'
  BY <1>13, Zenon DEF EndRun, IInv, TypeOK, StateTypes
<1>14. ASSUME UNCHANGED vars PROVE StateTypes'
  BY <1>14, Zenon DEF vars, IInv, TypeOK, StateTypes
<1> QED BY <1>1, <1>2, <1>3, <1>4, <1>5, <1>6, <1>7, <1>8, <1>9, <1>10, <1>11, <1>12, <1>13, <1>14 DEF Next, Run

\* The types of the states of the store that are kept.
LEMMA ValueTypesStep == ASSUME IInv PROVE [Next]_vars => ValueTypes'
<1>1. ASSUME StoreChanges PROVE ValueTypes'
  BY <1>1, CacheConstants DEF StoreChanges, IInv, TypeOK, ValueTypes
<1>2. ASSUME NEW r \in Requests, Request(r) PROVE ValueTypes'
  BY <1>2, CacheConstants, Zenon DEF Request, IInv, TypeOK, ValueTypes
<1>3. ASSUME NEW r \in Requests, CancelCtx(r) PROVE ValueTypes'
  BY <1>3, CacheConstants, Zenon DEF CancelCtx, IInv, TypeOK, ValueTypes
<1>4. ASSUME NEW r \in Requests, StartRun(r) PROVE ValueTypes'
  BY <1>4, CacheConstants, Zenon DEF StartRun, IInv, TypeOK, ValueTypes
<1>5. ASSUME NEW r \in Requests, SendRequest(r) PROVE ValueTypes'
  BY <1>5, CacheConstants, Zenon DEF SendRequest, IInv, TypeOK, ValueTypes
<1>6. ASSUME NEW r \in Requests, Cancelled(r) PROVE ValueTypes'
  BY <1>6, CacheConstants, Zenon DEF Cancelled, IInv, TypeOK, ValueTypes
<1>7. ASSUME NEW r \in Requests, Finish(r) PROVE ValueTypes'
  BY <1>7, CacheConstants DEF Finish, IInv, TypeOK, ValueTypes
<1>8. ASSUME StopCollecting PROVE ValueTypes'
  BY <1>8, CacheConstants DEF StopCollecting, IInv, TypeOK, ValueTypes
<1>9. ASSUME Update PROVE ValueTypes'
  <2>1. err' \in BOOLEAN
    BY <1>9, Zenon DEF Update
  <2>2. version' \in 0 .. MaxVersion /\ since' \in 0 .. version' /\ value' \in 0 .. version'
    BY <1>9, CacheConstants DEF Update, IInv, TypeOK, ValueTypes
  <2>3. /\ asked' \in [Requests -> 0 .. MaxVersion \cup {None}]
        /\ answer' \in [Requests -> 0 .. MaxVersion \cup {None, Error}]
    BY <1>9, Zenon DEF Update, IInv, TypeOK, ValueTypes
  <2> QED BY <2>1, <2>2, <2>3, Zenon DEF ValueTypes
<1>10. ASSUME LetIn PROVE ValueTypes'
  BY <1>10, CacheConstants, Zenon DEF LetIn, IInv, TypeOK, ValueTypes
<1>11. ASSUME RunNow PROVE ValueTypes'
  BY <1>11, CacheConstants, Zenon DEF RunNow, IInv, TypeOK, ValueTypes
<1>12. ASSUME SkipCancelled PROVE ValueTypes'
  BY <1>12, CacheConstants, Zenon DEF SkipCancelled, IInv, TypeOK, ValueTypes
<1>13. ASSUME EndRun PROVE ValueTypes'
  BY <1>13, CacheConstants, Zenon DEF EndRun, IInv, TypeOK, ValueTypes
<1>14. ASSUME UNCHANGED vars PROVE ValueTypes'
  BY <1>14, Zenon DEF vars, IInv, TypeOK, ValueTypes
<1> QED BY <1>1, <1>2, <1>3, <1>4, <1>5, <1>6, <1>7, <1>8, <1>9, <1>10, <1>11, <1>12, <1>13, <1>14, Zenon DEF Next, Run

\* The WaitGroup counts the readers.
LEMMA CountStep == ASSUME IInv PROVE [Next]_vars => ReadersCounted'
<1>1. ASSUME StoreChanges PROVE ReadersCounted'
  <2>1. Reading' = Reading
    BY <1>1, Zenon DEF StoreChanges, Reading
  <2> QED BY <1>1, <2>1, ReadersCount, Zenon DEF StoreChanges, IInv, TypeOK, ReadersCounted
<1>2. ASSUME NEW r \in Requests, Request(r) PROVE ReadersCounted'
  <2>1. Reading' = Reading
    BY <1>2, Zenon DEF Request, Reading, IInv, TypeOK, StateTypes
  <2> QED BY <1>2, <2>1, ReadersCount, Zenon DEF Request, IInv, TypeOK, ReadersCounted
<1>3. ASSUME NEW r \in Requests, CancelCtx(r) PROVE ReadersCounted'
  <2>1. Reading' = Reading
    BY <1>3, Zenon DEF CancelCtx, Reading
  <2> QED BY <1>3, <2>1, ReadersCount, Zenon DEF CancelCtx, IInv, TypeOK, ReadersCounted
<1>4. ASSUME NEW r \in Requests, StartRun(r) PROVE ReadersCounted'
  <2>1. Reading' = Reading
    BY <1>4, Zenon DEF StartRun, Reading
  <2> QED BY <1>4, <2>1, ReadersCount, Zenon DEF StartRun, IInv, TypeOK, ReadersCounted
<1>5. ASSUME NEW r \in Requests, SendRequest(r) PROVE ReadersCounted'
  <2>1. Reading' = Reading
    BY <1>5, Zenon DEF SendRequest, Reading, IInv, TypeOK, StateTypes
  <2> QED BY <1>5, <2>1, ReadersCount, Zenon DEF SendRequest, IInv, TypeOK, ReadersCounted, Collecting
<1>6. ASSUME NEW r \in Requests, Cancelled(r) PROVE ReadersCounted'
  <2>1. Reading' = Reading
    BY <1>6, Zenon DEF Cancelled, Reading, IInv, TypeOK, StateTypes
  <2> QED BY <1>6, <2>1, ReadersCount, Zenon DEF Cancelled, IInv, TypeOK, ReadersCounted
<1>7. ASSUME NEW r \in Requests, Finish(r) PROVE ReadersCounted'
  <2>1. r \in Reading /\ Reading' = Reading \ {r}
    BY <1>7, Zenon DEF Finish, IInv, TypeOK, StateTypes, Reading
  <2>2. Cardinality(Reading') = Cardinality(Reading) - 1
    BY <2>1, ReadersCount, Zenon
  <2> QED BY <1>7, <2>2, ReadersCount DEF Finish, IInv, TypeOK, ReadersCounted
<1>8. ASSUME StopCollecting PROVE ReadersCounted'
  <2>1. Reading' = Reading
    BY <1>8, Zenon DEF StopCollecting, Reading
  <2> QED BY <1>8, <2>1, ReadersCount, Zenon DEF StopCollecting, IInv, TypeOK, ReadersCounted
<1>9. ASSUME Update PROVE ReadersCounted'
  <2>1. Reading' = Reading
    BY <1>9, Zenon DEF Update, Reading
  <2> QED BY <1>9, <2>1, ReadersCount, Zenon DEF Update, IInv, TypeOK, ReadersCounted
<1>10. ASSUME LetIn PROVE ReadersCounted'
  <2>1. Reading' = Reading
    BY <1>10, Zenon DEF LetIn, Reading
  <2> QED BY <1>10, <2>1, ReadersCount DEF LetIn, IInv, TypeOK, ReadersCounted
<1>11. ASSUME RunNow PROVE ReadersCounted'
  <2> DEFINE h == Head(reqs)
  <2>1. h \in Requests
    BY <1>11, OfferedRequest, Zenon DEF RunNow
  <2>2. h \in Requests \ Reading /\ Reading' = Reading \cup {h}
    BY <1>11, <2>1, Zenon DEF RunNow, IInv, TypeOK, StateTypes, Reading
  <2>3. Cardinality(Reading') = Cardinality(Reading) + 1
    BY <2>2, ReadersCount, Zenon
  <2> QED BY <1>11, <2>3, ReadersCount DEF RunNow, IInv, TypeOK, ReadersCounted
<1>12. ASSUME SkipCancelled PROVE ReadersCounted'
  <2>1. Reading' = Reading
    BY <1>12, Zenon DEF SkipCancelled, Reading
  <2> QED BY <1>12, <2>1, ReadersCount DEF SkipCancelled, IInv, TypeOK, ReadersCounted, GiveBack
<1>13. ASSUME EndRun PROVE ReadersCounted'
  <2>1. Reading' = Reading
    BY <1>13, Zenon DEF EndRun, Reading
  <2> QED BY <1>13, <2>1, ReadersCount, Zenon DEF EndRun, IInv, TypeOK, ReadersCounted
<1>14. ASSUME UNCHANGED vars PROVE ReadersCounted'
  BY <1>14, Zenon DEF vars, IInv, TypeOK, ReadersCounted, Reading
<1> QED BY <1>1, <1>2, <1>3, <1>4, <1>5, <1>6, <1>7, <1>8, <1>9, <1>10, <1>11, <1>12, <1>13, <1>14, Zenon DEF Next, Run

\* A run ends only when its readers are gone, and only a run lets readers in.
LEMMA ReadStep == ASSUME IInv PROVE [Next]_vars => NoReadDuringUpdate'
<1>1. ASSUME StoreChanges PROVE NoReadDuringUpdate'
  BY <1>1, Zenon DEF StoreChanges, IInv, TypeOK, StateTypes, NoReadDuringUpdate, Reading
<1>2. ASSUME NEW r \in Requests, Request(r) PROVE NoReadDuringUpdate'
  BY <1>2, Zenon DEF Request, IInv, TypeOK, StateTypes, NoReadDuringUpdate, Reading
<1>3. ASSUME NEW r \in Requests, CancelCtx(r) PROVE NoReadDuringUpdate'
  BY <1>3, Zenon DEF CancelCtx, IInv, TypeOK, StateTypes, NoReadDuringUpdate, Reading
<1>4. ASSUME NEW r \in Requests, StartRun(r) PROVE NoReadDuringUpdate'
  BY <1>4, Zenon DEF StartRun, IInv, TypeOK, StateTypes, NoReadDuringUpdate, Reading
<1>5. ASSUME NEW r \in Requests, SendRequest(r) PROVE NoReadDuringUpdate'
  BY <1>5, Zenon DEF SendRequest, IInv, TypeOK, StateTypes, NoReadDuringUpdate, Reading, Collecting
<1>6. ASSUME NEW r \in Requests, Cancelled(r) PROVE NoReadDuringUpdate'
  BY <1>6, Zenon DEF Cancelled, IInv, TypeOK, StateTypes, NoReadDuringUpdate, Reading
<1>7. ASSUME NEW r \in Requests, Finish(r) PROVE NoReadDuringUpdate'
  BY <1>7, Zenon DEF Finish, IInv, TypeOK, StateTypes, NoReadDuringUpdate, Reading
<1>8. ASSUME StopCollecting PROVE NoReadDuringUpdate'
  BY <1>8, Zenon DEF StopCollecting, IInv, TypeOK, StateTypes, NoReadDuringUpdate, Reading
<1>9. ASSUME Update PROVE NoReadDuringUpdate'
  BY <1>9, Zenon DEF Update, IInv, TypeOK, StateTypes, NoReadDuringUpdate, Reading
<1>10. ASSUME LetIn PROVE NoReadDuringUpdate'
  BY <1>10, Zenon DEF LetIn, IInv, TypeOK, StateTypes, NoReadDuringUpdate, Reading
<1>11. ASSUME RunNow PROVE NoReadDuringUpdate'
  BY <1>11, Zenon DEF RunNow, IInv, TypeOK, StateTypes, NoReadDuringUpdate, Reading
<1>12. ASSUME SkipCancelled PROVE NoReadDuringUpdate'
  BY <1>12, Zenon DEF SkipCancelled, IInv, TypeOK, StateTypes, NoReadDuringUpdate, Reading, GiveBack
<1>13. ASSUME EndRun PROVE NoReadDuringUpdate'
  <2>1. Reading = {}
    BY <1>13, ReadersCount DEF EndRun, Waited, IInv, TypeOK, ReadersCounted
  <2> QED BY <1>13, <2>1, Zenon DEF EndRun, NoReadDuringUpdate, Reading
<1>14. ASSUME UNCHANGED vars PROVE NoReadDuringUpdate'
  BY <1>14, Zenon DEF vars, IInv, NoReadDuringUpdate, Reading
<1> QED BY <1>1, <1>2, <1>3, <1>4, <1>5, <1>6, <1>7, <1>8, <1>9, <1>10, <1>11, <1>12, <1>13, <1>14, Zenon DEF Next, Run

\* A run serves its requests with a state at least as new as they are.
LEMMA FreshStep == ASSUME IInv PROVE [Next]_vars => FreshInv'
<1>1. ASSUME StoreChanges PROVE FreshInv'
  BY <1>1, CacheConstants DEF StoreChanges, IInv, TypeOK, StateTypes, ValueTypes, NoReadDuringUpdate, FreshInv, Reading
<1>2. ASSUME NEW r \in Requests, Request(r) PROVE FreshInv'
  BY <1>2, CacheConstants DEF Request, IInv, TypeOK, StateTypes, ValueTypes, NoReadDuringUpdate, FreshInv, Reading
<1>3. ASSUME NEW r \in Requests, CancelCtx(r) PROVE FreshInv'
  BY <1>3, CacheConstants, Zenon DEF CancelCtx, IInv, TypeOK, StateTypes, ValueTypes, NoReadDuringUpdate, FreshInv, Reading
<1>4. ASSUME NEW r \in Requests, StartRun(r) PROVE FreshInv'
  BY <1>4, CacheConstants, Zenon DEF StartRun, IInv, TypeOK, StateTypes, ValueTypes, NoReadDuringUpdate, FreshInv, Reading
<1>5. ASSUME NEW r \in Requests, SendRequest(r) PROVE FreshInv'
  BY <1>5, CacheConstants, Zenon DEF SendRequest, IInv, TypeOK, StateTypes, ValueTypes, NoReadDuringUpdate, FreshInv, Reading, Collecting
<1>6. ASSUME NEW r \in Requests, Cancelled(r) PROVE FreshInv'
  BY <1>6, CacheConstants, Zenon DEF Cancelled, IInv, TypeOK, StateTypes, ValueTypes, NoReadDuringUpdate, FreshInv, Reading
<1>7. ASSUME NEW r \in Requests, Finish(r) PROVE FreshInv'
  BY <1>7, CacheConstants DEF Finish, IInv, TypeOK, StateTypes, ValueTypes, NoReadDuringUpdate, FreshInv, Reading
<1>8. ASSUME StopCollecting PROVE FreshInv'
  BY <1>8, CacheConstants, Zenon DEF StopCollecting, IInv, TypeOK, StateTypes, ValueTypes, NoReadDuringUpdate, FreshInv, Reading
<1>9. ASSUME Update PROVE FreshInv'
  BY <1>9, CacheConstants DEF Update, IInv, TypeOK, StateTypes, ValueTypes, NoReadDuringUpdate, FreshInv, Reading
<1>10. ASSUME LetIn PROVE FreshInv'
  BY <1>10, CacheConstants, Zenon DEF LetIn, IInv, TypeOK, StateTypes, ValueTypes, NoReadDuringUpdate, FreshInv, Reading
<1>11. ASSUME RunNow PROVE FreshInv'
  BY <1>11, CacheConstants, OfferedRequest, Zenon DEF RunNow, IInv, TypeOK, StateTypes, ValueTypes, NoReadDuringUpdate, FreshInv, Reading
<1>12. ASSUME SkipCancelled PROVE FreshInv'
  BY <1>12, CacheConstants, OfferedRequest, Zenon DEF SkipCancelled, IInv, TypeOK, StateTypes, ValueTypes, NoReadDuringUpdate, FreshInv, Reading, GiveBack
<1>13. ASSUME EndRun PROVE FreshInv'
  BY <1>13, CacheConstants, Zenon DEF EndRun, IInv, TypeOK, StateTypes, ValueTypes, NoReadDuringUpdate, FreshInv, Reading
<1>14. ASSUME UNCHANGED vars PROVE FreshInv'
  BY <1>14, Zenon DEF vars, IInv, FreshInv
<1> QED BY <1>1, <1>2, <1>3, <1>4, <1>5, <1>6, <1>7, <1>8, <1>9, <1>10, <1>11, <1>12, <1>13, <1>14, Zenon DEF Next, Run

\* The inductive invariant, from which the theorems below follow.
THEOREM CacheInvariant == Spec => []IInv
<1>1. IInv /\ [Next]_vars => IInv'
  BY StateTypesStep, ValueTypesStep, CountStep, ReadStep, FreshStep, Zenon DEF IInv, TypeOK
<1> QED BY <1>1, CacheInit, PTL DEF Spec

\* runRequest's updates and the requests' reads of the cache exclude each other.
THEOREM NoConcurrentRead == Spec => []NoReadDuringUpdate
BY CacheInvariant, PTL DEF IInv
-----------------------------------------------------------------------------
(* The cache implements FreshRead *)

\* A change of the store is one in FreshRead.
LEMMA ChangesStore == ASSUME IInv, StoreChanges PROVE Fresh!Change
BY Zenon DEF StoreChanges, Fresh!Change

\* A request to the cache is one to FreshRead.
LEMMA AsksFresh == ASSUME IInv, NEW r \in Requests, Request(r) PROVE Fresh!Ask(r)
BY Zenon DEF Request, IInv, FreshInv, Fresh!Ask

\* A request whose context is cancelled is answered with an error.
LEMMA CancelledAnswers ==
    ASSUME IInv, NEW r \in Requests, Cancelled(r) PROVE Fresh!Answer(r, Error)
BY CacheConstants, Zenon DEF Cancelled, IInv, TypeOK, StateTypes, FreshInv, Fresh!Answer

\* A request that reads the cache is answered with a state from its own time or later.
LEMMA FinishAnswers ==
    ASSUME IInv, NEW r \in Requests, Finish(r)
    PROVE  \E v \in (0 .. version) \cup {Error} : Fresh!Answer(r, v)
<1>1. asked[r] # None /\ answer[r] = None /\ asked[r] \in Nat
  BY CacheConstants DEF Finish, IInv, TypeOK, StateTypes, ValueTypes, FreshInv
<1>2. run \in {"admit", "offer"}
  BY Zenon DEF Finish, IInv, NoReadDuringUpdate, Reading
<1>3. CASE err
  <2>1. Fresh!Answer(r, Error)
    BY <1>1, <1>3, Zenon DEF Finish, Fresh!Answer
  <2> QED BY <2>1, Zenon
<1>4. CASE ~err
  <2>1. asked[r] <= value
    BY <1>2, <1>4, Zenon DEF Finish, IInv, FreshInv
  <2>2. value \in asked[r] .. version /\ value \in 0 .. version
    BY <1>1, <2>1, CacheConstants DEF IInv, TypeOK, ValueTypes
  <2>3. answer' = [answer EXCEPT ![r] = value] /\ UNCHANGED <<version, asked>>
    BY <1>4, Zenon DEF Finish
  <2>4. Fresh!Answer(r, value)
    BY <1>1, <2>2, <2>3, Zenon DEF Fresh!Answer
  <2> QED BY <2>2, <2>4, Zenon
<1> QED BY <1>3, <1>4, Zenon

\* The cache of cache.go implements FreshRead: sharing an update never gives a request
\* an answer older than itself.
THEOREM AnswersAreFresh == Spec => FreshAnswers
<1>1. Init => Fresh!AbsInit
  BY Zenon DEF Init, Fresh!AbsInit
<1>2. ASSUME IInv PROVE [Next]_vars => [Fresh!AbsNext]_(Fresh!absVars)
  <2>1. ASSUME StoreChanges PROVE Fresh!AbsNext
    BY <1>2, <2>1, ChangesStore, Zenon DEF Fresh!AbsNext
  <2>2. ASSUME NEW r \in Requests, Request(r) PROVE Fresh!AbsNext
    BY <1>2, <2>2, AsksFresh, Zenon DEF Fresh!AbsNext
  <2>3. ASSUME NEW r \in Requests, CancelCtx(r) PROVE UNCHANGED Fresh!absVars
    BY <2>3, Zenon DEF CancelCtx, Fresh!absVars
  <2>4. ASSUME NEW r \in Requests, StartRun(r) PROVE UNCHANGED Fresh!absVars
    BY <2>4, Zenon DEF StartRun, Fresh!absVars
  <2>5. ASSUME NEW r \in Requests, SendRequest(r) PROVE UNCHANGED Fresh!absVars
    BY <2>5, Zenon DEF SendRequest, Fresh!absVars
  <2>6. ASSUME NEW r \in Requests, Cancelled(r) PROVE Fresh!AbsNext
    BY <1>2, <2>6, CancelledAnswers, Zenon DEF Fresh!AbsNext
  <2>7. ASSUME NEW r \in Requests, Finish(r) PROVE Fresh!AbsNext
    BY <1>2, <2>7, FinishAnswers, Zenon DEF Fresh!AbsNext
  <2>8. ASSUME StopCollecting PROVE UNCHANGED Fresh!absVars
    BY <2>8, Zenon DEF StopCollecting, Fresh!absVars
  <2>9. ASSUME Update PROVE UNCHANGED Fresh!absVars
    BY <2>9, Zenon DEF Update, Fresh!absVars
  <2>10. ASSUME LetIn PROVE UNCHANGED Fresh!absVars
    BY <2>10, Zenon DEF LetIn, Fresh!absVars
  <2>11. ASSUME RunNow PROVE UNCHANGED Fresh!absVars
    BY <2>11, Zenon DEF RunNow, Fresh!absVars
  <2>12. ASSUME SkipCancelled PROVE UNCHANGED Fresh!absVars
    BY <2>12, Zenon DEF SkipCancelled, Fresh!absVars
  <2>13. ASSUME EndRun PROVE UNCHANGED Fresh!absVars
    BY <2>13, Zenon DEF EndRun, Fresh!absVars
  <2>14. ASSUME UNCHANGED vars PROVE UNCHANGED Fresh!absVars
    BY <2>14, Zenon DEF vars, Fresh!absVars
  <2> QED BY <2>1, <2>2, <2>3, <2>4, <2>5, <2>6, <2>7, <2>8, <2>9, <2>10, <2>11, <2>12, <2>13, <2>14, Zenon DEF Next, Run
<1> QED BY <1>1, <1>2, CacheInvariant, PTL DEF Spec, FreshAnswers, Fresh!AbsSpec
-----------------------------------------------------------------------------
(* The handlers and the clients of the cache *)

\* A query has gone to its cache, and has an answer that is there to stay.
HasAsked(q) == IF q[1] = "backfills" THEN bAsked[q[2]] # None ELSE req[q[2]] # "idle"
HasAnswer(q) == IF q[1] = "backfills" THEN bAsked[q[2]] # None /\ bAnswer[q[2]] # None
                ELSE req[q[2]] = "done"

Rows(q) == Cardinality(Results(q))

Stops == {"off", "ready", "call", "stream", "offer", "taken", "gone"}

ClientTypes ==
    /\ gor \in [Queries -> Stops] /\ start \in [Queries -> Nat]
    /\ got \in [Queries -> Nat \cup {Error}] /\ pageSize \in Nat \ {0}
    /\ bAsked \in [Pools -> Nat \cup {None}]
    /\ bAnswer \in [Pools -> Nat \cup {None, Error}]

\* How far a query is, and what its client has by then.
Progress(q) ==
    /\ ~HasAsked(q) => start[q] = 0 /\ got[q] = 0
    /\ gor[q] = "call" => HasAsked(q) /\ start[q] = 0 /\ got[q] = 0
    /\ gor[q] = "stream" => HasAnswer(q) /\ got[q] = Lesser(start[q], Rows(q))
    /\ gor[q] \in {"offer", "taken"} /\ got[q] # Error => HasAnswer(q) /\ got[q] = Rows(q)

ClientInv == IInv /\ ClientTypes /\ \A q \in Queries : Progress(q)

\* What any step does to the two caches: an answer is never changed.
Lasting ==
    /\ \A r \in Requests : req[r] # "idle" => req'[r] # "idle"
    /\ \A r \in Requests : req[r] = "done" => req'[r] = "done" /\ answer'[r] = answer[r]
    /\ \A p \in Pools : bAsked[p] # None => bAsked'[p] # None
    /\ \A p \in Pools : bAnswer[p] # None => bAnswer'[p] = bAnswer[p]

\* The steps of the backfill cache that concern one pool, or none.
BackfillSteps ==
    \/ UNCHANGED <<bAsked, bAnswer>>
    \/ \E p \in Pools : BC!Ask(p) \/ \E v \in (0 .. version) \cup {Error} : BC!Answer(p, v)

\* Every step of the pool queries is one of the ticket cache, or leaves it alone.
LEMMA StepsOnCache == [QueryNext]_queryVars => [Next]_vars
<1>1. ASSUME NEW q \in Queries, Query(q) PROVE [Next]_vars
  <2> q[2] \in Requests
    BY QueryConstants, Zenon DEF Queries
  <2>1. ASSUME Call(q) PROVE [Next]_vars
    BY <2>1, Zenon DEF Call, Next
  <2>2. ASSUME TicketsCollected(q) PROVE [Next]_vars
    BY <2>2, Zenon DEF TicketsCollected, Next
  <2>3. ASSUME BackfillsCollected(q) \/ Page(q) \/ EndOfPages(q) \/ QueryFails(q) PROVE [Next]_vars
    BY <2>3, Zenon DEF BackfillsCollected, Page, EndOfPages, QueryFails
  <2> QED BY <1>1, <2>1, <2>2, <2>3, Zenon DEF Query
<1>2. ASSUME NEW q \in Queries, QueryFails(q) \/ Collect(q) \/ Abandon(q) PROVE [Next]_vars
  BY <1>2, Zenon DEF QueryFails, Collect, Abandon, RunFrame
<1>3. ASSUME NEW r \in Requests, CacheRequest(r) \/ HandlerEnds(r) \/ HandlerCancelled(r)
      PROVE  [Next]_vars
  BY <1>3, Zenon DEF CacheRequest, HandlerEnds, HandlerCancelled, Next
<1>4. ASSUME (StoreChanges /\ UNCHANGED clientVars) \/ Cache \/ CollectCancelled \/ CallerGone
      PROVE  [Next]_vars
  BY <1>4, Zenon DEF Cache, CollectCancelled, CallerGone, RunFrame, Next
<1>5. ASSUME UNCHANGED queryVars PROVE [Next]_vars
  BY <1>5, Zenon DEF queryVars
<1> QED BY <1>1, <1>2, <1>3, <1>4, <1>5, Zenon DEF QueryNext

\* The queries of a run use the ticket cache as its module says.
THEOREM QueriesUseCache == QuerySpec => Spec
<1>1. QueryInit => Init
  BY Zenon DEF QueryInit
<1> QED BY <1>1, StepsOnCache, PTL DEF QuerySpec, Spec
-----------------------------------------------------------------------------
\* A query asks about a pool of the profile, whose requests the ticket cache knows.
LEMMA QueryPool ==
    ASSUME NEW q \in Queries
    PROVE  q[2] \in Pools /\ q[2] \in Requests
BY QueryConstants, Zenon DEF Queries

\* The rows of a query are finitely many, since the entities are.
LEMMA RowsCounted == ASSUME NEW q \in Queries PROVE Rows(q) \in Nat /\ Rows(q)' \in Nat
<1>1. Members[q[2]] \subseteq DOMAIN Entity
  BY QueryPool, Zenon DEF Members
<1>2. Results(q) \subseteq DOMAIN Entity /\ Results(q)' \subseteq DOMAIN Entity
  BY <1>1, Zenon DEF Results
<1> QED BY <1>2, QueryConstants, FS_Subset, FS_CardinalityType, Zenon DEF Rows

\* The page size is a positive number whatever is configured.
LEMMA PageSizePositive == ASSUME NEW c \in PageSizes PROVE getPageSize(c) \in Nat \ {0}
BY QueryConstants, PageConstants DEF getPageSize

\* The ticket cache never takes an answer back.
LEMMA AnswersLast ==
    ASSUME IInv, [Next]_vars
    PROVE  \A r \in Requests : /\ req[r] # "idle" => req'[r] # "idle"
                               /\ req[r] = "done" => req'[r] = "done" /\ answer'[r] = answer[r]
<1> SUFFICES ASSUME NEW r \in Requests
             PROVE  /\ req[r] # "idle" => req'[r] # "idle"
                    /\ req[r] = "done" => req'[r] = "done" /\ answer'[r] = answer[r]
  BY Zenon
<1> USE DEF IInv, TypeOK, StateTypes, ValueTypes
<1>1. ASSUME NEW u \in Requests, Request(u) \/ SendRequest(u) \/ Cancelled(u) \/ Finish(u)
      PROVE  /\ req[r] # "idle" => req'[r] # "idle"
             /\ req[r] = "done" => req'[r] = "done" /\ answer'[r] = answer[r]
  BY <1>1 DEF Request, SendRequest, Cancelled, Finish
<1>2. ASSUME RunNow
      PROVE  /\ req[r] # "idle" => req'[r] # "idle"
             /\ req[r] = "done" => req'[r] = "done" /\ answer'[r] = answer[r]
  BY <1>2 DEF RunNow
<1>3. ASSUME \/ StoreChanges \/ StopCollecting \/ Update \/ LetIn \/ SkipCancelled \/ EndRun
             \/ UNCHANGED vars \/ \E u \in Requests : CancelCtx(u) \/ StartRun(u)
      PROVE  req' = req /\ answer' = answer
  BY <1>3, Zenon DEF StoreChanges, StopCollecting, Update, LetIn, SkipCancelled, EndRun, vars,
     CancelCtx, StartRun
<1> QED BY <1>1, <1>2, <1>3, Zenon DEF Next, Run

\* Nor does the backfill cache.
LEMMA BackfillAnswersLast ==
    ASSUME ClientTypes, IInv, BackfillSteps
    PROVE  /\ bAsked' \in [Pools -> Nat \cup {None}]
           /\ bAnswer' \in [Pools -> Nat \cup {None, Error}]
           /\ \A p \in Pools : bAsked[p] # None => bAsked'[p] # None
           /\ \A p \in Pools : bAnswer[p] # None => bAnswer'[p] = bAnswer[p]
<1>1. version \in Nat
  BY CacheConstants DEF IInv, TypeOK, ValueTypes
<1>2. CASE UNCHANGED <<bAsked, bAnswer>>
  BY <1>2, Zenon DEF ClientTypes
<1>3. ASSUME NEW p \in Pools, BC!Ask(p)
      PROVE  /\ bAsked' \in [Pools -> Nat \cup {None}] /\ bAnswer' = bAnswer
             /\ \A u \in Pools : bAsked[u] # None => bAsked'[u] # None
  BY <1>1, <1>3, Zenon DEF ClientTypes, BC!Ask
<1>4. ASSUME NEW p \in Pools, NEW v \in (0 .. version) \cup {Error}, BC!Answer(p, v)
      PROVE  /\ bAnswer' \in [Pools -> Nat \cup {None, Error}] /\ bAsked' = bAsked
             /\ \A u \in Pools : bAnswer[u] # None => bAnswer'[u] = bAnswer[u]
  <2>1. v \in Nat \cup {Error}
    BY <1>1
  <2> QED BY <2>1, <1>4, Zenon DEF ClientTypes, BC!Answer
<1> QED BY <1>2, <1>3, <1>4, Zenon DEF BackfillSteps, ClientTypes

\* A query that a step leaves alone, or whose result is taken or dropped, has the same
\* rows after it.
LEMMA Unaffected ==
    ASSUME Lasting, NEW q \in Queries, Progress(q), start'[q] = start[q], got'[q] = got[q],
           \/ gor'[q] = gor[q] \/ gor'[q] \in {"ready", "gone"}
           \/ gor[q] = "offer" /\ gor'[q] = "taken"
    PROVE  Progress(q)'
<1>1. HasAsked(q) => HasAsked(q)'
  BY QueryPool, Zenon DEF Lasting, HasAsked
<1>2. ASSUME HasAnswer(q) PROVE HasAnswer(q)' /\ Rows(q)' = Rows(q)
  <2>1. HasAnswer(q)'
    BY <1>2, QueryPool, Zenon DEF Lasting, HasAnswer
  <2>2. EveryRow(q)' = EveryRow(q)
    BY <1>2, QueryPool, Zenon DEF Lasting, HasAnswer, EveryRow
  <2> QED BY <2>1, <2>2, Zenon DEF Rows, Results
<1> QED BY <1>1, <1>2, Zenon DEF Progress, Lesser

\* Every step of the pool queries leaves the answers of both caches as they are.
LEMMA CachesLast ==
    ASSUME ClientInv, [QueryNext]_queryVars
    PROVE  /\ Lasting /\ bAsked' \in [Pools -> Nat \cup {None}]
           /\ bAnswer' \in [Pools -> Nat \cup {None, Error}]
<1>1. ASSUME NEW q \in Queries, Query(q) PROVE BackfillSteps
  <2>1. ASSUME Call(q) PROVE BackfillSteps
    BY <2>1, QueryPool, Zenon DEF Call, BackfillSteps
  <2>2. ASSUME BackfillsCollected(q) PROVE BackfillSteps
    BY <2>2, QueryPool, Zenon DEF BackfillsCollected, BackfillSteps
  <2>3. ASSUME TicketsCollected(q) \/ Page(q) \/ EndOfPages(q) \/ QueryFails(q)
        PROVE  BackfillSteps
    BY <2>3, Zenon DEF TicketsCollected, Page, EndOfPages, QueryFails, BackfillSteps
  <2> QED BY <1>1, <2>1, <2>2, <2>3, Zenon DEF Query
<1>2. ASSUME \/ (StoreChanges /\ UNCHANGED clientVars) \/ Cache \/ CollectCancelled \/ CallerGone
             \/ \E r \in Requests : CacheRequest(r) \/ HandlerEnds(r) \/ HandlerCancelled(r)
             \/ \E q \in Queries : QueryFails(q) \/ Collect(q) \/ Abandon(q)
             \/ UNCHANGED queryVars
      PROVE  BackfillSteps
  BY <1>2, Zenon DEF Cache, CollectCancelled, CallerGone, CacheRequest, HandlerEnds,
     HandlerCancelled, QueryFails, Collect, Abandon, RunFrame, clientVars, queryVars, BackfillSteps
<1>3. BackfillSteps
  BY <1>1, <1>2, Zenon DEF QueryNext
<1>4. IInv /\ ClientTypes /\ [Next]_vars
  BY StepsOnCache, Zenon DEF ClientInv
<1>5. \A r \in Requests : /\ req[r] # "idle" => req'[r] # "idle"
                          /\ req[r] = "done" => req'[r] = "done" /\ answer'[r] = answer[r]
  BY <1>4, AnswersLast, Zenon
<1>6. /\ bAsked' \in [Pools -> Nat \cup {None}]
      /\ bAnswer' \in [Pools -> Nat \cup {None, Error}]
      /\ \A p \in Pools : bAsked[p] # None => bAsked'[p] # None
      /\ \A p \in Pools : bAnswer[p] # None => bAnswer'[p] = bAnswer[p]
  BY <1>3, <1>4, BackfillAnswersLast, Zenon
<1> QED BY <1>5, <1>6, Zenon DEF Lasting

\* A query that calls its cache had not asked before, so its client has nothing yet.
LEMMA CallStep ==
    ASSUME ClientInv, Lasting, NEW q \in Queries, Call(q) PROVE Progress(q)'
<1>1. version \in Nat /\ version # None
  BY CacheConstants DEF ClientInv, IInv, TypeOK, ValueTypes
<1>2. ~HasAsked(q) /\ HasAsked(q)'
  <2>1. CASE q[1] = "backfills"
    <3>1. bAsked[q[2]] = None /\ bAsked'[q[2]] = version
      BY <2>1, QueryPool, Zenon DEF Call, BC!Ask, ClientInv, ClientTypes
    <3> QED BY <1>1, <2>1, <3>1, Zenon DEF HasAsked
  <2>2. CASE q[1] # "backfills"
    <3>1. req[q[2]] = "idle" /\ req'[q[2]] = "send"
      BY <2>2, QueryPool, Zenon DEF Call, Request, ClientInv, IInv, TypeOK, StateTypes
    <3> QED BY <2>2, <3>1, Zenon DEF HasAsked
  <2> QED BY <2>1, <2>2, Zenon
<1>3. start'[q] = 0 /\ got'[q] = 0 /\ gor'[q] = "call"
  BY <1>2, Zenon DEF Call, ClientInv, ClientTypes, Progress
<1> QED BY <1>2, <1>3, Zenon DEF Progress

\* The answer of the cache begins the stream, of which nothing has been sent.
LEMMA CollectedStep ==
    ASSUME ClientInv, Lasting, NEW q \in Queries, TicketsCollected(q) \/ BackfillsCollected(q)
    PROVE  Progress(q)'
<1>1. HasAsked(q) /\ start[q] = 0 /\ got[q] = 0
  BY Zenon DEF TicketsCollected, BackfillsCollected, ClientInv, Progress
<1>2. HasAsked(q)'
  BY <1>1, QueryPool, Zenon DEF HasAsked, Lasting
<1>3. ASSUME TicketsCollected(q) PROVE HasAnswer(q)'
  BY <1>3, QueryPool, Zenon DEF TicketsCollected, Finish, Cancelled, HasAnswer, ClientInv, IInv,
     TypeOK, StateTypes
<1>4. ASSUME BackfillsCollected(q) PROVE HasAnswer(q)'
  <2>1. PICK v \in (0 .. version) \cup {Error} : BC!Answer(q[2], v)
    BY <1>4, Zenon DEF BackfillsCollected
  <2>2. v # None
    BY CacheConstants DEF ClientInv, IInv, TypeOK, ValueTypes
  <2>3. bAnswer'[q[2]] # None
    BY <2>1, <2>2, QueryPool, Zenon DEF BC!Answer, ClientInv, ClientTypes
  <2> QED BY <1>2, <1>4, <2>3, Zenon DEF BackfillsCollected, HasAsked, HasAnswer
<1>5. \/ gor'[q] = "offer" /\ got'[q] = Error
      \/ gor'[q] = "stream" /\ got'[q] = got[q]
  BY Zenon DEF TicketsCollected, BackfillsCollected, Collected, ClientInv, ClientTypes
<1>6. start'[q] = 0
  BY <1>1, Zenon DEF TicketsCollected, BackfillsCollected
<1>7. Lesser(0, Rows(q)') = 0
  BY RowsCounted DEF Lesser
<1>8. Lesser(start[q], Rows(q))' = 0
  BY <1>6, <1>7, Zenon DEF Lesser
<1> QED BY <1>1, <1>2, <1>3, <1>4, <1>5, <1>6, <1>8, Zenon DEF Progress

\* A page is the rows that follow those the client has.
LEMMA PageStep ==
    ASSUME ClientInv, Lasting, NEW q \in Queries, Page(q) \/ EndOfPages(q) PROVE Progress(q)'
<1>1. HasAnswer(q) /\ got[q] = Lesser(start[q], Rows(q))
  BY Zenon DEF Page, EndOfPages, ClientInv, Progress
<1>2. HasAsked(q)' /\ HasAnswer(q)' /\ EveryRow(q)' = EveryRow(q)
  BY <1>1, QueryPool, Zenon DEF HasAsked, HasAnswer, EveryRow, Lasting
<1>3. Rows(q)' = Rows(q) /\ Rows(q) \in Nat
  BY <1>2, RowsCounted, Zenon DEF Rows, Results
<1>4. start[q] \in Nat /\ pageSize \in Nat
  BY Zenon DEF ClientInv, ClientTypes
<1>5. ASSUME Page(q) PROVE Progress(q)'
  <2>1. start[q] < Rows(q) /\ start'[q] = start[q] + pageSize
    BY <1>5, Zenon DEF Page, Rows, ClientInv, ClientTypes
  <2>2. got'[q] = got[q] + Lesser(start[q] + pageSize, Rows(q)) - start[q]
    BY <1>5, Zenon DEF Page, PageEnd, Rows, ClientInv, ClientTypes
  <2>3. got'[q] = Lesser(start[q] + pageSize, Rows(q))
    BY <1>1, <1>3, <1>4, <2>1, <2>2 DEF Lesser
  <2>4. got'[q] = Lesser(start[q], Rows(q))'
    BY <1>3, <2>1, <2>3, Zenon DEF Lesser
  <2>5. gor'[q] = "stream"
    BY <1>5, Zenon DEF Page
  <2> QED BY <1>2, <2>4, <2>5, Zenon DEF Progress
<1>6. ASSUME EndOfPages(q) PROVE Progress(q)'
  <2>1. start[q] >= Rows(q) /\ got'[q] = got[q] /\ gor'[q] = "offer"
    BY <1>6, Zenon DEF EndOfPages, Rows, ClientInv, ClientTypes
  <2>2. got'[q] = Rows(q)
    BY <1>1, <1>3, <1>4, <2>1 DEF Lesser
  <2> QED BY <1>2, <1>3, <2>1, <2>2, Zenon DEF Progress
<1> QED BY <1>5, <1>6, Zenon

\* A query that fails gives its client an error, and no rows.
LEMMA FailStep ==
    ASSUME ClientInv, Lasting, NEW q \in Queries, QueryFails(q) PROVE Progress(q)'
<1>1. HasAsked(q)
  BY Zenon DEF QueryFails, ClientInv, Progress, HasAsked, HasAnswer
<1>2. HasAsked(q)'
  BY <1>1, QueryPool, Zenon DEF HasAsked, Lasting
<1>3. gor'[q] = "offer" /\ got'[q] = Error
  BY Zenon DEF QueryFails, ClientInv, ClientTypes
<1> QED BY <1>2, <1>3, Zenon DEF Progress

\* The types of the clients' state, after any step.
LEMMA ClientTypesStep ==
    ASSUME ClientInv, [QueryNext]_queryVars PROVE ClientTypes'
<1>1. bAsked' \in [Pools -> Nat \cup {None}] /\ bAnswer' \in [Pools -> Nat \cup {None, Error}]
  BY CachesLast, Zenon
<1> DEFINE Own == /\ gor' \in [Queries -> Stops] /\ start' \in [Queries -> Nat]
                  /\ got' \in [Queries -> Nat \cup {Error}] /\ pageSize' \in Nat \ {0}
<1> USE DEF ClientInv, ClientTypes, Stops
<1>2. ASSUME NEW q \in Queries, Page(q) PROVE Own
  <2>1. got[q] = Lesser(start[q], Rows(q)) /\ Rows(q) \in Nat
    BY <1>2, RowsCounted, Zenon DEF Page, Progress
  <2>2. start[q] \in Nat /\ pageSize \in Nat /\ start[q] < Rows(q)
    BY <1>2, Zenon DEF Page, Rows
  <2>3. got[q] + Lesser(start[q] + pageSize, Rows(q)) - start[q] \in Nat /\ start[q] + pageSize \in Nat
    BY <2>1, <2>2 DEF Lesser
  <2> QED BY <1>2, <2>3, Zenon DEF Page, PageEnd, Rows, QueryFrame
<1>3. ASSUME NEW q \in Queries, Call(q) \/ EndOfPages(q) \/ QueryFails(q) PROVE Own
  BY <1>3, Zenon DEF Call, EndOfPages, QueryFails, QueryFrame
<1>4. ASSUME NEW q \in Queries, TicketsCollected(q) \/ BackfillsCollected(q) PROVE Own
  BY <1>4, Zenon DEF TicketsCollected, BackfillsCollected, Collected, QueryFrame
<1>5. ASSUME NEW q \in Queries, Collect(q) \/ Abandon(q) PROVE Own
  BY <1>5, Zenon DEF Collect, Abandon, RunFrame
<1>6. ASSUME \/ (StoreChanges /\ UNCHANGED clientVars) \/ Cache \/ CollectCancelled \/ CallerGone
             \/ \E r \in Requests : CacheRequest(r) \/ HandlerEnds(r) \/ HandlerCancelled(r)
             \/ UNCHANGED queryVars
      PROVE  Own
  BY <1>6, Zenon DEF Cache, CollectCancelled, CallerGone, CacheRequest, HandlerEnds,
     HandlerCancelled, RunFrame, clientVars, queryVars
<1>7. Own
  BY <1>2, <1>3, <1>4, <1>5, <1>6, Zenon DEF QueryNext, Query
<1> QED BY <1>1, <1>7, Zenon

\* Every query is as far as its client has rows, after any step.
LEMMA ProgressStep ==
    ASSUME ClientInv, [QueryNext]_queryVars PROVE \A u \in Queries : Progress(u)'
<1> SUFFICES ASSUME NEW u \in Queries PROVE Progress(u)'
  BY Zenon
<1>1. Lasting /\ Progress(u)
  BY CachesLast, Zenon DEF ClientInv
<1> USE DEF ClientInv, ClientTypes
<1>2. ASSUME NEW q \in Queries, Query(q) \/ QueryFails(q) PROVE Progress(u)'
  <2>1. CASE u = q
    BY <1>1, <1>2, <2>1, CallStep, CollectedStep, PageStep, FailStep, Zenon DEF Query
  <2>2. CASE u # q
    <3>1. gor'[u] = gor[u] /\ start'[u] = start[u] /\ got'[u] = got[u]
      BY <1>2, <2>2, Zenon DEF Query, Call, TicketsCollected, BackfillsCollected, Collected, Page,
         EndOfPages, QueryFails
    <3> QED BY <1>1, <3>1, Unaffected, Zenon
  <2> QED BY <2>1, <2>2, Zenon
<1>3. ASSUME NEW q \in Queries, Collect(q) \/ Abandon(q) PROVE Progress(u)'
  <2>1. start'[u] = start[u] /\ got'[u] = got[u]
    BY <1>3, Zenon DEF Collect, Abandon, RunFrame
  <2>2. \/ gor'[u] = gor[u] \/ gor'[u] \in {"ready", "gone"}
        \/ gor[u] = "offer" /\ gor'[u] = "taken"
    BY <1>3, Zenon DEF Collect, Abandon
  <2> QED BY <1>1, <2>1, <2>2, Unaffected, Zenon
<1>4. ASSUME \/ (StoreChanges /\ UNCHANGED clientVars) \/ Cache \/ CollectCancelled \/ CallerGone
             \/ \E r \in Requests : CacheRequest(r) \/ HandlerEnds(r) \/ HandlerCancelled(r)
             \/ UNCHANGED queryVars
      PROVE  Progress(u)'
  <2>1. gor' = gor /\ start' = start /\ got' = got
    BY <1>4, Zenon DEF Cache, CollectCancelled, CallerGone, CacheRequest, HandlerEnds,
       HandlerCancelled, RunFrame, clientVars, queryVars
  <2> QED BY <1>1, <2>1, Unaffected, Zenon
<1> QED BY <1>2, <1>3, <1>4, Zenon DEF QueryNext

\* Before the first query no client has anything.
LEMMA ClientInit == QueryInit => ClientInv
<1> SUFFICES ASSUME QueryInit PROVE ClientInv
  BY Zenon
<1>1. IInv
  BY CacheInit, Zenon DEF QueryInit
<1>2. ClientTypes
  BY PageSizePositive, Zenon DEF QueryInit, ClientTypes, Stops
<1>3. ASSUME NEW q \in Queries PROVE Progress(q)
  <2>1. start[q] = 0 /\ got[q] = 0 /\ gor[q] \in {"ready", "off"}
    BY Zenon DEF QueryInit
  <2> QED BY <2>1, Zenon DEF Progress
<1> QED BY <1>1, <1>2, <1>3, Zenon DEF ClientInv

\* Whatever the page size, and whatever changes or fails meanwhile, a query that succeeds
\* has given its client every entity of the pool in one state of the store, which no
\* update of the cache was writing while the handler read it.
THEOREM QueriesAreWhole == QuerySpec => []AnswersWhole
<1>1. ClientInv /\ [QueryNext]_queryVars => ClientInv'
  <2>1. IInv /\ [Next]_vars => IInv'
    BY StateTypesStep, ValueTypesStep, CountStep, ReadStep, FreshStep, Zenon DEF IInv, TypeOK
  <2> QED BY <2>1, StepsOnCache, ClientTypesStep, ProgressStep, Zenon DEF ClientInv
<1>2. ClientInv => AnswersWhole
  BY Zenon DEF ClientInv, IInv, Progress, Rows, AnswersWhole, PagesComplete
<1> QED BY <1>1, <1>2, ClientInit, PTL DEF QuerySpec

\* The ticket cache keeps its promise to the queries of a run, with any of its clients
\* cancelled on the way.
THEOREM QueriesAreFresh == QuerySpec => FreshAnswers
BY QueriesUseCache, AnswersAreFresh, PTL
=============================================================================
