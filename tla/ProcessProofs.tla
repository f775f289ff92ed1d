--------------------------- MODULE ProcessProofs ---------------------------
(***************************************************************************)
(* Proofs about Clients and Process, for any requests, services, users,    *)
(* configurations and faults, and about the functions of Stubs and         *)
(* RestRoutes.                                                             *)
(*                                                                         *)
(* config.Cacher: an instance never leaks, is never closed under a user    *)
(* without cause, and is what the configuration asks for.  rpc.ClientCache:*)
(* a client is used as long as it fits.  The evaluation over HTTP: nil     *)
(* means that it was whole.  The stubs and the request functions: a        *)
(* request ends in the method of its route, with the id it names.          *)
(*                                                                         *)
(* A process is a process of Clients, so that what is shown of the clients *)
(* holds of it.  GInv relates how far a REST request is in the proxy to    *)
(* what the gRPC server has heard of it.  PInv says which closers there    *)
(* are at every stage of the way up and down.                              *)
(***************************************************************************)
EXTENDS Process, TLAPS

-----------------------------------------------------------------------------
(* The clients.                                                            *)

Cachers == {"synchronizer", "evaluator"}
UseStates == {"idle", "get", "reading", "using", "failed", "done", "GRPC", "HTTP"}

\* The types that the argument needs.
CTypes ==
    /\ kind \in Kinds /\ cfg \in Configs
    /\ r \in [Keys -> Values \cup {Unread}]
    /\ built \in Seq([Keys -> Values \cup {Unread}])
    /\ v \in 0..Len(built)
    /\ use \in [Users -> UseStates]
    /\ has \in [Users -> Nat] /\ entry \in Nat
    /\ clients \in Seq([protocol : Protocols, dialing : SUBSET Users])
    /\ quiet \subseteq Users
    /\ m \in Users \cup {Nobody}

\* Whoever reads the configuration holds the mutex, and nothing is cached then;
\* what is cached was built from the values that r remembers.
LockInv ==
    /\ open = {v} \ {0}
    /\ \A u \in Users : use[u] = "reading" => m = u
    /\ m # Nobody => v = 0
    /\ v = 0 /\ m = Nobody => r = Nothing
    /\ v # 0 => r # Nothing /\ built[v] = r

\* Only the users of a Cacher get, read and reset.
KindInv ==
    \A u \in Users :
       /\ use[u] \in {"get", "reading"} => kind \in Cachers
       /\ use[u] = "failed" => kind = "evaluator"
       /\ use[u] = "using" => kind # "store"
       /\ use[u] \in Protocols => kind = "functions"

\* There is one cycle at a time.
OneCycle ==
    kind = "evaluator" =>
       \A u, w \in Users :
          use[u] \notin {"idle", "done"} /\ use[w] \notin {"idle", "done"} => u = w

\* The user of a Cacher whose instance is still the cached one.
Holds(u) == m = Nobody /\ v # 0 /\ has[u] = v

\* A user that has seen no change reads and uses what the configuration has;
\* a cycle keeps the instance it was given.
UseInv ==
    \A u \in Users :
       /\ use[u] = "reading" /\ u \in quiet => ~hasChanges
       /\ use[u] = "using" /\ kind \in Cachers /\ u \in quiet =>
             Holds(u) /\ ~hasChanges
       /\ use[u] = "using" /\ kind = "evaluator" => Holds(u)

CInv == CTypes /\ LockInv /\ KindInv /\ OneCycle /\ UseInv

\* The process part of the model does not touch the clients.
LEMMA SameClients ==
    ASSUME CInv, UNCHANGED clientVars
    PROVE  CInv'
BY Zenon DEF CInv, CTypes, LockInv, KindInv, OneCycle, UseInv, Holds, clientVars,
       cacherVars, cacheVars, hasChanges, See, SettingOf, Nothing

\* newInstance reads at least one value, and only values that the View has.
LEMMA PathKeys ==
    /\ 1 \in DOMAIN Path /\ Path[1] \in Keys
    /\ \A i \in DOMAIN Path : Path[i] \in Keys
BY DEF Path, Keys, GRPCClientFromConfig, HTTPClientFromConfig,
     newGrpcEvaluator, newHTTPEvaluator

\* What the View returns for a key is a value of the configuration.
LEMMA SeeValues ==
    ASSUME cfg \in Configs, NEW k \in Keys
    PROVE  See(k) \in Values
BY ConfigsAssumption DEF See, SettingOf, Settings, Keys, Values

\* A process starts with an empty Cacher that nobody uses.
LEMMA InitCInv == ClientInit => CInv
BY NobodyAssumption
   DEF ClientInit, CInv, CTypes, LockInv, KindInv, OneCycle, UseInv,
       Nothing, Keys, Kinds, UseStates, Protocols

-----------------------------------------------------------------------------
(* One lemma for every step that changes the Cacher or one of its users.   *)

USE DEF Goes

\* A request, or the one cycle, enters Get.
LEMMA BeginStep ==
    ASSUME CInv, NEW u \in Users, Begin(u)
    PROVE  CInv'
<1>5. UseInv'
  BY Zenon DEF UseInv, CTypes, Holds, hasChanges, See, SettingOf, cacherVars, CInv,
    Begin, UseStates
<1> QED
  BY <1>5 DEF CInv, Begin, UseStates, CTypes, cacherVars, cacheVars, LockInv,
    Nothing, KindInv, Cachers, Protocols, OneCycle

\* Get returns the cached instance: it is not stale.
LEMMA CachedStep ==
    ASSUME CInv, NEW u \in Users, GetCached(u)
    PROVE  CInv'
<1>6. UseInv'
  BY Zenon DEF UseInv, CTypes, Holds, hasChanges, See, SettingOf, cacherVars, CInv,
    GetCached, StartUse, UseStates, LockInv, Stale
<1> QED
  BY <1>6 DEF CInv, GetCached, StartUse, UseStates, CTypes, cacherVars, cacheVars,
    LockInv, Nothing, KindInv, Cachers, Protocols, OneCycle

\* Get finds the instance stale; whoever still uses it has seen the change.
LEMMA AnewStep ==
    ASSUME CInv, NEW u \in Users, GetAnew(u)
    PROVE  CInv'
<1>1. \A w \in Users : use[w] = "using" =>
         kind # "evaluator" /\ (kind \in Cachers => w \notin quiet)
  BY Zenon DEF CInv, UseInv, Holds, OneCycle, LockInv, GetAnew, Stale
<1>2. ~hasChanges'
  BY Zenon DEF GetAnew, locklessReset, hasChanges, Nothing, Keys
<1>3. UseInv'
  BY <1>1, <1>2, Zenon DEF UseInv, CTypes, CInv, GetAnew, UseStates
<1> QED
  BY <1>3, NobodyAssumption DEF CInv, GetAnew, UseStates, locklessReset, CTypes,
    Nothing, cacheVars, LockInv, KindInv, Cachers, Protocols, OneCycle

\* The change detector remembers the value that it returns.
LEMMA ReadStep ==
    ASSUME CInv, NEW u \in Users, Read(u)
    PROVE  CInv'
<1>1. PICK i \in Unseen : r' = [r EXCEPT ![Path[i]] = See(Path[i])]
  BY Zenon DEF Read
<1>2. Path[i] \in Keys
  BY <1>1, PathKeys, Zenon DEF Unseen
<1>3. See(Path[i]) \in Values
  BY <1>2, SeeValues, Zenon DEF CTypes, CInv
<1>4. r' \in [Keys -> Values \cup {Unread}]
  BY <1>1, <1>2, <1>3, Zenon DEF CTypes, CInv
<1>5. UNCHANGED <<kind, cfg, m, v, built, open, use, has, quiet, entry, clients>>
  BY Zenon DEF Read, cacheVars
<1>6. UseInv'
  BY <1>1, <1>2, <1>5 DEF CInv, Read, CTypes, UseInv, LockInv, Holds, hasChanges,
    See, SettingOf
<1> QED
  BY <1>4, <1>5, <1>6, NobodyAssumption, Zenon DEF CInv, Read, CTypes, LockInv, KindInv,
    OneCycle

\* Get caches what it built from the values that r remembers.
LEMMA BuildStep ==
    ASSUME CInv, NEW u \in Users, Build(u)
    PROVE  CInv'
<1>1. /\ built' \in Seq([Keys -> Values \cup {Unread}])
      /\ Len(built') = Len(built) + 1
      /\ built'[Len(built) + 1] = r
      /\ Len(built) \in Nat
  BY DEF CTypes, CInv, Build, StartUse, UseStates
<1>4. v = 0 /\ m = u
  BY NobodyAssumption, Zenon DEF LockInv, CInv, Build, StartUse, UseStates
<1>5. \A w \in Users : w # u => use'[w] # "reading"
  BY <1>4, Zenon DEF LockInv, CTypes, CInv, Build, StartUse, UseStates
<1>7. KindInv'
  BY Zenon DEF KindInv, CTypes, Cachers, Protocols, CInv, Build, StartUse, UseStates
<1>12. UseInv'
  BY <1>5, <1>4, NobodyAssumption, <1>1 DEF UseInv, CTypes, CInv, Build, StartUse,
    UseStates, Holds, hasChanges, See, SettingOf
<1> QED
  BY <1>7, <1>12, <1>1, <1>4, <1>5, PathKeys DEF CInv, Build, StartUse, UseStates,
    CTypes, cacheVars, LockInv, Unseen, Nothing, OneCycle

\* Both a failed build and ForceReset leave the Cacher empty and unlocked.
LEMMA ResetStep ==
    ASSUME CInv, NEW u \in Users, BuildFails(u) \/ ForceReset(u)
    PROVE  CInv'
<1>0. /\ locklessReset /\ m' = Nobody /\ m \in {u, Nobody}
      /\ use[u] \in {"reading", "failed"} /\ Goes(u, "done")
      /\ use[u] = "failed" => m = Nobody
      /\ UNCHANGED <<kind, cfg, has, quiet, cacheVars>>
  BY Zenon DEF BuildFails, ForceReset, ReturnError, LockInv
<1>6. \A w \in Users : use[w] = "using" =>
         kind # "evaluator" /\ (kind \in Cachers => w \notin quiet)
  <2>1. CASE use[u] = "reading"
    BY <2>1, NobodyAssumption, Zenon DEF UseInv, Holds, LockInv, CInv, UseStates
  <2>2. CASE use[u] = "failed"
    BY <2>2, Zenon DEF OneCycle, KindInv, CInv, UseStates
  <2> QED BY <1>0, <2>1, <2>2, Zenon
<1> QED
  BY <1>0, <1>6, NobodyAssumption DEF CInv, UseStates, CTypes, Nothing,
    locklessReset, cacheVars, LockInv, KindInv, Cachers, Protocols, OneCycle, UseInv

\* The end of a call leaves the Cacher alone.
LEMMA EndStep ==
    ASSUME CInv, NEW u \in Users, UseEnds(u) \/ UseFails(u) \/ DialFails(u)
    PROVE  CInv'
<1>1. PICK s \in {"done", "failed"} :
         Goes(u, s) /\ (s = "failed" => kind = "evaluator")
  BY Zenon DEF UseEnds, UseFails, DialFails
<1>2. /\ UNCHANGED <<kind, cfg, m, r, v, built, open, has, quiet, entry, clients>>
      /\ use[u] \in {"using", "GRPC", "HTTP"}
  BY Zenon DEF UseEnds, UseFails, DialFails, Protocols, cacherVars, cacheVars
<1>3. \A w \in Users : use'[w] = IF w = u THEN s ELSE use[w]
  BY <1>1, Zenon DEF CInv, CTypes
<1>4. CTypes'
  BY <1>1, <1>2, Zenon DEF CInv, CTypes, UseStates
<1>5. LockInv' /\ KindInv' /\ OneCycle'
  <2>1. LockInv'
    BY <1>2, <1>3, Zenon DEF CInv, LockInv, Nothing
  <2>2. KindInv'
    BY <1>1, <1>2, <1>3, Zenon DEF CInv, KindInv, Cachers, Protocols
  <2>3. OneCycle'
    BY <1>2, <1>3, Zenon DEF CInv, OneCycle
  <2> QED BY <2>1, <2>2, <2>3, Zenon
<1>6. UseInv'
  BY <1>2, <1>3, Zenon DEF CInv, UseInv, Holds, hasChanges, See, SettingOf
<1> QED BY <1>4, <1>5, <1>6, Zenon DEF CInv

\* A ClientCache has no Cacher in it.
LEMMA CacheStep ==
    ASSUME CInv, NEW u \in Users,
           (\E protocol \in Protocols : Load(u, protocol)) \/ Store(u)
    PROVE  CInv'
<1>0. /\ UNCHANGED <<kind, cfg, cacherVars, quiet>>
      /\ kind = "functions"
      /\ \E s \in {"using", "GRPC", "HTTP"} : Goes(u, s)
  BY Zenon DEF Load, Store, Protocols, KindInv, CInv, UseStates
<1>1. CTypes'
  <2>1. CASE \E protocol \in Protocols : Load(u, protocol)
    BY <1>0, <2>1 DEF CTypes, cacherVars, cacheVars, Load, CInv, UseStates
  <2>2. CASE Store(u)
    BY <1>0, <2>2 DEF CTypes, cacherVars, CInv, UseStates, Store, Dialing
  <2> QED BY <2>1, <2>2, Zenon
<1> QED
  BY <1>1, <1>0 DEF CInv, UseStates, LockInv, CTypes, cacherVars, Nothing, OneCycle,
    UseInv, KindInv, Cachers, Protocols

\* After a change of the configuration no user is quiet.
LEMMA ChangeStep ==
    ASSUME CInv, ChangeConfig
    PROVE  CInv'
BY Zenon DEF CInv, ChangeConfig, CTypes, LockInv, KindInv, OneCycle, UseInv, Holds,
       cacherVars, cacheVars, Nothing

-----------------------------------------------------------------------------
(* The theorems.                                                           *)

\* Every step of a call keeps the invariant.
LEMMA CallStep ==
    ASSUME CInv, NEW u \in Users, Calls(u)
    PROVE  CInv'
<1>1. CASE HttpStep(u)
  BY <1>1, Zenon DEF HttpStep, CInv, CTypes, LockInv, KindInv, OneCycle, UseInv, Holds,
    cacherVars, cacheVars, hasChanges, See, SettingOf, Nothing
<1> QED
  BY <1>1, BeginStep, CachedStep, AnewStep, ReadStep, BuildStep, ResetStep, EndStep,
    CacheStep, Zenon DEF Calls

\* What a step of a call leaves alone: the cache of clients, unless it loads
\* from it or stores into it, and the evaluations over HTTP, unless it is part of
\* one or may start one.
CallFrame(u) ==
    /\ UNCHANGED <<kind, cfg, changes>> /\ quiet \subseteq quiet'
    /\ \/ Store(u) \/ \E protocol \in Protocols : Load(u, protocol)
       \/ /\ UNCHANGED cacheVars
          /\ \A w \in Users : use'[w] \in Protocols => use'[w] = use[w]
    /\ \/ HttpStep(u) \/ GetCached(u) \/ Build(u)
       \/ /\ UNCHANGED evaluateVars
          /\ \A w \in Users : use'[w] \in {"idle", "get", "reading"} =>
                use[w] \in {"idle", "get", "reading"}

\* Every step of a call is such a step.
LEMMA CallSteps ==
    ASSUME CInv, NEW u \in Users, Calls(u)
    PROVE  CallFrame(u)
<1>0. use \in [Users -> UseStates]
  BY Zenon DEF CInv, CTypes
<1> USE <1>0 DEF CallFrame, Protocols
<1>1. Begin(u) \/ GetAnew(u) \/ Read(u) \/ BuildFails(u) => CallFrame(u)
  BY Zenon DEF Begin, GetAnew, Read, BuildFails, ReturnError
<1>2. UseEnds(u) \/ UseFails(u) \/ ForceReset(u) \/ DialFails(u) => CallFrame(u)
  BY Zenon DEF UseEnds, UseFails, ForceReset, DialFails
<1>3. GetCached(u) \/ Build(u) \/ HttpStep(u) => CallFrame(u)
  BY Zenon DEF GetCached, Build, StartUse, HttpStep
<1>4. Store(u) \/ (\E protocol \in Protocols : Load(u, protocol)) => CallFrame(u)
  BY Zenon DEF Load, Store
<1> HIDE DEF CallFrame, Protocols
<1> QED BY <1>1, <1>2, <1>3, <1>4, Zenon DEF Calls

\* Every step of the clients keeps the invariant.
LEMMA CInvStep == CInv /\ [ClientNext]_clientVars => CInv'
BY CallStep, ChangeStep, SameClients, Zenon DEF ClientNext

\* The clients of a process by themselves.
ClientSpec == ClientInit /\ [][ClientNext]_clientVars

\* The invariant holds for the Cacher of any process, with any number of users
\* and any changes of the configuration.
THEOREM CacherInvariant == ClientSpec => []CInv
BY InitCInv, CInvStep, PTL DEF ClientSpec

\* However users, failures and configuration changes interleave, a Cacher
\* closes every instance that it gives up, and only the cached one is open.
THEOREM NoLeak == ClientSpec => []NoInstanceLeaks
<1>1. CInv => NoInstanceLeaks
  BY Zenon DEF CInv, LockInv, NoInstanceLeaks
<1> QED BY <1>1, CacherInvariant, PTL

\* A user of a Cacher loses its instance only after a change of the
\* configuration, and a cycle never does.
THEOREM Cause == ClientSpec => []ClosedForCause
<1>1. CInv => ClosedForCause
  BY Zenon DEF CInv, CTypes, LockInv, KindInv, UseInv, Holds, Cachers, Kinds,
    ClosedForCause
<1> QED BY <1>1, CacherInvariant, PTL

\* A Get during which nothing changes returns an instance that was built from
\* the present configuration.
THEOREM Current == ClientSpec => GetIsCurrent
<1>1. CInv /\ CInv' /\ [ClientNext]_clientVars =>
         [\A u \in quiet : use[u] \in {"get", "reading"} /\ use'[u] = "using" =>
             \A k \in Keys : built'[has'[u]][k] \in {Unread, See(k)}]_clientVars
  <2> SUFFICES ASSUME CInv, CInv', ClientNext, NEW u \in quiet,
                      use[u] \in {"get", "reading"}, use'[u] = "using",
                      NEW k \in Keys
               PROVE  built'[has'[u]][k] \in {Unread, See(k)}
    BY Zenon
  <2>1. u \in Users /\ use'[u] # use[u]
    BY Zenon DEF CInv, CTypes
  <2>3. PICK w \in Users : Calls(w)
    BY <2>1, Zenon DEF ClientNext, ChangeConfig
  <2>4. kind' = kind /\ cfg' = cfg /\ quiet \subseteq quiet'
    BY <2>3, CallSteps, Zenon DEF CallFrame
  <2> QED
    BY <2>4, <2>1 DEF hasChanges, See, SettingOf, CInv, LockInv, Holds, KindInv,
      UseInv
<1> QED BY <1>1, CacherInvariant, PTL DEF ClientSpec, GetIsCurrent

-----------------------------------------------------------------------------
(* The cache of the clients of match functions.                            *)

\* A user that missed was either dialing already when the present client was
\* stored, or wants the other protocol.
FitInv ==
    /\ entry \in 0..Len(clients)
    /\ \A u \in Users : use[u] \in Protocols /\ entry # 0 =>
          clients[entry].protocol # use[u] \/ u \in clients[entry].dialing

\* Loading misses only what does not fit, and whoever stores a client writes
\* down who is dialing.
LEMMA FitStep == CInv /\ FitInv /\ [ClientNext]_clientVars => FitInv'
<1> SUFFICES ASSUME CInv, FitInv, [ClientNext]_clientVars PROVE FitInv'
  BY Zenon
<1>1. UNCHANGED clientVars \/ ChangeConfig => FitInv'
  BY Zenon DEF clientVars, cacheVars, ChangeConfig, CInv, CTypes, FitInv, Protocols
<1>2. ASSUME NEW u \in Users, Store(u) PROVE FitInv'
  <2>1. /\ entry' = Len(clients') /\ entry' # 0
        /\ clients'[entry'].dialing = Dialing
    BY <1>2 DEF CInv, CTypes, Store
  <2> QED BY <1>2, <2>1 DEF CInv, CTypes, FitInv, Protocols, Store, Dialing
<1>3. ASSUME NEW u \in Users, NEW protocol \in Protocols, Load(u, protocol)
      PROVE  FitInv'
  BY <1>3, Zenon DEF Load, Found, cacheVars, CInv, CTypes, FitInv, Protocols
<1>4. /\ UNCHANGED cacheVars
      /\ \A w \in Users : use'[w] \in Protocols => use'[w] = use[w]
      => FitInv'
  BY Zenon DEF cacheVars, CInv, CTypes, FitInv, Protocols
<1> QED BY <1>1, <1>2, <1>3, <1>4, CallSteps, Zenon DEF ClientNext, CallFrame

\* Whoever dials for a client that fits was dialing when it was stored.
LEMMA FitInvariant == ClientSpec => []FitInv
<1>1. ClientInit => FitInv
  BY DEF ClientInit, FitInv, Protocols
<1> QED BY <1>1, FitStep, CacherInvariant, PTL DEF ClientSpec

\* GetGRPC and GetHTTP replace a client that fits only in a race of calls that
\* all found none, and return a client of their own protocol, for any number of
\* callers and however their dialing overlaps.
THEOREM Fits == ClientSpec => CacheFits
<1>1. CInv /\ FitInv /\ [ClientNext]_clientVars =>
        [\A u \in Users : entry # 0 /\ Store(u) =>
           \/ clients[entry].protocol # use[u]
           \/ u \in clients[entry].dialing]_clientVars
  BY Zenon DEF FitInv, Store
<1>2. CInv /\ FitInv /\ [ClientNext]_clientVars =>
        [\A u \in Users, protocol \in Protocols :
           Load(u, protocol) /\ use'[u] = "using" =>
              clients[has'[u]].protocol = protocol]_clientVars
  BY Zenon DEF CInv, CTypes, Load, Found, Protocols
<1> QED
  BY <1>1, <1>2, FitInvariant, CacherInvariant, PTL DEF ClientSpec, CacheFits,
    ReplacedOnlyByRacers, OwnProtocol

-----------------------------------------------------------------------------
(* The evaluation over HTTP.                                               *)

\* Where evaluate and its two goroutines are together.
HttpInv ==
    /\ EvaluateTypes
    /\ \A u \in Users :
          /\ use[u] \in {"idle", "get", "reading"} => main[u] = "off"
          /\ main[u] = "off" => sender[u] = "off"
          /\ main[u] \in {"off", "do"} => receiver[u] = "off" /\ rc[u] = "empty"
          /\ main[u] # "error" => sc[u] # "closed"
          /\ sender[u] = "done" => left[u] = 0 \/ sc[u] = "error" \/ main[u] = "error"
          /\ main[u] = "ok" => sender[u] = "done" /\ receiver[u] = "done"
                                /\ sc[u] = "empty" /\ rc[u] = "empty"

\* A call starts its evaluation before any of its goroutines runs.
LEMMA StartHttpStep ==
    ASSUME CInv, HttpInv, NEW u \in Users, use[u] \in {"get", "reading"},
           NEW i, NEW values, StartUse(u, i, values)
    PROVE  HttpInv'
<1>1. CASE StartEvaluate(u)
  BY <1>1, ProposalsAssumption DEF StartUse, StartEvaluate, CInv, CTypes, UseStates,
    HttpInv, EvaluateTypes
<1>2. CASE UNCHANGED evaluateVars
  BY <1>2 DEF StartUse, evaluateVars, CInv, CTypes, UseStates, HttpInv,
    EvaluateTypes
<1> QED BY <1>1, <1>2, Zenon DEF StartUse

\* Every step of the evaluation keeps the invariant.
LEMMA HttpStepStep ==
    ASSUME HttpInv, NEW u \in Users, HttpStep(u)
    PROVE  HttpInv'
<1> USE ProposalsAssumption DEF HttpInv, EvaluateTypes, HttpStep
<1>1. Respond(u) \/ DoFails(u) \/ Take(u) \/ Drain(u) => HttpInv'
  BY DEF Respond, DoFails, Take, Drain
<1>2. PipeWrite(u) \/ SenderEnds(u) => HttpInv'
  BY DEF PipeWrite, SenderEnds
<1>3. ReceiverEnds(u) => HttpInv'
  BY DEF ReceiverEnds
<1>4. Finish(u) => HttpInv'
  BY DEF Finish, WaitGroupDone
<1> HIDE DEF HttpInv, EvaluateTypes
<1> QED BY <1>1, <1>2, <1>3, <1>4, Zenon DEF EvaluateStep

\* HttpInv is inductive relative to the invariant of the Cacher.
LEMMA HttpInvStep == CInv /\ HttpInv /\ [ClientNext]_clientVars => HttpInv'
<1> SUFFICES ASSUME CInv, HttpInv, [ClientNext]_clientVars PROVE HttpInv'
  BY Zenon
<1>1. UNCHANGED clientVars \/ ChangeConfig => HttpInv'
  BY DEF clientVars, ChangeConfig, evaluateVars, HttpInv, EvaluateTypes
<1>2. ASSUME NEW u \in Users, GetCached(u) \/ Build(u) PROVE HttpInv'
  BY <1>2, StartHttpStep, Zenon DEF GetCached, Build
<1>3. /\ UNCHANGED evaluateVars
      /\ \A w \in Users : use'[w] \in {"idle", "get", "reading"} =>
            use[w] \in {"idle", "get", "reading"}
      => HttpInv'
  BY DEF evaluateVars, HttpInv, EvaluateTypes
<1> QED BY Zenon, <1>1, <1>2, <1>3, HttpStepStep, CallSteps DEF ClientNext, CallFrame

\* Every evaluation over HTTP is typed and in step with its goroutines.
LEMMA HttpInvariant == ClientSpec => []HttpInv
<1>1. ClientInit => HttpInv
  BY ProposalsAssumption DEF ClientInit, EvaluateInit, HttpInv, EvaluateTypes
<1> QED BY <1>1, HttpInvStep, CacherInvariant, PTL DEF ClientSpec

\* An evaluation over HTTP that returns nil has written all its proposals and
\* read the whole response, for any number of proposals and cycles.
THEOREM HttpWhole == ClientSpec => []HttpOkIsWhole
<1>1. HttpInv => HttpOkIsWhole
  BY Zenon DEF HttpInv, HttpOkIsWhole
<1> QED BY <1>1, HttpInvariant, PTL

\* The clients are typed as Clients says.
THEOREM TypedClients == ClientSpec => []ClientTypes
<1> DEFINE ChangesInv == changes \in 0..MaxChanges
<1>1. ClientInit => ChangesInv
  BY ChangesAssumption DEF ClientInit
<1>2. CInv /\ ChangesInv /\ [ClientNext]_clientVars => ChangesInv'
  BY CallSteps, ChangesAssumption DEF ClientNext, CallFrame, ChangeConfig, clientVars
<1>3. CInv /\ ChangesInv /\ FitInv /\ HttpInv => ClientTypes
  BY DEF CInv, CTypes, LockInv, FitInv, HttpInv, ClientTypes, UseStates, Protocols
<1> HIDE DEF ChangesInv
<1> QED
  BY <1>1, <1>2, <1>3, CacherInvariant, FitInvariant, HttpInvariant, PTL DEF ClientSpec

-----------------------------------------------------------------------------
(* The stubs: a client method ends in the server method of its name.       *)

\* The methods of each client.
LEMMA Owned ==
    /\ DOMAIN frontendServiceClient =
         {"CreateTicket", "DeleteTicket", "GetTicket", "WatchAssignments",
          "AcknowledgeBackfill", "CreateBackfill", "DeleteBackfill", "GetBackfill",
          "UpdateBackfill"}
    /\ DOMAIN backendServiceClient =
         {"FetchMatches", "AssignTickets", "ReleaseTickets", "ReleaseAllTickets"}
    /\ DOMAIN queryServiceClient = {"QueryTickets", "QueryTicketIds", "QueryBackfills"}
    /\ DOMAIN matchFunctionClient = {"Run"}
    /\ DOMAIN evaluatorClient = {"Evaluate"}
BY Zenon DEF frontendServiceClient, backendServiceClient, queryServiceClient,
       matchFunctionClient, evaluatorClient

\* The services by name.
Frontend == [client |-> frontendServiceClient, desc |-> FrontendService_serviceDesc,
             handlers |-> {TicketHandlers, BackfillHandlers}]
Backend == [client |-> backendServiceClient, desc |-> BackendService_serviceDesc,
            handlers |-> {BackendHandlers}]
Query == [client |-> queryServiceClient, desc |-> QueryService_serviceDesc,
          handlers |-> {QueryHandlers}]
Function == [client |-> matchFunctionClient, desc |-> MatchFunction_serviceDesc,
             handlers |-> {RunHandler}]
Eval == [client |-> evaluatorClient, desc |-> Evaluator_serviceDesc,
         handlers |-> {EvaluateHandler}]

\* There are five services.
LEMMA Services5 ==
    /\ PublicServices = {Frontend, Backend, Query, Function, Eval}
    /\ Frontend.client = frontendServiceClient
    /\ Backend.client = backendServiceClient
    /\ Query.client = queryServiceClient /\ Function.client = matchFunctionClient
    /\ Eval.client = evaluatorClient
BY Zenon DEF PublicServices, Frontend, Backend, Query, Function, Eval

\* A method belongs to the service whose client has it.
LEMMA Owner ==
    /\ \A m1 \in DOMAIN frontendServiceClient : ServiceOf(m1) = Frontend
    /\ \A m1 \in DOMAIN backendServiceClient : ServiceOf(m1) = Backend
    /\ \A m1 \in DOMAIN queryServiceClient : ServiceOf(m1) = Query
    /\ \A m1 \in DOMAIN matchFunctionClient : ServiceOf(m1) = Function
    /\ \A m1 \in DOMAIN evaluatorClient : ServiceOf(m1) = Eval
<1>1. ASSUME NEW m1 \in DOMAIN frontendServiceClient PROVE ServiceOf(m1) = Frontend
  BY Services5, Owned, Zenon DEF ServiceOf
<1>2. ASSUME NEW m1 \in DOMAIN backendServiceClient PROVE ServiceOf(m1) = Backend
  BY Services5, Owned, Zenon DEF ServiceOf
<1>3. ASSUME NEW m1 \in DOMAIN queryServiceClient PROVE ServiceOf(m1) = Query
  BY Services5, Owned, Zenon DEF ServiceOf
<1>4. ASSUME NEW m1 \in DOMAIN matchFunctionClient PROVE ServiceOf(m1) = Function
  BY Services5, Owned, Zenon DEF ServiceOf
<1>5. ASSUME NEW m1 \in DOMAIN evaluatorClient PROVE ServiceOf(m1) = Eval
  BY Services5, Owned, Zenon DEF ServiceOf
<1> QED BY <1>1, <1>2, <1>3, <1>4, <1>5, Zenon

\* A stream is found by its name among the streams.
LEMMA StreamEntry ==
    ASSUME NEW desc, NEW i \in DOMAIN desc.Streams,
           desc.Streams[i].name \notin DOMAIN desc.Methods,
           \A j \in DOMAIN desc.Streams :
              desc.Streams[j].name = desc.Streams[i].name => desc.Streams[j] = desc.Streams[i]
    PROVE  EntryFor(desc, desc.Streams[i].name) = desc.Streams[i]
BY Zenon DEF EntryFor

\* A table is searched under the name that only it has.
LEMMA FindIn ==
    ASSUME NEW tables, NEW t \in tables, NEW name \in DOMAIN t,
           \A x \in tables : name \in DOMAIN x => x = t
    PROVE  Find(tables, name) = t[name]
BY Zenon DEF Find

\* The same, for a single table.
LEMMA OneTable ==
    ASSUME NEW t, NEW name \in DOMAIN t
    PROVE  Find({t}, name) = t[name]
BY Zenon DEF Find

\* The handlers of the frontend call the method that the path names.
LEMMA FrontendHandled ==
    \A x \in DOMAIN frontendServiceClient : HandledBy(Frontend, x) = x
<1> DEFINE D == FrontendService_serviceDesc
<1>0. Frontend.desc = D /\ Frontend.handlers = {TicketHandlers, BackfillHandlers}
  BY Zenon DEF Frontend
<1>d. /\ DOMAIN TicketHandlers =
           {"CreateTicket_Handler", "DeleteTicket_Handler", "GetTicket_Handler",
            "WatchAssignments_Handler"}
      /\ DOMAIN BackfillHandlers =
           {"AcknowledgeBackfill_Handler", "CreateBackfill_Handler",
            "DeleteBackfill_Handler", "GetBackfill_Handler", "UpdateBackfill_Handler"}
  BY Zenon DEF TicketHandlers, BackfillHandlers
<1>t. ASSUME NEW x, NEW h \in DOMAIN TicketHandlers,
             EntryFor(D, x).handler = h, TicketHandlers[h] = x
      PROVE  HandledBy(Frontend, x) = x
  BY <1>0, <1>d, <1>t, FindIn DEF HandledBy
<1>b. ASSUME NEW x, NEW h \in DOMAIN BackfillHandlers,
             EntryFor(D, x).handler = h, BackfillHandlers[h] = x
      PROVE  HandledBy(Frontend, x) = x
  BY <1>0, <1>d, <1>b, FindIn DEF HandledBy
<1> QED
  BY Owned, <1>t, <1>d, <1>b, StreamEntry DEF FrontendService_serviceDesc, Method,
    EntryFor, TicketHandlers, BackfillHandlers, ServerStream

\* So do those of the query service, whose three streams differ by name.
LEMMA QueryHandled ==
    \A x \in DOMAIN queryServiceClient : HandledBy(Query, x) = x
<1> DEFINE D == QueryService_serviceDesc
<1>3. \A x \in DOMAIN queryServiceClient : \E h \in DOMAIN QueryHandlers :
         EntryFor(D, x).handler = h /\ QueryHandlers[h] = x
  BY Owned, StreamEntry DEF QueryHandlers, ServerStream, QueryService_serviceDesc
<1> QED BY <1>3, OneTable DEF HandledBy, Query

\* So do those of the backend.
LEMMA BackendHandled ==
    \A x \in DOMAIN backendServiceClient : HandledBy(Backend, x) = x
<1> DEFINE D == BackendService_serviceDesc
<1>4. \A x \in DOMAIN backendServiceClient : \E h \in DOMAIN BackendHandlers :
         EntryFor(D, x).handler = h /\ BackendHandlers[h] = x
  BY Owned, StreamEntry DEF BackendHandlers, ServerStream,
    BackendService_serviceDesc, Method, EntryFor
<1> QED BY <1>4, OneTable DEF HandledBy, Backend

\* So do those of match functions and evaluators.
LEMMA OthersHandled ==
    HandledBy(Function, "Run") = "Run" /\ HandledBy(Eval, "Evaluate") = "Evaluate"
<1>3. /\ RunHandler["Run_Handler"] = "Run"
      /\ EvaluateHandler["Evaluate_Handler"] = "Evaluate"
      /\ "Run_Handler" \in DOMAIN RunHandler
      /\ "Evaluate_Handler" \in DOMAIN EvaluateHandler
  BY Zenon DEF RunHandler, EvaluateHandler
<1> QED
  BY <1>3, OneTable, StreamEntry DEF HandledBy, Function, Eval, ServerStream,
    BothStream, MatchFunction_serviceDesc, Evaluator_serviceDesc

\* Every client method calls the path of its own name.
LEMMA Paths ==
    /\ \A x \in DOMAIN frontendServiceClient : frontendServiceClient[x].path = x
    /\ \A x \in DOMAIN backendServiceClient : backendServiceClient[x].path = x
    /\ \A x \in DOMAIN queryServiceClient : queryServiceClient[x].path = x
    /\ matchFunctionClient["Run"].path = "Run"
    /\ evaluatorClient["Evaluate"].path = "Evaluate"
BY Owned DEF frontendServiceClient, Invoke, NewStream, backendServiceClient,
  queryServiceClient, matchFunctionClient, evaluatorClient

\* The reverse proxy has a route for every method of the public services.
LEMMA EveryRoute ==
    Routes = DOMAIN frontendServiceClient \cup DOMAIN backendServiceClient
             \cup DOMAIN queryServiceClient \cup DOMAIN matchFunctionClient
             \cup DOMAIN evaluatorClient
BY Owned, Zenon DEF Routes, Streams, ByPath

\* A call ends in the server method of the same name.
LEMMA OwnMethod == \A x \in Routes : Served(x) = x
<1>1. ASSUME NEW x \in DOMAIN frontendServiceClient PROVE Served(x) = x
  BY Owner, Services5, Paths, FrontendHandled, Zenon DEF Served, ServedBy
<1>2. ASSUME NEW x \in DOMAIN backendServiceClient PROVE Served(x) = x
  BY Owner, Services5, Paths, BackendHandled, Zenon DEF Served, ServedBy
<1>3. ASSUME NEW x \in DOMAIN queryServiceClient PROVE Served(x) = x
  BY Owner, Services5, Paths, QueryHandled, Zenon DEF Served, ServedBy
<1> QED
  BY <1>1, <1>2, <1>3, EveryRoute, Owned, Owner, Services5, Paths, OthersHandled DEF
    Served, ServedBy

\* Only the client of Evaluate streams.
LEMMA OneClientStream == \A x \in Routes : ClientStreams(x) <=> x = "Evaluate"
<1>0. /\ ~Frontend.desc.Streams[1].client /\ ~Backend.desc.Streams[1].client
      /\ \A i \in 1..3 : ~Query.desc.Streams[i].client
      /\ ~Function.desc.Streams[1].client /\ Eval.desc.Streams[1].client
  BY DEF Frontend, Backend, Query, Function, Eval, FrontendService_serviceDesc,
    BackendService_serviceDesc, QueryService_serviceDesc, MatchFunction_serviceDesc,
    Evaluator_serviceDesc, ServerStream, BothStream
<1>1. /\ \A x \in DOMAIN Frontend.client : Frontend.client[x].position \in {0, 1}
      /\ \A x \in DOMAIN Backend.client : Backend.client[x].position \in {0, 1}
      /\ \A x \in DOMAIN Query.client : Query.client[x].position \in 1..3
      /\ Function.client["Run"].position = 1 /\ Eval.client["Evaluate"].position = 1
  BY Services5, Owned DEF frontendServiceClient, backendServiceClient,
    queryServiceClient, matchFunctionClient, evaluatorClient, Invoke, NewStream
<1>2. \A x \in DOMAIN Frontend.client : ~StreamOf(Frontend, x)
  BY <1>0, <1>1 DEF StreamOf, StreamAt
<1>3. \A x \in DOMAIN Backend.client : ~StreamOf(Backend, x)
  BY <1>0, <1>1 DEF StreamOf, StreamAt
<1>4. \A x \in DOMAIN Query.client : ~StreamOf(Query, x)
  BY <1>0, <1>1, Zenon DEF StreamOf, StreamAt
<1>5. ~StreamOf(Function, "Run") /\ StreamOf(Eval, "Evaluate")
  BY <1>0, <1>1 DEF StreamOf, StreamAt
<1> QED
  BY <1>2, <1>3, <1>4, <1>5, EveryRoute, Owned, Owner, Services5 DEF ClientStreams

-----------------------------------------------------------------------------
(* The request functions of the reverse proxy.                             *)

\* The id that message i of a REST request is to name.
IdOf(http, i) ==
    IF http.route \in ByPath THEN http.id
    ELSE IF http.body = <<>> THEN "" ELSE http.body[i]

\* What a request function may return.
Right(http, res) ==
    /\ res.code \in {"OK", "InvalidArgument", "Unknown"}
    /\ res.code = "OK" =>
          IF http.route = "Evaluate" /\ http.body = <<>> THEN res.messages = <<>>
          ELSE /\ IdOf(http, 1) \in Ids
               /\ res.messages = <<[method |-> http.route, id |-> IdOf(http, 1)]>>

\* What a REST request consists of.
LEMMA RestTypes ==
    ASSUME NEW http \in Rests
    PROVE  /\ http.route \in Routes /\ http.id \in Ids
           /\ http.body \in Seq(Ids \cup {"bad"})
           /\ http.body # <<>> => http.body[1] \in Ids \cup {"bad"}
           /\ "bad" \notin Ids
<1>1. /\ http.route \in Routes /\ http.id \in Ids
      /\ http.body \in Seq(Ids \cup {"bad"})
  BY RestsAssumption, Zenon
<1>2. http.body # <<>> => http.body[1] \in Ids \cup {"bad"}
  BY <1>1
<1> QED BY <1>1, <1>2, Zenon DEF Ids

\* A request function that decodes the body returns what was asked.
LEMMA BodyRight ==
    ASSUME NEW http \in Rests, http.route \notin ByPath \cup {"Evaluate"}
    PROVE  Right(http, FromBody(http.route, http))
BY RestTypes, Zenon DEF Right, IdOf, FromBody, Sends, Refused, Ids

\* So does one that takes the id from the path.
LEMMA PathRight ==
    ASSUME NEW http \in Rests, http.route \in ByPath
    PROVE  Right(http, FromPath(http.route, http)) /\ Right(http, FromBoth(http.route, http))
BY RestTypes, Zenon DEF Right, IdOf, FromPath, FromBoth, Sends, Refused, Ids, ByPath

\* So does the one that opens the stream of Evaluate.
LEMMA EvaluateRight ==
    ASSUME NEW http \in Rests, http.route = "Evaluate"
    PROVE  Right(http, request_Evaluator_Evaluate(http))
<1> DEFINE res == request_Evaluator_Evaluate(http)
<1> USE Zenon DEF request_Evaluator_Evaluate
<1>1. http.route \notin ByPath
  BY Zenon DEF ByPath
<1>2. http.body = <<>> => res.code = "OK" /\ res.messages = <<>>
  BY Zenon
<1>3. http.body # <<>> /\ http.body[1] = "bad" => res.code = "Unknown" /\ "Unknown" # "OK"
  BY Zenon DEF Refused
<1>4. http.body # <<>> /\ http.body[1] # "bad" =>
         /\ http.body[1] \in Ids /\ res.code = "OK"
         /\ res.messages = <<[method |-> "Evaluate", id |-> http.body[1]]>>
  BY RestTypes, Zenon DEF Sends
<1> HIDE DEF request_Evaluator_Evaluate, res
<1> QED BY <1>1, <1>2, <1>3, <1>4, Zenon DEF Right, IdOf, res

\* The routes of each service.
LEMMA RouteDomains ==
    ASSUME NEW http
    PROVE  /\ DOMAIN TicketRoutes(http) =
                {"CreateTicket", "DeleteTicket", "GetTicket", "WatchAssignments"}
           /\ DOMAIN BackfillRoutes(http) =
                {"AcknowledgeBackfill", "CreateBackfill", "DeleteBackfill",
                 "GetBackfill", "UpdateBackfill"}
           /\ DOMAIN BackendRoutes(http) = DOMAIN backendServiceClient
           /\ DOMAIN QueryRoutes(http) = DOMAIN queryServiceClient
           /\ DOMAIN FunctionRoutes(http) = DOMAIN matchFunctionClient
           /\ DOMAIN EvaluatorRoutes(http) = DOMAIN evaluatorClient
BY Owned, Zenon
   DEF TicketRoutes, BackfillRoutes, BackendRoutes, QueryRoutes, FunctionRoutes,
       EvaluatorRoutes

\* Every route has the request function of its own method.
LEMMA RequestRight ==
    ASSUME NEW http \in Rests
    PROVE  Right(http, Request(http))
<1> DEFINE x == http.route
           Tables == {TicketRoutes(http), BackfillRoutes(http), BackendRoutes(http),
               QueryRoutes(http), FunctionRoutes(http), EvaluatorRoutes(http)}
<1>h. CASE http.header = "bad"
  BY <1>h, Zenon DEF Request, Refused, Right
<1>0. ASSUME http.header # "bad" PROVE Request(http) = Find(Tables, x)
  BY <1>0, Zenon DEF Request
<1>in. /\ TicketRoutes(http) \in Tables /\ BackfillRoutes(http) \in Tables
       /\ BackendRoutes(http) \in Tables /\ QueryRoutes(http) \in Tables
       /\ FunctionRoutes(http) \in Tables /\ EvaluatorRoutes(http) \in Tables
  BY Zenon
<1>one. \A t, y \in Tables : x \in DOMAIN t /\ x \in DOMAIN y => y = t
  BY RouteDomains, Owned
<1> HIDE DEF Tables
<1>find. \A t \in Tables : x \in DOMAIN t => Find(Tables, x) = t[x]
  BY <1>one, Zenon DEF Find
<1>t. x \in DOMAIN TicketRoutes(http) => Right(http, TicketRoutes(http)[x])
  BY RouteDomains, BodyRight, PathRight DEF TicketRoutes, ByPath,
    request_FrontendService_CreateTicket, request_FrontendService_DeleteTicket,
    request_FrontendService_GetTicket, request_FrontendService_WatchAssignments
<1>b. x \in DOMAIN BackfillRoutes(http) => Right(http, BackfillRoutes(http)[x])
  BY RouteDomains, BodyRight, PathRight DEF BackfillRoutes, ByPath,
    request_FrontendService_AcknowledgeBackfill,
    request_FrontendService_CreateBackfill, request_FrontendService_DeleteBackfill,
    request_FrontendService_GetBackfill, request_FrontendService_UpdateBackfill
<1>k. x \in DOMAIN BackendRoutes(http) => Right(http, BackendRoutes(http)[x])
  BY RouteDomains, Owned, BodyRight DEF BackendRoutes, ByPath,
    request_BackendService_FetchMatches, request_BackendService_AssignTickets,
    request_BackendService_ReleaseTickets, request_BackendService_ReleaseAllTickets
<1>q. x \in DOMAIN QueryRoutes(http) => Right(http, QueryRoutes(http)[x])
  BY RouteDomains, Owned, BodyRight DEF QueryRoutes, ByPath,
    request_QueryService_QueryTickets, request_QueryService_QueryTicketIds,
    request_QueryService_QueryBackfills
<1>f. x \in DOMAIN FunctionRoutes(http) => Right(http, FunctionRoutes(http)[x])
  BY RouteDomains, Owned, BodyRight DEF FunctionRoutes, ByPath,
    request_MatchFunction_Run
<1>e. x \in DOMAIN EvaluatorRoutes(http) => Right(http, EvaluatorRoutes(http)[x])
  BY RouteDomains, Owned, EvaluateRight DEF EvaluatorRoutes
<1>x. \E t \in Tables : x \in DOMAIN t /\ Right(http, t[x])
  BY <1>in, <1>t, <1>b, <1>k, <1>q, <1>f, <1>e, RestTypes, EveryRoute, RouteDomains,
    Owned
<1> QED BY <1>h, <1>0, <1>find, <1>x, Zenon

-----------------------------------------------------------------------------
(* A REST request on its way.                                              *)

\* BodyEnds, for what is asked and what was heard of it.
Ended(http, messages) ==
    \/ Len(messages) = Len(http.body)
    \/ http.body[Len(messages) + 1] = "bad"

\* How far a request has come: what was asked, what was heard of it, whether its
\* messages are being sent, what its client was told, where it is, and the
\* connection of the proxy.
RestAt(http, messages, sends, told, is, link) ==
    /\ is \in {"idle", "rpc"} => http = NoRest
    /\ is \in {"idle", "rpc", "http"} =>
          messages = <<>> /\ sends = "no" /\ told = "none"
    /\ is \in {"http", "proxied"} => http \in Rests
    /\ is = "proxied" =>
          /\ link # "none" /\ told = "none"
          /\ IF http.route = "Evaluate" THEN sends # "no"
             ELSE Len(messages) = 1 /\ sends = "no"
          /\ sends = "closed" /\ link = "open" => Ended(http, messages)
    /\ sends = "yes" => http.route = "Evaluate"
    /\ http.route = "Evaluate" => Len(messages) <= Len(http.body)
    /\ told = "OK" =>
          /\ sends # "yes"
          /\ IF http.route = "Evaluate" THEN Ended(http, messages)
             ELSE Len(messages) = 1
    /\ told \in {"InvalidArgument", "Unknown"} => messages = <<>> /\ sends = "no"

\* HeardAsAsked, for one request.
AsAsked(http, messages) ==
    \A i \in DOMAIN messages :
       /\ messages[i].method = http.route /\ messages[i].id # "bad"
       /\ messages[i].id = IdOf(http, i)

\* The types of the requests.
Messages == [method : Routes, id : Ids]
Answers == {"none", "OK", "InvalidArgument", "Unknown", "error", "lost"}
Asking == Rests \cup {NoRest}
ReqStates == {"idle", "http", "proxied", "orphan", "rpc", "done"}

\* Nothing has been heard of a request that arrives.
LEMMA NothingHeard ==
    ASSUME NEW http \in Asking, NEW link, NEW is \in {"idle", "rpc", "http"},
           IF is = "http" THEN http \in Rests ELSE http = NoRest
    PROVE  RestAt(http, <<>>, "no", "none", is, link) /\ AsAsked(http, <<>>)
<1>1. NoRest.route # "Evaluate"
  BY Zenon DEF NoRest
<1>2. http \in Rests => Len(http.body) \in Nat
  BY RestTypes
<1> QED BY <1>1, <1>2 DEF RestAt, AsAsked

\* What is sent when a request is forwarded, as CallsMethod has it.
Sending(http) ==
    IF ~ClientStreams(http.route) THEN "no"
    ELSE IF Request(http).messages = <<>> THEN "closed" ELSE "yes"

\* The server hears the first message, and the goroutine of a stream starts.
LEMMA ForwardRight ==
    ASSUME NEW http \in Rests, NEW link, link # "none", Request(http).code = "OK"
    PROVE  /\ Received(Request(http).messages) \in Seq(Messages)
           /\ Sending(http) \in {"no", "yes", "closed"}
           /\ RestAt(http, Received(Request(http).messages), Sending(http), "none",
                     "proxied", link)
           /\ AsAsked(http, Received(Request(http).messages))
<1> DEFINE res == Request(http)
<1>1. /\ http.route \in Routes /\ Len(http.body) \in Nat
      /\ http.body # <<>> => Len(http.body) # 0
  BY RestTypes
<1>2. Right(http, res) /\ (ClientStreams(http.route) <=> http.route = "Evaluate")
  BY <1>1, RequestRight, OneClientStream, Zenon
<1>3. CASE http.route = "Evaluate" /\ http.body = <<>>
  <2>1. res.messages = <<>> /\ Received(<<>>) = <<>> /\ Sending(http) = "closed"
    BY <1>2, <1>3 DEF Right, Received, Sending
  <2>2. RestAt(http, <<>>, "closed", "none", "proxied", link)
    BY <1>3 DEF RestAt, Ended
  <2>3. AsAsked(http, <<>>) /\ <<>> \in Seq(Messages) /\ "closed" \in {"no", "yes", "closed"}
    BY DEF AsAsked
  <2> HIDE DEF res
  <2> QED BY <2>1, <2>2, <2>3, Zenon DEF res
<1>4. CASE ~(http.route = "Evaluate" /\ http.body = <<>>)
  <2> DEFINE msg == [method |-> http.route, id |-> IdOf(http, 1)]
  <2>1. res.messages = <<msg>> /\ IdOf(http, 1) \in Ids /\ "bad" \notin Ids
    BY <1>2, <1>4, Zenon DEF Right, Ids
  <2>2. Received(<<msg>>) = <<msg>>
    BY <1>1, OwnMethod DEF Received
  <2>3. /\ msg \in Messages /\ msg.id # "bad" /\ msg.method = http.route
        /\ msg.id = IdOf(http, 1)
    BY <1>1, <2>1, Zenon DEF Messages
  <2>4. Sending(http) = IF http.route = "Evaluate" THEN "yes" ELSE "no"
    BY <1>2, <2>1 DEF Sending
  <2> HIDE DEF msg, res
  <2>5. <<msg>> \in Seq(Messages) /\ Len(<<msg>>) = 1 /\ AsAsked(http, <<msg>>)
    BY <2>3 DEF AsAsked
  <2>6. RestAt(http, <<msg>>, Sending(http), "none", "proxied", link)
    BY <1>1, <1>4, <2>4, <2>5 DEF RestAt
  <2> QED BY <2>1, <2>2, <2>4, <2>5, <2>6, Zenon DEF res
<1> QED BY <1>3, <1>4, Zenon

\* The goroutine of Evaluate sends the value that follows what was heard.
LEMMA SendRight ==
    ASSUME NEW http \in Rests, http.route = "Evaluate", NEW messages \in Seq(Messages),
           Len(messages) <= Len(http.body), ~Ended(http, messages),
           AsAsked(http, messages), NEW now,
           now = Append(messages, [method |-> Served("Evaluate"),
                                   id |-> http.body[Len(messages) + 1]])
    PROVE  /\ now \in Seq(Messages) /\ Len(now) = Len(messages) + 1
           /\ Len(now) <= Len(http.body) /\ AsAsked(http, now)
<1> DEFINE n == Len(messages) + 1
           msg == [method |-> "Evaluate", id |-> http.body[n]]
<1>1. n \in 1..Len(http.body) /\ http.body[n] # "bad" /\ http.body \in Seq(Ids \cup {"bad"})
  BY RestTypes DEF Ended
<1>2. http.body[n] \in Ids /\ http.body # <<>>
  BY <1>1
<1>3. Served("Evaluate") = "Evaluate" /\ "Evaluate" \in Routes
  BY OwnMethod, Zenon DEF Routes
<1>4. msg \in Messages /\ msg.method = "Evaluate" /\ msg.id = http.body[n]
  BY <1>2, <1>3, Zenon DEF Messages
<1>5. now = Append(messages, msg)
  BY <1>3, Zenon
<1> HIDE DEF msg
<1>6. /\ now \in Seq(Messages) /\ Len(now) = n /\ now[n] = msg
      /\ \A i \in 1..Len(messages) : now[i] = messages[i]
  BY <1>4, <1>5
<1>7. ASSUME NEW i \in 1..n
      PROVE  /\ now[i].method = http.route /\ now[i].id # "bad"
             /\ now[i].id = IdOf(http, i)
  <2>1. CASE i # n
    BY <2>1, <1>6 DEF AsAsked
  <2>2. CASE i = n
    BY <2>2, <1>1, <1>2, <1>4, <1>6, Zenon DEF ByPath, IdOf
  <2> QED BY <2>1, <2>2, Zenon
<1> QED BY <1>1, <1>6, <1>7 DEF AsAsked

-----------------------------------------------------------------------------
(* The closers.                                                            *)

\* What is registered has a closer that undoes it.
Undone(cs, b) == \A e \in b : \E i \in DOMAIN cs : cs[i].what = "undo" /\ e \in cs[i].of

\* The closer of the servers can only be the last one.
LastServer(cs) == \A i \in DOMAIN cs : cs[i].what = "server" => i = Len(cs)
Top(cs) == cs # <<>> /\ cs[Len(cs)].what = "server"

\* A closer is added, for something that was registered or for the servers.
LEMMA AddCloser ==
    ASSUME NEW S, NEW cs \in Seq(S), LastServer(cs), ~Top(cs),
           NEW new \in S, NEW t, t = Append(cs, new), NEW b, Undone(cs, b), NEW more,
           \/ new.what = "undo" /\ new.of = more
           \/ new.what = "server" /\ more = {}
    PROVE  /\ t \in Seq(S) /\ t # <<>> /\ Undone(t, b \cup more) /\ LastServer(t)
           /\ Top(t) <=> new.what = "server"
<1>1. /\ t \in Seq(S) /\ Len(t) = Len(cs) + 1 /\ Len(cs) \in Nat
      /\ t[Len(cs) + 1] = new
      /\ \A i \in 1..Len(cs) : t[i] = cs[i]
  OBVIOUS
<1>2. t # <<>> /\ DOMAIN t = 1..(Len(cs) + 1) /\ DOMAIN cs = 1..Len(cs)
  BY <1>1
<1>3. LastServer(t) /\ (Top(t) <=> new.what = "server")
  <2>1. \A i \in 1..Len(cs) : cs[i].what # "server"
    BY <1>1, <1>2 DEF LastServer, Top
  <2> QED BY <1>1, <1>2, <2>1 DEF LastServer, Top
<1>4. ASSUME NEW e \in b \cup more
      PROVE  \E i \in 1..(Len(cs) + 1) : t[i].what = "undo" /\ e \in t[i].of
  <2>1. CASE e \in b
    BY <2>1, <1>1, <1>2 DEF Undone
  <2>2. CASE e \in more
    BY <2>2, <1>1
  <2> QED BY <2>1, <2>2, Zenon
<1> QED BY <1>1, <1>2, <1>3, <1>4, Zenon DEF Undone

\* A closer that undoes what was registered.
LEMMA AddUndo ==
    ASSUME NEW S, NEW cs \in Seq(S), LastServer(cs), ~Top(cs), NEW new \in S,
           new.what = "undo", NEW b, Undone(cs, b), NEW t, t = Append(cs, new)
    PROVE  /\ t \in Seq(S) /\ Undone(t, b \cup new.of) /\ LastServer(t) /\ ~Top(t)
<1>1. "undo" # "server" /\ new.of = new.of
  OBVIOUS
<1> QED BY <1>1, AddCloser, Zenon

\* The closer of the servers.
LEMMA AddServer ==
    ASSUME NEW S, NEW cs \in Seq(S), LastServer(cs), ~Top(cs), NEW new \in S,
           new.what = "server", NEW b, Undone(cs, b), NEW t, t = Append(cs, new)
    PROVE  /\ t \in Seq(S) /\ Undone(t, b) /\ LastServer(t) /\ Top(t)
<1>1. b \cup {} = b
  OBVIOUS
<1>2. Undone(t, b \cup {}) /\ t \in Seq(S) /\ LastServer(t) /\ Top(t)
  BY AddCloser, Zenon
<1> QED BY <1>1, <1>2, Zenon

\* The last closer is taken away, and has undone what it says.
LEMMA DropCloser ==
    ASSUME NEW S, NEW cs \in Seq(S), Len(cs) > 0, LastServer(cs),
           NEW t, t = SubSeq(cs, 1, Len(cs) - 1), NEW b, Undone(cs, b)
    PROVE  /\ t \in Seq(S) /\ LastServer(t) /\ ~Top(t)
           /\ Top(cs) => Undone(t, b)
           /\ ~Top(cs) => Undone(t, b \ cs[Len(cs)].of)
<1> DEFINE n == Len(cs) - 1
<1>1. n \in Nat /\ Len(cs) = n + 1 /\ DOMAIN cs = 1..(n + 1)
  OBVIOUS
<1> HIDE DEF n
<1>2. t = SubSeq(cs, 1, n)
  BY Zenon DEF n
<1>3. Len(t) = n
  <2>1. CASE n = 0
    BY <1>1, <1>2, <2>1
  <2>2. CASE n >= 1
    BY <1>1, <1>2, <2>2
  <2> QED BY <1>1, <2>1, <2>2
<1>4. t \in Seq(S) /\ DOMAIN t = 1..n /\ \A i \in 1..n : t[i] = cs[i]
  BY <1>1, <1>2, <1>3
<1>5. \A i \in 1..n : t[i].what # "server"
  BY <1>1, <1>4 DEF LastServer
<1>6. LastServer(t) /\ ~Top(t)
  BY <1>1, <1>3, <1>4, <1>5 DEF LastServer, Top
<1>7. ASSUME NEW e \in b, Top(cs) \/ e \notin cs[Len(cs)].of
      PROVE  \E i \in 1..n : t[i].what = "undo" /\ e \in t[i].of
  <2>1. PICK i \in 1..(n + 1) : cs[i].what = "undo" /\ e \in cs[i].of
    BY <1>1, Zenon DEF Undone
  <2>2. i # n + 1
    BY <1>1, <1>7, <2>1, Zenon DEF Top
  <2> QED BY <1>1, <1>4, <2>1, <2>2
<1>8. ASSUME Top(cs) PROVE Undone(t, b)
  BY <1>4, <1>7, <1>8, Zenon DEF Undone
<1>9. ASSUME ~Top(cs) PROVE Undone(t, b \ cs[Len(cs)].of)
  BY <1>4, <1>7, <1>9, Zenon DEF Undone
<1> QED BY <1>4, <1>6, <1>8, <1>9, Zenon

-----------------------------------------------------------------------------
(* The steps, as the clients and the proxy see them.                       *)

\* The stages before the gRPC server is started.
Early == {"params", "telemetry", "jaeger", "prometheus", "stackdriver", "agent",
          "bind", "start"}

\* Neither the way up nor Stop touches a request or a client; Stop may cut the
\* proxy off.
ApplicationFrame ==
    /\ UNCHANGED req /\ UNCHANGED others
    /\ proxy' = proxy \/ (pc = "start" /\ proxy' = "open") \/ proxy' = "closed"
    /\ pc' \in Early => pc \in Early /\ proxy' = proxy

\* Every step of NewApplication and of Stop is such a step.
LEMMA ApplicationSteps ==
    ASSUME Application \/ Signal
    PROVE  ApplicationFrame
<1> USE DEF ApplicationFrame, Early, serverVars
<1>1. ASSUME NEW x \in Early, NEW g, NEW c, NEW next, Exporter(x, g, c, next)
      PROVE  ApplicationFrame
  BY <1>1, Zenon DEF Exporter
<1>2. CASE bindJaeger \/ bindPrometheus \/ bindStackDriverMetrics \/ bindOpenCensusAgent
  BY <1>1, <1>2, Zenon DEF bindJaeger, bindPrometheus, bindStackDriverMetrics,
    bindOpenCensusAgent
<1>3. CASE NewServerParams \/ configureOpenCensus \/ RegisterViews \/ ServicesBound
           \/ StartGrpc \/ CertificateFails \/ StartHttp
  BY <1>3, Zenon DEF NewServerParams, configureOpenCensus, RegisterViews, ServicesBound,
    StartGrpc, CertificateFails, StartHttp
<1>4. CASE RunCloser \/ ClosersDone \/ ServeReturns \/ StopHttp \/ StopGrpc \/ Signal
  BY <1>4, Zenon DEF RunCloser, ClosersDone, ServeReturns, StopHttp, StopGrpc, Signal
<1> QED BY <1>2, <1>3, <1>4, Zenon DEF Application

\* A step of the process is a step of the clients, or none of their business.
LEMMA ClientSteps ==
    ASSUME [Next]_vars
    PROVE  [ClientNext]_clientVars
<1>1. CASE Application \/ Signal
  BY <1>1, ApplicationSteps, Zenon DEF ApplicationFrame, others
<1>2. CASE UNCHANGED vars \/ Reload \/ \E q \in Users : Forward(q) \/ Send(q) \/ LoseProxy(q)
                            \/ Return(q) \/ Arrive(q) \/ Call(q)
  BY <1>2, Zenon DEF vars, Forward, Send, LoseProxy, Return, Arrive, Call, Reload,
    ClientNext
<1> QED BY <1>1, <1>2, Zenon DEF Next, Handlers

\* The clients of a process behave as Clients says: the process adds only when a
\* call begins and when the configuration is reloaded.
THEOREM ProcessClients == Spec => ClientSpec
<1>1. Init => ClientInit
  BY Zenon DEF Init
<1> QED BY <1>1, ClientSteps, PTL DEF Spec, ClientSpec

\* The properties of the clients, for the process: no connection leaks, none is
\* closed but for cause, Get returns a client of the configuration in force,
\* what is cached fits it, and an evaluation over HTTP that succeeds is whole.
THEOREM ClientsInProcess ==
    Spec => /\ []NoInstanceLeaks /\ []ClosedForCause /\ GetIsCurrent
            /\ CacheFits /\ []HttpOkIsWhole
BY ProcessClients, NoLeak, Fits, HttpWhole, Cause, Current, PTL

-----------------------------------------------------------------------------
(* The requests in the proxy.                                              *)

GTypes ==
    /\ rest \in [Users -> Asking]
    /\ heard \in [Users -> Seq(Messages)]
    /\ sending \in [Users -> {"no", "yes", "closed"}]
    /\ answer \in [Users -> Answers]
    /\ proxy \in {"none", "open", "closed"}
    /\ req \in [Users -> ReqStates]

\* Before the gRPC server starts there is no connection to it.
GInv ==
    /\ GTypes
    /\ \A q \in Users :
          /\ RestAt(rest[q], heard[q], sending[q], answer[q], req[q], proxy)
          /\ AsAsked(rest[q], heard[q])
    /\ pc \in Early => proxy = "none"

\* The connection of the proxy is lost for good, and opened before any request.
LEMMA ProxyStep ==
    ASSUME GInv, UNCHANGED <<req, gatewayVars>>,
           proxy' = proxy \/ (proxy = "none" /\ proxy' = "open") \/ proxy' = "closed",
           pc' \in Early => pc \in Early /\ proxy' = proxy
    PROVE  GInv'
<1>1. ASSUME NEW q \in Users,
             RestAt(rest[q], heard[q], sending[q], answer[q], req[q], proxy)
      PROVE  RestAt(rest[q], heard[q], sending[q], answer[q], req[q], proxy')
  BY <1>1, Zenon DEF RestAt
<1> QED BY <1>1, Zenon DEF GInv, GTypes, gatewayVars

\* A step of one request, after which it is as the arguments say.
StepOf(q, http, messages, sends, told, is) ==
    /\ GTypes' /\ UNCHANGED <<pc, proxy>>
    /\ rest'[q] = http /\ heard'[q] = messages /\ sending'[q] = sends
    /\ answer'[q] = told /\ req'[q] = is
    /\ \A w \in Users \ {q} :
          /\ rest'[w] = rest[w] /\ heard'[w] = heard[w] /\ sending'[w] = sending[w]
          /\ answer'[w] = answer[w] /\ req'[w] = req[w]

\* Such a step leaves the others as they are.
LEMMA OneRequest ==
    ASSUME GInv, NEW q \in Users, NEW http, NEW messages, NEW sends, NEW told, NEW is,
           StepOf(q, http, messages, sends, told, is),
           RestAt(http, messages, sends, told, is, proxy), AsAsked(http, messages)
    PROVE  GInv'
BY Zenon DEF GInv, StepOf

\* What is known of one request.
LEMMA RequestTypes ==
    ASSUME GInv, NEW q \in Users
    PROVE  /\ rest[q] \in Asking /\ heard[q] \in Seq(Messages)
           /\ Len(heard[q]) \in Nat
           /\ sending[q] \in {"no", "yes", "closed"} /\ answer[q] \in Answers
           /\ req[q] \in ReqStates
           /\ rest[q].route = "Evaluate" => rest[q] \in Rests
           /\ RestAt(rest[q], heard[q], sending[q], answer[q], req[q], proxy)
           /\ AsAsked(rest[q], heard[q])
<1>2. NoRest.route # "Evaluate"
  BY Zenon DEF NoRest
<1> QED BY <1>2 DEF Asking, GInv, GTypes

\* A request arrives, and nothing has been heard of it.
LEMMA ArriveStep ==
    ASSUME GInv, NEW q \in Users, Arrive(q)
    PROVE  GInv'
<1>1. /\ rest[q] = NoRest /\ heard[q] = <<>> /\ sending[q] = "no"
      /\ answer[q] = "none"
  BY RequestTypes, Zenon DEF Arrive, RestAt
<1>2. \/ StepOf(q, NoRest, <<>>, "no", "none", "rpc")
      \/ \E h \in Rests : StepOf(q, h, <<>>, "no", "none", "http")
  <2>1. ASSUME req' = [req EXCEPT ![q] = "rpc"], UNCHANGED rest
        PROVE  StepOf(q, NoRest, <<>>, "no", "none", "rpc")
    BY <1>1, <2>1, Zenon DEF Arrive, serverVars, GInv, GTypes, StepOf, ReqStates
  <2>2. ASSUME NEW h \in Rests, req' = [req EXCEPT ![q] = "http"],
               rest' = [rest EXCEPT ![q] = h]
        PROVE  StepOf(q, h, <<>>, "no", "none", "http")
    BY <1>1, <2>2, Zenon DEF Arrive, serverVars, GInv, GTypes, StepOf, Asking, ReqStates
  <2> QED BY <2>1, <2>2, Zenon DEF Arrive
<1>3. /\ \A link : RestAt(NoRest, <<>>, "no", "none", "rpc", link) /\ AsAsked(NoRest, <<>>)
      /\ \A h \in Rests : \A link :
            RestAt(h, <<>>, "no", "none", "http", link) /\ AsAsked(h, <<>>)
  BY NothingHeard, Zenon DEF Asking
<1> QED BY <1>2, <1>3, OneRequest, Zenon

\* The request function fails before the server hears anything.
LEMMA FailsStep ==
    ASSUME GInv, NEW q \in Users, req[q] = "http", Fails(q, proxy = "open"),
           req' = [req EXCEPT ![q] = IF answer'[q] = "Unknown" THEN "orphan" ELSE "done"],
           UNCHANGED <<pc, proxy>>
    PROVE  GInv'
<1>1. rest[q] \in Rests /\ heard[q] = <<>> /\ sending[q] = "no"
  BY RequestTypes, Zenon DEF RestAt
<1>2. PICK code \in {"InvalidArgument", "Unknown", "lost"} :
         answer' = [answer EXCEPT ![q] = code] /\ UNCHANGED <<rest, heard, sending>>
  BY <1>1, RequestRight, Zenon DEF Fails, Told, Right
<1>3. PICK is \in {"orphan", "done"} : req' = [req EXCEPT ![q] = is]
  BY Zenon
<1>4. RestAt(rest[q], heard[q], sending[q], code, is, proxy)
  BY <1>1, RequestTypes, Zenon DEF RestAt
<1>5. StepOf(q, rest[q], heard[q], sending[q], code, is)
  BY <1>2, <1>3 DEF GInv, GTypes, StepOf, Answers, ReqStates
<1> QED BY <1>4, <1>5, OneRequest, RequestTypes, Zenon

\* The server hears the first message, and the goroutine of a stream starts.
LEMMA CallsStep ==
    ASSUME GInv, NEW q \in Users, req[q] = "http", CallsMethod(q), proxy = "open",
           req' = [req EXCEPT ![q] = "proxied"], UNCHANGED <<pc, proxy>>
    PROVE  GInv'
<1> DEFINE now == Received(Request(rest[q]).messages)
<1>1. rest[q] \in Rests /\ answer[q] = "none" /\ Request(rest[q]).code = "OK"
  BY RequestTypes, Zenon DEF RestAt, CallsMethod
<1>2. /\ now \in Seq(Messages) /\ Sending(rest[q]) \in {"no", "yes", "closed"}
      /\ RestAt(rest[q], now, Sending(rest[q]), "none", "proxied", proxy)
      /\ AsAsked(rest[q], now)
  BY <1>1, ForwardRight, Zenon
<1>3. /\ heard' = [heard EXCEPT ![q] = now]
      /\ sending' = [sending EXCEPT ![q] = Sending(rest[q])] /\ UNCHANGED <<rest, answer>>
  BY Zenon DEF CallsMethod, Sending
<1> HIDE DEF now
<1>4. StepOf(q, rest[q], now, Sending(rest[q]), "none", "proxied")
  BY <1>1, <1>2, <1>3, Zenon DEF GInv, GTypes, StepOf, ReqStates
<1> QED BY <1>2, <1>4, OneRequest, Zenon

\* The goroutine of Evaluate sends the next value or closes the stream.
LEMMA SendStep ==
    ASSUME GInv, NEW q \in Users, Send(q)
    PROVE  GInv'
<1>0. sending[q] = "yes" /\ UNCHANGED <<pc, proxy, req, rest, answer>>
  BY Zenon DEF Send, SendNext, processVars, serverVars
<1>1. /\ rest[q].route = "Evaluate" /\ rest[q] \in Rests
      /\ Len(heard[q]) <= Len(rest[q].body) /\ heard[q] \in Seq(Messages)
      /\ AsAsked(rest[q], heard[q])
  BY <1>0, RequestTypes, Zenon DEF RestAt
<1>2. BodyEnds(q) <=> Ended(rest[q], heard[q])
  BY Zenon DEF BodyEnds, Ended
<1>3. CASE req[q] = "proxied" /\ proxy = "open" /\ ~Ended(rest[q], heard[q])
  <2> DEFINE now == Append(heard[q], [method |-> Served("Evaluate"),
                                      id |-> rest[q].body[Len(heard[q]) + 1]])
  <2>1. heard' = [heard EXCEPT ![q] = now] /\ UNCHANGED sending
    BY <1>2, <1>3, Zenon DEF Send, SendNext
  <2>2. /\ now \in Seq(Messages) /\ Len(now) = Len(heard[q]) + 1
        /\ Len(now) <= Len(rest[q].body) /\ AsAsked(rest[q], now)
    BY <1>1, <1>3, SendRight, Zenon
  <2> HIDE DEF now
  <2>3. RestAt(rest[q], now, sending[q], answer[q], req[q], proxy)
    BY <1>0, <1>1, <1>3, RequestTypes, <2>2, Zenon DEF RestAt
  <2>4. StepOf(q, rest[q], now, sending[q], answer[q], req[q])
    BY <1>0, <2>1, <2>2, Zenon DEF GInv, GTypes, StepOf
  <2> QED BY <2>2, <2>3, <2>4, OneRequest, Zenon
<1>4. CASE ~(req[q] = "proxied" /\ proxy = "open" /\ ~Ended(rest[q], heard[q]))
  <2>1. StepOf(q, rest[q], heard[q], "closed", answer[q], req[q])
    BY <1>0, <1>2, <1>4, Zenon DEF Send, SendNext, GInv, GTypes, StepOf
  <2>2. RestAt(rest[q], heard[q], "closed", answer[q], req[q], proxy)
    BY <1>0, <1>4, RequestTypes, Zenon DEF RestAt
  <2> QED BY <1>1, <2>1, <2>2, OneRequest, Zenon
<1> QED BY <1>3, <1>4, Zenon

\* A client whose connection is lost is not told OK.
LEMMA LostStep ==
    ASSUME GInv, NEW q \in Users, LoseProxy(q)
    PROVE  GInv'
<1>1. RestAt(rest[q], heard[q], sending[q], "lost", "orphan", proxy)
  BY RequestTypes, Zenon DEF RestAt, LoseProxy
<1>2. StepOf(q, rest[q], heard[q], sending[q], "lost", "orphan")
  BY Zenon DEF LoseProxy, Told, serverVars, GInv, GTypes, StepOf, Answers, ReqStates
<1> QED BY <1>1, <1>2, OneRequest, RequestTypes, Zenon

\* A client is told OK only when the goroutine of its stream has closed it.
LEMMA ReturnStep ==
    ASSUME GInv, NEW q \in Users, Return(q)
    PROVE  GInv'
<1>1. /\ req[q] \in {"proxied", "orphan", "rpc"} /\ (req[q] = "proxied" => proxy = "open")
      /\ \E code \in {"OK", "error"} :
            /\ code = "OK" => sending[q] # "yes"
            /\ IF req[q] = "proxied" THEN answer' = [answer EXCEPT ![q] = code]
               ELSE UNCHANGED answer
  BY Zenon DEF Outcomes, Return, Told, Running
<1>2. PICK told : /\ RestAt(rest[q], heard[q], sending[q], told, "done", proxy)
                  /\ told \in Answers /\ answer' = [answer EXCEPT ![q] = told]
  <2>1. CASE req[q] = "proxied"
    BY <1>1, <2>1, RequestTypes, Zenon DEF RestAt, Answers
  <2>2. CASE req[q] # "proxied"
    <3>1. RestAt(rest[q], heard[q], sending[q], answer[q], "done", proxy)
      BY <1>1, RequestTypes, Zenon DEF RestAt
    <3>2. answer' = [answer EXCEPT ![q] = answer[q]]
      BY <1>1, <2>2, Zenon DEF GInv, GTypes
    <3> QED BY <3>1, <3>2, RequestTypes, Zenon
  <2> QED BY <2>1, <2>2, Zenon
<1>3. StepOf(q, rest[q], heard[q], sending[q], told, "done")
  BY <1>2, Zenon DEF Return, serverVars, GInv, GTypes, StepOf, ReqStates
<1> QED BY <1>2, <1>3, OneRequest, RequestTypes, Zenon

\* Every step keeps the invariant of the requests.
LEMMA GInvStep == GInv /\ [Next]_vars => GInv'
<1> SUFFICES ASSUME GInv, [Next]_vars PROVE GInv'
  BY Zenon
<1>1. CASE UNCHANGED <<processVars, gatewayVars>>
  BY <1>1, ProxyStep, Zenon DEF processVars, serverVars
<1>2. CASE Application \/ Signal
  BY <1>2, ApplicationSteps, ProxyStep, Zenon DEF GInv, ApplicationFrame, others, Early
<1>3. ASSUME NEW q \in Users, Forward(q) PROVE GInv'
  BY <1>3, FailsStep, CallsStep, Zenon DEF Forward, serverVars
<1>4. CASE (\E q \in Users : Call(q)) \/ Reload \/ UNCHANGED vars
  BY <1>4, <1>1, Zenon DEF Call, Reload, vars
<1> QED
  BY <1>2, <1>3, <1>4, SendStep, LostStep, ReturnStep, ArriveStep, Zenon DEF Next,
    Handlers

\* Every request is as far in the proxy as on the server.
LEMMA GatewayInvariant == Spec => []GInv
<1>1. Init => GInv
  <2> SUFFICES ASSUME Init PROVE GInv
    BY Zenon
  <2>2. NoRest.route # "Evaluate"
    BY Zenon DEF NoRest
  <2>3. ASSUME NEW q \in Users
        PROVE  /\ RestAt(rest[q], heard[q], sending[q], answer[q], req[q], proxy)
               /\ AsAsked(rest[q], heard[q])
    BY <2>2 DEF RestAt, AsAsked, Init, GatewayInit
  <2> QED BY <2>3 DEF GInv, Init, GatewayInit, GTypes, Asking, Answers, ReqStates
<1> QED BY <1>1, GInvStep, PTL DEF Spec

\* The reverse proxy is faithful, for any requests and any number of them: the
\* server hears what was asked, up to the end of a stream when OK is returned,
\* and nothing of a request that is refused.
THEOREM RestFaithful == Spec => []RestIsFaithful
<1>1. GInv => RestIsFaithful
  <2> SUFFICES ASSUME GInv PROVE HeardAsAsked /\ AnswerIsTruthful
    BY Zenon DEF RestIsFaithful
  <2>1. HeardAsAsked
    BY RequestTypes, Zenon DEF AsAsked, IdOf, HeardAsAsked
  <2>2. ASSUME NEW q \in Users, answer[q] = "OK", rest[q].route = "Evaluate",
               NEW i \in DOMAIN rest[q].body, i > Len(heard[q])
        PROVE  \E j \in Len(heard[q])..i : j > 0 /\ rest[q].body[j] = "bad"
    <3>1. rest[q] \in Rests /\ Len(heard[q]) \in Nat /\ Ended(rest[q], heard[q])
      BY <2>2, RequestTypes, Zenon DEF RestAt
    <3>2. i \in 1..Len(rest[q].body) /\ Len(rest[q].body) \in Nat
      BY <3>1, RestTypes
    <3>3. rest[q].body[Len(heard[q]) + 1] = "bad"
      BY <2>2, <3>1, <3>2 DEF Ended
    <3> QED BY <2>2, <3>1, <3>2, <3>3
  <2>3. AnswerIsTruthful
    BY <2>2, RequestTypes, Zenon DEF RestAt, AnswerIsTruthful
  <2> QED BY <2>1, <2>3, Zenon
<1> QED BY <1>1, GatewayInvariant, PTL

-----------------------------------------------------------------------------
(* The way up and down.                                                    *)

\* The closer of the servers is the next to run.
ServerUp == Top(closers)
Idle == \A q \in Users : ~Running(q) /\ req[q] # "http"
Registered(x) == x \in enabled => {<<g, x>> : g \in Registries[x]} \subseteq bound
Up == {"telemetry", "jaeger", "prometheus", "stackdriver", "agent", "bind", "start",
       "proxies", "unwind"}

PTypes ==
    /\ pc \in Up \cup {"params", "up", "stop", "http", "grpc", "stopped", "failed",
                       "exited"}
    /\ at \in Nat \ {0} /\ enabled \subseteq Exporters
    /\ bound \subseteq Everything
    /\ viewErr \in {"nil", "error"} /\ tls \in {"no", "yes"}
    /\ closers \in Seq(Closers)
    /\ listeners \subseteq {"grpc", "http"} /\ serving \subseteq listeners

\* What is registered has a closer that undoes it; the closer of the servers
\* is the last one.
ClosersInv ==
    /\ Undone(closers, bound) /\ LastServer(closers)
    /\ pc \notin {"up", "stop"} => ~ServerUp
    /\ pc \in {"stopped", "failed"} => closers = <<>>

\* What is registered at each stage of the way up.
StageInv ==
    /\ pc \in {"prometheus", "stackdriver", "agent", "bind"} => Registered("jaeger")
    /\ pc \in {"stackdriver", "agent", "bind"} => Registered("prometheus")
    /\ pc \in {"agent", "bind"} => Registered("stackdriver")
    /\ pc = "bind" => Registered("agent")
    /\ pc \in Early \ {"bind", "start"} => at = 1
    /\ pc = "bind" /\ viewErr = "nil" =>
          \A i \in DOMAIN Services : i < at => <<"views", Services[i]>> \in bound
    /\ pc \in {"start", "proxies", "up", "http", "grpc"} => bound = Everything

\* The servers are closed before anything else, and after the last handler.
DownInv ==
    /\ pc = "up" => ServerUp
    /\ ServerUp => bound = Everything /\ listeners = {"grpc", "http"}
    /\ pc \in Up => listeners = {"grpc", "http"}
    /\ pc = "http" => listeners = {"grpc"} /\ serving = {"grpc"}
    /\ pc = "grpc" \/ (pc = "stop" /\ ~ServerUp) \/ pc = "stopped" =>
          serving = {} /\ listeners = {}
    /\ pc = "grpc" => \A q \in Users : req[q] \notin {"http", "proxied"}
    /\ (pc = "stop" /\ ~ServerUp) \/ pc = "stopped" => Idle

PInv == PTypes /\ ClosersInv /\ StageInv /\ DownInv

\* What is to be registered is known from the start.
LEMMA SameEverything ==
    ASSUME enabled' = enabled
    PROVE  Everything' = Everything /\ Closers' = Closers
BY Zenon DEF Everything, Exported, Viewed, Closers

\* Something is to be registered by an exporter or as the views of a service.
LEMMA InEverything ==
    ASSUME NEW e
    PROVE  e \in Everything <=>
              \/ \E x \in enabled : \E g \in Registries[x] : e = <<g, x>>
              \/ \E i \in DOMAIN Services : e = <<"views", Services[i]>>
<1>1. e \in Exported <=> \E x \in enabled : e \in {<<g, x>> : g \in Registries[x]}
  BY Zenon DEF Exported
<1>2. e \in Exported <=> \E x \in enabled : \E g \in Registries[x] : e = <<g, x>>
  BY <1>1, Zenon
<1> QED BY <1>2, Zenon DEF Everything, Viewed, Range

\* The two kinds of closers.
LEMMA UndoCloser ==
    ASSUME NEW s \in SUBSET Everything
    PROVE  /\ [what |-> "undo", of |-> s] \in Closers
           /\ [what |-> "undo", of |-> s].what = "undo"
           /\ [what |-> "undo", of |-> s].of = s
           /\ [what |-> "server"] \in Closers /\ [what |-> "server"].what = "server"
BY Zenon DEF Closers

\* A step that leaves what is registered, its closers and the servers alone.
LEMMA StillStep ==
    ASSUME PInv,
           UNCHANGED <<pc, at, enabled, viewErr, tls, bound, closers, listeners, serving>>,
           pc = "grpc" => \A q \in Users : req'[q] \notin {"http", "proxied"},
           (pc = "stop" /\ ~ServerUp) \/ pc = "stopped" => Idle'
    PROVE  PInv'
BY SameEverything DEF PInv, PTypes, ClosersInv, StageInv, Registered, DownInv,
  ServerUp

\* What holds on the way up.
LEMMA OnTheWay ==
    ASSUME PInv, pc \in Up
    PROVE  /\ ~ServerUp /\ listeners = {"grpc", "http"} /\ at \in Nat \ {0}
           /\ viewErr \in {"nil", "error"} /\ tls \in {"no", "yes"}
           /\ serving \subseteq listeners /\ StageInv /\ closers \in Seq(Closers)
           /\ Undone(closers, bound) /\ LastServer(closers) /\ bound \subseteq Everything
           /\ enabled \subseteq Exporters
BY Zenon DEF PInv, PTypes, ClosersInv, DownInv, Up

\* A step from one stage of the way up to another, in which something may be
\* registered with its closer.
LEMMA StageStep ==
    ASSUME PInv, pc \in Up, pc' \in Up, StageInv', UNCHANGED <<enabled, tls, listeners>>,
           at' \in Nat \ {0}, viewErr' \in {"nil", "error"}, serving' \subseteq listeners,
           \/ UNCHANGED <<bound, closers>>
           \/ \E s \in SUBSET Everything : Bind(s, s)
    PROVE  PInv'
<1>1. /\ closers' \in Seq(Closers) /\ Undone(closers', bound') /\ LastServer(closers')
      /\ ~Top(closers') /\ bound' \subseteq Everything
  <2>1. CASE UNCHANGED <<bound, closers>>
    BY <2>1, OnTheWay, Zenon DEF ServerUp
  <2>2. ASSUME NEW s \in SUBSET Everything, Bind(s, s)
        PROVE  /\ closers' \in Seq(Closers) /\ Undone(closers', bound')
               /\ LastServer(closers') /\ ~Top(closers') /\ bound' \subseteq Everything
    <3> DEFINE new == [what |-> "undo", of |-> s]
    <3>1. new \in Closers /\ new.what = "undo" /\ new.of = s
      BY UndoCloser, Zenon
    <3>2. closers' = Append(closers, new) /\ bound' = bound \cup s /\ "undo" # "server"
      BY <2>2, Zenon DEF Bind
    <3> HIDE DEF new
    <3>3. /\ closers \in Seq(Closers) /\ Undone(closers, bound) /\ LastServer(closers)
          /\ ~Top(closers) /\ bound \subseteq Everything
      BY OnTheWay, Zenon DEF ServerUp
    <3>4. /\ closers' \in Seq(Closers) /\ Undone(closers', bound \cup new.of)
          /\ LastServer(closers') /\ ~Top(closers')
      BY <3>1, <3>2, <3>3, AddUndo, Zenon
    <3> QED BY <3>1, <3>2, <3>3, <3>4, Zenon
  <2> QED BY <2>1, <2>2, Zenon
<1> QED
  BY <1>1, OnTheWay, SameEverything, Zenon DEF PInv, PTypes, ClosersInv, ServerUp,
    DownInv, Up

\* One function of Setup registers all that its closer takes back.
LEMMA ExporterStep ==
    ASSUME PInv, NEW x \in Exporters, NEW next,
           Exporter(x, Registries[x], Registries[x], next),
           <<x, next>> \in
              {<<"jaeger", "prometheus">>, <<"prometheus", "stackdriver">>,
               <<"stackdriver", "agent">>, <<"agent", "bind">>}
    PROVE  PInv'
<1> DEFINE s == {<<g, x>> : g \in Registries[x]}
<1>1. /\ pc = x /\ pc \in Up /\ next \in Up /\ "unwind" \in Up
      /\ UNCHANGED <<at, enabled, viewErr, tls, listeners, serving>>
  BY Zenon DEF Exporter, startVars, serverVars, Up
<1>2. CASE pc' = next /\ (x \in enabled => s \subseteq bound') /\ bound \subseteq bound'
  <2>1. StageInv'
    BY <1>1, <1>2, OnTheWay, ServicesAssumption DEF StageInv, Early, Registered
  <2>2. x \in enabled => s \subseteq Everything
    BY InEverything, Zenon
  <2> QED BY <1>1, <1>2, <2>1, <2>2, OnTheWay, StageStep, Zenon DEF Exporter
<1>3. CASE pc' = "unwind" /\ UNCHANGED <<bound, closers>>
  BY <1>1, <1>3, OnTheWay, StageStep, Zenon DEF StageInv, Early
<1> QED BY <1>2, <1>3, Zenon DEF Exporter, Bind

\* The views of a service are registered, or the error is remembered.
LEMMA ViewsStep ==
    ASSUME PInv, RegisterViews
    PROVE  PInv'
<1> DEFINE s == {<<"views", Services[at]>>}
<1>1. /\ pc = "bind" /\ pc \in Up /\ at \in Nat \ {0} /\ at' = at + 1
      /\ UNCHANGED <<pc, enabled, tls, listeners, serving>>
      /\ at \in DOMAIN Services /\ \A i \in DOMAIN Services : i \in Nat
      /\ \A i \in DOMAIN Services : i < at + 1 => i < at \/ i = at
  BY OnTheWay, ServicesAssumption DEF RegisterViews, serverVars, Up
<1>2. s \subseteq Everything
  BY <1>1, InEverything, Zenon
<1>3. StageInv'
  <2>1. CASE viewErr' = viewErr /\ s \subseteq bound' /\ bound \subseteq bound'
    BY <1>1, <2>1, OnTheWay, Zenon DEF StageInv, Early, Registered
  <2>2. CASE viewErr' = "error" /\ UNCHANGED bound
    BY <1>1, <2>2, OnTheWay, Zenon DEF StageInv, Early, Registered
  <2> QED BY <2>1, <2>2, Zenon DEF RegisterViews, Bind
<1> HIDE DEF s
<1>4. UNCHANGED viewErr \/ viewErr' = "error"
  BY Zenon DEF RegisterViews
<1>5. UNCHANGED <<bound, closers>> \/ Bind(s, s)
  BY Zenon DEF RegisterViews, s
<1> QED BY <1>1, <1>2, <1>3, <1>4, <1>5, OnTheWay, StageStep

\* Once every exporter has been created and every view registered, everything is
\* there; the gRPC server starts then, or not at all.
LEMMA UpStep ==
    ASSUME PInv, configureOpenCensus \/ ServicesBound \/ StartGrpc \/ CertificateFails
    PROVE  PInv'
<1>1. /\ pc \in Up /\ pc' \in Up /\ UNCHANGED <<startVars, bound, closers, listeners>>
      /\ serving' \subseteq listeners
  BY OnTheWay, Zenon DEF configureOpenCensus, ServicesBound, StartGrpc,
    CertificateFails, serverVars, Up
<1>2. pc = "bind" /\ pc' = "start" => bound = Everything
  <2> SUFFICES ASSUME pc = "bind", pc' = "start" PROVE bound = Everything
    BY Zenon
  <2>1. viewErr = "nil" /\ at > Len(Services)
    BY Zenon DEF ServicesBound, configureOpenCensus, StartGrpc, CertificateFails
  <2>2. bound \subseteq Everything /\ \A x \in enabled : Registered(x)
    BY <1>1, OnTheWay, Zenon DEF StageInv, Exporters, Registries
  <2>3. \A i \in DOMAIN Services : <<"views", Services[i]>> \in bound
    <3>1. at \in Nat /\ StageInv
      BY <1>1, OnTheWay, Zenon
    <3>2. \A i \in DOMAIN Services : i < at
      BY <2>1, <3>1, ServicesAssumption
    <3> QED BY <2>1, <3>1, <3>2, Zenon DEF StageInv
  <2>4. \A e \in Everything : e \in bound
    BY <2>2, <2>3, InEverything, Zenon DEF Registered
  <2> QED BY <2>2, <2>4, Zenon
<1>3. StageInv'
  BY <1>1, <1>2, OnTheWay, SameEverything, Zenon DEF StageInv, Early, ServicesBound,
    configureOpenCensus, StartGrpc, CertificateFails, startVars
<1> QED BY <1>1, <1>3, OnTheWay, StageStep, Zenon DEF startVars

\* Before anything is registered the listeners are opened; a signal finds the
\* closer of the servers in the last place.
LEMMA EndsStep ==
    ASSUME PInv, NewServerParams \/ Signal
    PROVE  PInv'
<1> USE SameEverything DEF PInv, PTypes, ClosersInv, StageInv, Early, DownInv, Up, ServerUp
<1>1. NewServerParams => PInv'
  BY Zenon DEF NewServerParams, SetTLSConfiguration
<1>2. Signal => PInv'
  BY Zenon DEF Signal, startVars, serverVars
<1> HIDE DEF PInv
<1> QED BY <1>1, <1>2, Zenon

\* The closer of the servers is added last, when everything is registered.
LEMMA HttpUpStep ==
    ASSUME PInv, StartHttp
    PROVE  PInv'
<1> DEFINE new == [what |-> "server"]
<1>1. /\ pc = "proxies" /\ pc \in Up /\ "unwind" \in Up
      /\ UNCHANGED <<startVars, bound, listeners>>
  BY Zenon DEF StartHttp, Up
<1>2. CASE pc' = "unwind" /\ UNCHANGED <<serving, closers>>
  BY <1>1, <1>2, OnTheWay, StageStep, Zenon DEF StageInv, Early, startVars
<1>3. CASE pc' = "up" /\ serving' = {"grpc", "http"} /\ closers' = Append(closers, new)
  <2>1. new \in Closers /\ new.what = "server"
    BY UndoCloser, Zenon
  <2> HIDE DEF new
  <2>2. /\ closers \in Seq(Closers) /\ Undone(closers, bound) /\ LastServer(closers)
        /\ ~Top(closers)
    BY <1>1, OnTheWay, Zenon DEF ServerUp
  <2>3. /\ closers' \in Seq(Closers) /\ Undone(closers', bound) /\ LastServer(closers')
        /\ Top(closers')
    BY <1>3, <2>1, <2>2, AddServer, Zenon
  <2> QED
    BY <1>1, <1>3, <2>3, OnTheWay, SameEverything, Zenon DEF PInv, PTypes, ClosersInv,
      StageInv, Early, DownInv, ServerUp, startVars, Up
<1> QED BY <1>2, <1>3, Zenon DEF StartHttp

\* The last closer runs.
LEMMA CloserStep ==
    ASSUME PInv, RunCloser
    PROVE  PInv'
<1>1. /\ Everything' = Everything /\ Closers' = Closers /\ closers \in Seq(Closers)
      /\ UNCHANGED <<at, enabled, viewErr, tls, req>> /\ pc \in {"stop", "unwind"}
      /\ Len(closers) > 0 /\ closers' = SubSeq(closers, 1, Len(closers) - 1)
      /\ NextCloser.what = "server" <=> ServerUp
      /\ Undone(closers, bound) /\ LastServer(closers)
  BY SameEverything DEF PInv, PTypes, RunCloser, startVars, MoreClosers, NextCloser,
    Top, ServerUp, ClosersInv
<1>2. /\ closers' \in Seq(Closers) /\ LastServer(closers') /\ ~Top(closers')
      /\ ServerUp => Undone(closers', bound)
      /\ ~ServerUp => Undone(closers', bound \ NextCloser.of)
  <2>0. /\ closers \in Seq(Closers) /\ Len(closers) > 0
        /\ Undone(closers, bound) /\ LastServer(closers)
        /\ closers' = SubSeq(closers, 1, Len(closers) - 1)
    BY <1>1, Zenon
  <2>1. /\ Top(closers) => Undone(closers', bound)
        /\ ~Top(closers) => Undone(closers', bound \ closers[Len(closers)].of)
        /\ closers' \in Seq(Closers) /\ LastServer(closers') /\ ~Top(closers')
    BY <2>0, DropCloser, Zenon
  <2> QED BY <2>1, Zenon DEF ServerUp, NextCloser
<1>3. CASE ServerUp
  <2>1. /\ pc' = "http" /\ serving' = {"grpc"} /\ listeners' = {"grpc"} /\ bound' = bound
        /\ bound = Everything
    BY <1>1, <1>3, Zenon DEF PInv, DownInv, RunCloser, PortsLeft
  <2> QED
    BY <1>1, <1>2, <1>3, <2>1, Zenon DEF PInv, PTypes, ClosersInv, StageInv, Early,
      DownInv, ServerUp, Up
<1>4. CASE ~ServerUp
  BY <1>1, <1>2, <1>4, Zenon DEF PInv, PTypes, ClosersInv, StageInv, Early, DownInv,
    ServerUp, RunCloser, Idle, Running, Up
<1> QED BY <1>3, <1>4, Zenon

\* The end of Stop, and the two steps in which the servers stop.
LEMMA StopSteps ==
    ASSUME PInv, ClosersDone \/ StopHttp \/ StopGrpc
    PROVE  PInv'
<1>1. /\ UNCHANGED <<at, enabled, viewErr, tls, bound, closers, req>>
      /\ Everything' = Everything /\ Closers' = Closers /\ ServerUp' = ServerUp
      /\ Idle' = Idle /\ closers \in Seq(Closers)
      /\ Len(closers) = 0 => ~ServerUp /\ closers = <<>>
  BY SameEverything DEF ClosersDone, StopHttp, StopGrpc, ServerUp, startVars,
    serverVars, Idle, Running, PInv, PTypes, Top
<1> USE <1>1 DEF PInv, PTypes, ClosersInv, StageInv, Early, DownInv, Up
<1>2. ClosersDone => PInv'
  BY DEF ClosersDone, MoreClosers, serverVars
<1>3. StopHttp => PInv'
  BY Zenon DEF StopHttp
<1>4. StopGrpc => PInv'
  BY Zenon DEF StopGrpc, serverVars, HandlersDone, Idle
<1> HIDE DEF PInv
<1> QED BY <1>2, <1>3, <1>4, Zenon

\* A request arrives only while a server accepts it, and none comes back.
LEMMA RequestStep ==
    ASSUME PInv, req \in [Users -> ReqStates], NEW q \in Users,
           Arrive(q) \/ Forward(q) \/ LoseProxy(q) \/ Return(q)
    PROVE  PInv'
<1>0. DownInv
  BY Zenon DEF PInv
<1>1. UNCHANGED <<pc, at, enabled, viewErr, tls, bound, closers, listeners, serving>>
  BY Zenon DEF Arrive, Forward, LoseProxy, Return, startVars, serverVars
<1> DEFINE Moves(is) ==
              /\ req' = [req EXCEPT ![q] = is]
              /\ is \in {"http", "rpc"} => serving # {}
              /\ is \in {"proxied", "orphan"} => req[q] \in {"http", "proxied"}
              /\ is # "idle"
<1>2. PICK is \in ReqStates : Moves(is)
  <2>1. Arrive(q) \/ LoseProxy(q) \/ Return(q) => \E is \in ReqStates : Moves(is)
    BY Zenon DEF Arrive, LoseProxy, Return, ReqStates
  <2>2. Forward(q) => \E is \in ReqStates : Moves(is)
    BY Zenon DEF Forward, ReqStates
  <2> QED BY <2>1, <2>2, Zenon
<1>3. /\ pc = "grpc" => \A w \in Users : req'[w] \notin {"http", "proxied"}
      /\ (pc = "stop" /\ ~ServerUp) \/ pc = "stopped" => Idle'
  BY <1>0, <1>2, Zenon DEF DownInv, Idle, Running
<1> QED BY <1>0, <1>1, <1>3, StillStep, Zenon

\* Every step keeps the invariant of the process.
LEMMA PInvStep == GInv /\ PInv /\ [Next]_vars => PInv'
<1> SUFFICES ASSUME GInv, PInv, [Next]_vars PROVE PInv'
  BY Zenon
<1>0. DownInv
  BY Zenon DEF PInv
<1>1. ASSUME UNCHANGED <<pc, startVars, bound, closers, listeners, serving, req>>
      PROVE  PInv'
  BY <1>0, <1>1, StillStep, Zenon DEF startVars, DownInv, Idle, Running
<1>2. CASE bindJaeger \/ bindPrometheus \/ bindStackDriverMetrics \/ bindOpenCensusAgent
  BY <1>2, ExporterStep, Zenon DEF bindJaeger, bindPrometheus, bindStackDriverMetrics,
    bindOpenCensusAgent, Registries, Exporters
<1>3. CASE ServeReturns \/ (\E q \in Users : Send(q) \/ Call(q)) \/ Reload \/ UNCHANGED vars
  BY <1>3, <1>1, Zenon DEF ServeReturns, Send, Call, Reload, vars, processVars,
    serverVars
<1>4. req \in [Users -> ReqStates]
  BY Zenon DEF GInv, GTypes
<1>5. CASE Application \/ Signal
  BY <1>2, <1>3, <1>4, <1>5, EndsStep, UpStep, ViewsStep, HttpUpStep,
    CloserStep, StopSteps, Zenon DEF Application
<1> QED BY <1>3, <1>4, <1>5, RequestStep, Zenon DEF Next, Handlers

\* What is registered has its closer, at every stage of every start and stop.
LEMMA ProcessInvariant == Spec => []PInv
<1>1. Init => PInv
  <2> SUFFICES ASSUME Init PROVE PInv
    BY Zenon
  <2>1. PTypes /\ StageInv
    BY DEF PTypes, Init, StageInv, Early, Up
  <2>2. ClosersInv /\ DownInv
    BY DEF Init, ClosersInv, DownInv, ServerUp, Undone, LastServer, Top, Up
  <2> QED BY <2>1, <2>2, Zenon DEF PInv
<1> QED BY <1>1, PInvStep, GatewayInvariant, PTL DEF Spec

\* For any services, exporters and requests, and wherever a start fails: what is
\* registered stays so until the last handler has returned, and is taken back
\* by the end of Stop or of the failed start.
THEOREM BoundAsLongAsUsed == Spec => []BoundInv
<1>1. PInv => BoundWhileHandling /\ StopUndoesAll
  BY DEF PInv, StageInv, ClosersInv, DownInv, Idle, BoundWhileHandling, StopUndoesAll,
    Undone
<1>2. GInv => GatewayTypes
  BY Zenon DEF GInv, GTypes, GatewayTypes, Asking, Messages, Answers
<1>3. ClientTypes /\ GatewayTypes /\ GInv /\ PInv => TypeOK
  BY Zenon DEF GInv, GTypes, PInv, PTypes, TypeOK, ReqStates, Up
<1>4. ClientTypes /\ GInv /\ PInv => BoundInv
  BY <1>1, <1>2, <1>3, Zenon DEF BoundInv
<1> QED BY <1>4, ProcessClients, TypedClients, GatewayInvariant, ProcessInvariant, PTL
=============================================================================
