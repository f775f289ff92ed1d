------------------------------ MODULE Clients ------------------------------
(***************************************************************************)
(* The connections that a server process keeps to other servers.           *)
(*                                                                         *)
(* A config.Cacher holds one instance, the client of the synchronizer or   *)
(* of the evaluator, and remembers every configuration value that was read *)
(* to build it.  The configuration may change at any time, also between    *)
(* two of these reads.  An rpc.ClientCache holds a client for the address  *)
(* of a match function.                                                    *)
(*                                                                         *)
(* kind says which of them is used: a backend talks to the synchronizer    *)
(* and to match functions, from any number of requests at a time; a        *)
(* synchronizer talks to the evaluator, from one cycle at a time; other    *)
(* services only talk to the store.                                        *)
(***************************************************************************)
EXTENDS HttpEvaluate, Sequences

CONSTANTS
    Configs,        \* the contents the configuration may have
    MaxChanges,     \* how often the configuration changes
    Nobody          \* not a user

ASSUME NobodyAssumption == Nobody \notin Users
ASSUME ChangesAssumption == MaxChanges \in Nat

\* What a viewChangeDetector records: whether a port is set, and the values.
Keys == {"grpcSet", "httpSet", "grpcport", "httpport", "tls"}
Settings == {"grpcport", "httpport", "tls"}
Values == 0..2                          \* 0 is a setting that is not there
Unread == 3

ASSUME ConfigsAssumption == Configs \subseteq [Settings -> Values]

VARIABLES
    kind,           \* one of Kinds
    cfg,            \* the configuration, as the watched file has it
    changes,        \* how often it has changed
    m,              \* Cacher.m: who holds the mutex
    r,              \* Cacher.r: the values read, all Unread for nil
    v,              \* Cacher.v: the instance, 0 for nil
    built,          \* the values from which each instance was built
    open,           \* the instances that have not been closed
    use,            \* what each user is doing
    has,            \* the client each user was given
    quiet,          \* the users that have seen no change since they began
    entry,          \* ClientCache: the client of the address, 0 for none
    clients         \* its clients: their protocol, and who dialed meanwhile

cacherVars == <<m, r, v, built, open>>
cacheVars == <<entry, clients>>
clientVars == <<kind, cfg, changes, cacherVars, use, has, quiet, cacheVars,
                evaluateVars>>

Kinds == {"store", "synchronizer", "evaluator", "functions"}
Protocols == {"GRPC", "HTTP"}
Nothing == [k \in Keys |-> Unread]

ClientTypes ==
    /\ EvaluateTypes
    /\ kind \in Kinds
    /\ cfg \in Configs /\ changes \in 0..MaxChanges
    /\ m \in Users \cup {Nobody}
    /\ r \in [Keys -> Values \cup {Unread}]
    /\ built \in Seq([Keys -> Values \cup {Unread}])
    /\ v \in 0..Len(built) /\ open \subseteq 1..Len(built)
    /\ use \in [Users -> {"idle", "get", "reading", "using", "failed", "done"}
                           \cup Protocols]
    /\ has \in [Users -> Nat] /\ quiet \subseteq Users
    /\ clients \in Seq([protocol : Protocols, dialing : SUBSET Users])
    /\ entry \in 0..Len(clients)

ClientInit ==
    /\ EvaluateInit
    /\ kind \in Kinds
    /\ cfg \in Configs /\ changes = 0
    /\ m = Nobody /\ r = Nothing /\ v = 0 /\ built = <<>> /\ open = {}
    /\ use = [u \in Users |-> "idle"]
    /\ has = [u \in Users |-> 0]
    /\ quiet = {}
    /\ entry = 0 /\ clients = <<>>

Goes(u, to) == use' = [use EXCEPT ![u] = to]

-----------------------------------------------------------------------------
(* The configuration.                                                      *)

ChangeConfig ==
    /\ changes < MaxChanges
    /\ cfg' \in Configs \ {cfg}
    /\ changes' = changes + 1
    /\ quiet' = {}
    /\ UNCHANGED <<kind, cacherVars, use, has, cacheVars, evaluateVars>>

\* The value that the View returns for a key now.
SettingOf(k) == IF k = "grpcSet" THEN "grpcport" ELSE "httpport"

See(k) ==
    IF k \in Settings THEN cfg[k] ELSE IF cfg[SettingOf(k)] = 0 THEN 0 ELSE 1

\* Mutant: whether a value is set is not compared.
ValuesChanged ==
    \E k \in Settings : r[k] # Unread /\ r[k] # See(k)

hasChanges ==
    \E k \in Keys : r[k] # Unread /\ r[k] # See(k)

\* The values that the functions behind newInstance read, in order.
GRPCClientFromConfig == <<"grpcport", "tls">>
HTTPClientFromConfig == <<"httpport", "tls">>
newGrpcEvaluator == <<"grpcSet">> \o GRPCClientFromConfig
newHTTPEvaluator == <<"grpcSet", "httpSet">> \o HTTPClientFromConfig

\* Given the values seen, those to read: the evaluator's gRPC port is preferred
\* to its HTTP port.
Path ==
    IF kind = "synchronizer" THEN GRPCClientFromConfig
    ELSE IF r["grpcSet"] = 1 THEN newGrpcEvaluator
    ELSE IF r["httpSet"] = 1 THEN newHTTPEvaluator
    ELSE <<"grpcSet", "httpSet">>

Unseen == {i \in DOMAIN Path : r[Path[i]] = Unread}

-----------------------------------------------------------------------------
(* Cacher.                                                                 *)

locklessReset ==
    /\ open' = open \ {v}
    /\ v' = 0
    /\ r' = Nothing
    /\ UNCHANGED built

Stale == r = Nothing \/ hasChanges

\* A request, or the one cycle, calls Get.
Begin(u) ==
    /\ kind \in {"synchronizer", "evaluator"} /\ use[u] = "idle"
    /\ kind = "evaluator" => \A w \in Users : use[w] \in {"idle", "done"}
    /\ Goes(u, "get")
    /\ quiet' = quiet \cup {u}
    /\ UNCHANGED <<kind, cfg, changes, cacherVars, has, cacheVars, evaluateVars>>

\* evaluate and synchronize call the server with the instance they were given.
StartUse(u, i, values) ==
    /\ Goes(u, "using")
    /\ has' = [has EXCEPT ![u] = i]
    /\ IF kind = "evaluator" /\ values["httpport"] # Unread
       THEN StartEvaluate(u)
       ELSE UNCHANGED evaluateVars

GetCached(u) ==
    /\ use[u] = "get" /\ m = Nobody /\ ~Stale
    /\ StartUse(u, v, built[v])
    /\ UNCHANGED <<kind, cfg, changes, cacherVars, quiet, cacheVars>>

GetAnew(u) ==
    /\ use[u] = "get" /\ m = Nobody /\ Stale
    /\ m' = u /\ locklessReset /\ Goes(u, "reading")
    /\ UNCHANGED <<kind, cfg, changes, has, quiet, cacheVars, evaluateVars>>

Read(u) ==
    /\ use[u] = "reading" /\ m = u
    /\ \E i \in Unseen :
          /\ \A j \in Unseen : i <= j
          /\ r' = [r EXCEPT ![Path[i]] = See(Path[i])]
    /\ UNCHANGED <<kind, cfg, changes, m, v, built, open, use, has, quiet,
                   cacheVars, evaluateVars>>

NoType == r["grpcSet"] = 0 /\ r["httpSet"] = 0

Build(u) ==
    /\ use[u] = "reading" /\ m = u /\ Unseen = {} /\ ~NoType
    /\ built' = Append(built, r)
    /\ v' = Len(built) + 1
    /\ open' = open \cup {Len(built) + 1}
    /\ m' = Nobody
    /\ StartUse(u, Len(built) + 1, r)
    /\ UNCHANGED <<kind, cfg, changes, r, quiet, cacheVars>>

\* Mutant: the failed Get calls ForceReset, which waits for the mutex it holds.
KeepLock(u) == m' = u /\ Goes(u, "failed")

ReturnError(u) == m' = Nobody /\ Goes(u, "done")

\* The certificate to trust is missing, cannot be read, or is not one.
CannotConnect == "dial" \in Faults

\* An HTTP client needs an address that is a URL as well.
HTTPCannotConnect == CannotConnect \/ "address" \in Faults

BuildFails(u) ==
    /\ use[u] = "reading" /\ m = u /\ Unseen = {}
    /\ NoType \/ IF r["httpport"] # Unread THEN HTTPCannotConnect ELSE CannotConnect
    /\ locklessReset
    /\ ReturnError(u)
    /\ UNCHANGED <<kind, cfg, changes, has, quiet, cacheVars, evaluateVars>>

OverHttp(u) == main[u] # "off"

\* The call to the other server ends; one over a closed connection fails.
UseEnds(u) ==
    /\ use[u] = "using"
    /\ IF OverHttp(u) THEN main[u] = "ok" ELSE kind = "functions" \/ has[u] \in open
    /\ Goes(u, "done")
    /\ UNCHANGED <<kind, cfg, changes, cacherVars, has, quiet, cacheVars,
                   evaluateVars>>

UseFails(u) ==
    /\ use[u] = "using"
    /\ IF OverHttp(u) THEN main[u] = "error"
       ELSE "call" \in Faults \/ (kind # "functions" /\ has[u] \notin open)
    /\ Goes(u, IF kind = "evaluator" THEN "failed" ELSE "done")
    /\ UNCHANGED <<kind, cfg, changes, cacherVars, has, quiet, cacheVars,
                   evaluateVars>>

ForceReset(u) ==
    /\ use[u] = "failed" /\ m = Nobody
    /\ locklessReset
    /\ Goes(u, "done")
    /\ UNCHANGED <<kind, cfg, changes, m, has, quiet, cacheVars, evaluateVars>>

-----------------------------------------------------------------------------
(* ClientCache.                                                            *)

\* Mutant: what the cache has is not looked at.
NeverFound(protocol) == FALSE

Found(protocol) == entry # 0 /\ clients[entry].protocol = protocol

\* GetGRPC or GetHTTP loads the entry; a miss is not remembered anywhere.
Load(u, protocol) ==
    /\ kind = "functions" /\ use[u] = "idle"
    /\ IF Found(protocol)
       THEN Goes(u, "using") /\ has' = [has EXCEPT ![u] = entry]
       ELSE Goes(u, protocol) /\ UNCHANGED has
    /\ UNCHANGED <<kind, cfg, changes, cacherVars, quiet, cacheVars, evaluateVars>>

Dialing == {u \in Users : use[u] \in Protocols}

Store(u) ==
    /\ use[u] \in Protocols
    /\ clients' = Append(clients, [protocol |-> use[u], dialing |-> Dialing])
    /\ entry' = Len(clients) + 1
    /\ has' = [has EXCEPT ![u] = Len(clients) + 1]
    /\ Goes(u, "using")
    /\ UNCHANGED <<kind, cfg, changes, cacherVars, quiet, evaluateVars>>

DialFails(u) ==
    /\ use[u] \in Protocols
    /\ IF use[u] = "HTTP" THEN HTTPCannotConnect ELSE CannotConnect
    /\ Goes(u, "done")
    /\ UNCHANGED <<kind, cfg, changes, cacherVars, has, quiet, cacheVars,
                   evaluateVars>>

-----------------------------------------------------------------------------
HttpStep(u) ==
    /\ EvaluateStep(u) \/ DoFails(u) \/ Drain(u)
    /\ UNCHANGED <<kind, cfg, changes, cacherVars, use, has, quiet, cacheVars>>

Calls(u) ==
    \/ Begin(u) \/ GetCached(u) \/ GetAnew(u) \/ Read(u) \/ Build(u)
    \/ BuildFails(u) \/ UseEnds(u) \/ UseFails(u) \/ ForceReset(u)
    \/ \E protocol \in Protocols : Load(u, protocol)
    \/ Store(u) \/ DialFails(u) \/ HttpStep(u)

ClientNext == ChangeConfig \/ \E u \in Users : Calls(u)

-----------------------------------------------------------------------------
(* Properties.                                                             *)

\* Get gives what the configuration asks for: a Get during which the
\* configuration does not change returns an instance that was built from the
\* values the configuration has, including the choice between gRPC and HTTP,
\* whatever it was changed to while earlier instances were being built.
GetIsCurrent ==
    [][\A u \in quiet : use[u] \in {"get", "reading"} /\ use'[u] = "using" =>
          \A k \in Keys : built'[has'[u]][k] \in {Unread, See(k)}]_clientVars

\* A Cacher never leaks an instance: while nobody builds one, the instance it
\* holds is the only one that is open, after failed builds, changes of the
\* configuration and resets by a user whose call failed.
NoInstanceLeaks == open = {v} \ {0}

\* An instance is closed under a user of it only because the configuration
\* has changed since it was given out; the evaluator's never is, because a
\* cycle resets the Cacher only after its own call.
ClosedForCause ==
    \A u \in Users :
       use[u] = "using" /\ kind # "functions" /\ has[u] \notin open =>
          u \notin quiet /\ kind = "synchronizer"

\* A client that is in the ClientCache is replaced only by a call for the
\* other protocol or by a call that was already dialing when it was stored:
\* the connections that are lost this way are bounded by the calls that miss
\* at the same time.
ReplacedOnlyByRacers ==
    [][\A u \in Users : entry # 0 /\ Store(u) =>
          \/ clients[entry].protocol # use[u]
          \/ u \in clients[entry].dialing]_clientVars

\* GetGRPC and GetHTTP return a client of their own protocol also when the
\* address has been used with the other one.
OwnProtocol ==
    [][\A u \in Users, protocol \in Protocols :
          Load(u, protocol) /\ use'[u] = "using" =>
             clients[has'[u]].protocol = protocol]_clientVars

\* What the ClientCache keeps for an address is used as long as it fits, and no longer.
CacheFits == ReplacedOnlyByRacers /\ OwnProtocol

\* A send on the closed channel sc has ended the process.
Panicked == \E u \in Users : sender[u] = "panic"

\* Every call ends: Get never blocks for ever, not even after an instance that
\* could not be built, and neither does an evaluation over HTTP.
CallsEnd ==
    <>[](Panicked \/ \A u \in Users : use[u] \in {"idle", "done"})
=============================================================================
