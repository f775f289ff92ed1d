------------------------------ MODULE Process ------------------------------
(***************************************************************************)
(* A server process from NewApplication to the end of Stop.                *)
(*                                                                         *)
(* The telemetry exporters and the views of the services are registered    *)
(* one after the other, each with a closer; then the gRPC server and the   *)
(* HTTP server start.  The HTTP server is a proxy: it forwards every       *)
(* request to the gRPC server over a connection of its own.  Stop, or a    *)
(* failure on the way up, runs the closers from the last to the first.     *)
(* The handlers call other servers through the clients of Clients.         *)
(***************************************************************************)
EXTENDS Gateway

CONSTANTS
    Services        \* the services BindService binds, in order

ASSUME ServicesAssumption == Services \in Seq(STRING)

VARIABLES
    pc,             \* where NewApplication or Stop is
    at,             \* the next service to bind
    enabled,        \* the exporters that the configuration enables
    bound,          \* what is registered, and in which registry
    viewErr,        \* Bindings.firstErr
    tls,            \* whether the servers have a certificate
    closers,        \* App.closers: what each takes back, or the server
    listeners,      \* the ports the process listens on
    serving,        \* the servers that accept requests
    proxy,          \* the connection of the HTTP server to the gRPC server
    req             \* how far each request has come

startVars == <<at, enabled, viewErr, tls>>
serverVars == <<listeners, serving, proxy>>
processVars == <<pc, startVars, bound, closers, serverVars, req>>
vars == <<processVars, clientVars, gatewayVars>>
others == <<clientVars, gatewayVars>>

\* Traces go to trace exporters and statistics to view exporters.
Registries == [jaeger |-> {"trace"}, prometheus |-> {"view"},
               stackdriver |-> {"view", "trace"}, agent |-> {"view", "trace"}]
Exporters == DOMAIN Registries
Range(s) == {s[i] : i \in DOMAIN s}

\* What the exporters that are enabled register, and what the services do.
Exported == UNION {{<<g, x>> : g \in Registries[x]} : x \in enabled}
Viewed == {<<"views", x>> : x \in Range(Services)}
Everything == Exported \cup Viewed

Closers == [what : {"undo"}, of : SUBSET Everything] \cup {[what |-> "server"]}

TypeOK ==
    /\ ClientTypes /\ GatewayTypes
    /\ pc \in {"params", "telemetry", "jaeger", "prometheus", "stackdriver",
               "agent", "bind", "start", "proxies", "up", "stop", "unwind",
               "http", "grpc", "stopped", "failed", "exited"}
    /\ at \in Nat /\ enabled \subseteq Exporters
    /\ bound \subseteq Everything
    /\ viewErr \in {"nil", "error"} /\ tls \in {"no", "yes"}
    /\ closers \in Seq(Closers)
    /\ listeners \subseteq {"grpc", "http"} /\ serving \subseteq listeners
    /\ proxy \in {"none", "open", "closed"}
    /\ req \in [Users -> {"idle", "http", "proxied", "orphan", "rpc", "done"}]

Init ==
    /\ ClientInit /\ GatewayInit
    /\ pc = "params" /\ at = 1 /\ enabled \in SUBSET Exporters
    /\ bound = {} /\ viewErr = "nil" /\ tls = "no" /\ closers = <<>>
    /\ listeners = {} /\ serving = {} /\ proxy = "none"
    /\ req = [q \in Users |-> "idle"]

-----------------------------------------------------------------------------
(* NewApplication.                                                         *)

MayFail == "setup" \in Faults

\* AddCloser, for something that has just been registered.
Bind(registered, undone) ==
    /\ bound' = bound \cup registered
    /\ closers' = Append(closers, [what |-> "undo", of |-> undone])

SetTLSConfiguration == tls' = "yes"
usingTLS == tls = "yes"

\* A listener or a certificate that is not to be had ends the process.
NewServerParams ==
    /\ pc = "params"
    /\ \/ /\ pc' = "telemetry" /\ listeners' = {"grpc", "http"}
          /\ SetTLSConfiguration \/ UNCHANGED tls
       \/ MayFail /\ pc' = "exited" /\ UNCHANGED <<listeners, tls>>
    /\ UNCHANGED <<at, enabled, viewErr, bound, closers, serving, proxy, req, others>>

configureOpenCensus ==
    /\ pc = "telemetry"
    /\ pc' = "jaeger" \/ (MayFail /\ pc' = "unwind")
    /\ UNCHANGED <<startVars, bound, closers, serverVars, req, others>>

\* One function of Setup: an exporter that is enabled is created, which may
\* fail, and registered; the registries its closer clears are its own.
Exporter(x, registries, cleared, next) ==
    /\ pc = x
    /\ \/ x \notin enabled /\ pc' = next /\ UNCHANGED <<bound, closers>>
       \/ /\ x \in enabled /\ pc' = next
          /\ Bind({<<g, x>> : g \in registries}, {<<g, x>> : g \in cleared})
       \/ x \in enabled /\ MayFail /\ pc' = "unwind" /\ UNCHANGED <<bound, closers>>
    /\ UNCHANGED <<startVars, serverVars, req, others>>

bindJaeger == Exporter("jaeger", {"trace"}, {"trace"}, "prometheus")
bindPrometheus == Exporter("prometheus", {"view"}, {"view"}, "stackdriver")
bindStackDriverMetrics ==
    Exporter("stackdriver", {"view", "trace"}, {"view", "trace"}, "agent")
bindOpenCensusAgent == Exporter("agent", {"trace", "view"}, {"view", "trace"}, "bind")

\* Views that cannot be registered are reported after all services are bound.
RegisterViews ==
    /\ pc = "bind" /\ at <= Len(Services)
    /\ \/ /\ Bind({<<"views", Services[at]>>}, {<<"views", Services[at]>>})
          /\ UNCHANGED viewErr
       \/ MayFail /\ viewErr' = "error" /\ UNCHANGED <<bound, closers>>
    /\ at' = at + 1
    /\ UNCHANGED <<pc, enabled, tls, serverVars, req, others>>

ServicesBound ==
    /\ pc = "bind" /\ at > Len(Services)
    /\ pc' = IF viewErr = "nil" THEN "start" ELSE "unwind"
    /\ UNCHANGED <<startVars, bound, closers, serverVars, req, others>>

\* The gRPC server accepts calls as soon as it is started.
StartGrpc ==
    /\ pc = "start" /\ pc' = "proxies"
    /\ serving' = {"grpc"} /\ proxy' = "open"
    /\ UNCHANGED <<startVars, bound, closers, listeners, req, others>>

\* A TLS server may find its certificates unusable before that.
CertificateFails ==
    /\ pc = "start" /\ usingTLS /\ MayFail
    /\ pc' = "unwind"
    /\ UNCHANGED <<startVars, bound, closers, serverVars, req, others>>

\* The gRPC server goes on when a proxy cannot be registered: nothing stops
\* it, because its closer is added last.
StartHttp ==
    /\ pc = "proxies"
    /\ \/ /\ pc' = "up" /\ serving' = {"grpc", "http"}
          /\ closers' = Append(closers, [what |-> "server"]) /\ UNCHANGED proxy
       \/ /\ MayFail /\ pc' = "unwind" /\ proxy' = "closed"
          /\ UNCHANGED <<serving, closers>>
    /\ UNCHANGED <<startVars, bound, listeners, req, others>>

-----------------------------------------------------------------------------
(* Stop.                                                                   *)

Signal ==
    /\ pc = "up" /\ pc' = "stop"
    /\ UNCHANGED <<startVars, bound, closers, serverVars, req, others>>

\* Mutant: the first closer comes first.
InOrder == closers[1]

NextCloser == closers[Len(closers)]
MoreClosers == Len(closers) > 0

PortsLeft == {"grpc"}

\* The servers stop as StopHttp and StopGrpc say; everything else is one step.
RunCloser ==
    /\ pc \in {"stop", "unwind"} /\ MoreClosers
    /\ IF NextCloser.what = "server"
       THEN /\ pc' = "http"
            /\ serving' = {"grpc"} /\ listeners' = PortsLeft
            /\ UNCHANGED bound
       ELSE /\ bound' = bound \ NextCloser.of
            /\ UNCHANGED <<pc, serving, listeners>>
    /\ closers' = SubSeq(closers, 1, Len(closers) - 1)
    /\ UNCHANGED <<startVars, proxy, req, others>>

ClosersDone ==
    /\ pc \in {"stop", "unwind"} /\ ~MoreClosers
    /\ pc' = IF pc = "stop" THEN "stopped" ELSE "failed"
    /\ UNCHANGED <<startVars, bound, closers, serverVars, req, others>>

\* Serve returns as soon as Shutdown begins, and cancels the context of the
\* proxy; that closes its connection under the requests it is forwarding.
ServeReturns ==
    /\ "http" \notin serving /\ pc \in {"http", "grpc", "stop", "stopped"}
    /\ proxy = "open" /\ proxy' = "closed"
    /\ UNCHANGED <<pc, startVars, bound, closers, listeners, serving, req,
                   others>>

\* Shutdown waits for the HTTP handlers, and GracefulStop follows.
StopHttp ==
    /\ pc = "http" /\ \A q \in Users : req[q] \notin {"http", "proxied"}
    /\ pc' = "grpc" /\ serving' = {} /\ listeners' = {}
    /\ UNCHANGED <<startVars, bound, closers, proxy, req, others>>

Running(q) == req[q] \in {"proxied", "orphan", "rpc"}

HandlersDone == \A q \in Users : ~Running(q)

StopGrpc ==
    /\ pc = "grpc" /\ HandlersDone
    /\ pc' = "stop"
    /\ UNCHANGED <<startVars, bound, closers, serverVars, req, others>>

-----------------------------------------------------------------------------
(* Requests.                                                               *)

Arrive(q) ==
    /\ req[q] = "idle"
    /\ \/ /\ "grpc" \in serving
          /\ req' = [req EXCEPT ![q] = "rpc"] /\ UNCHANGED rest
       \/ /\ "http" \in serving
          /\ req' = [req EXCEPT ![q] = "http"]
          /\ \E h \in Rests : rest' = [rest EXCEPT ![q] = h]
    /\ UNCHANGED <<pc, startVars, bound, closers, serverVars, clientVars, heard,
                   sending, answer>>

\* The proxy refuses the request or calls the gRPC server; an Evaluate that it
\* refuses has reached its handler, whose stream is then cancelled.
Forward(q) ==
    /\ req[q] = "http"
    /\ \/ /\ Fails(q, proxy = "open")
          /\ req' = [req EXCEPT ![q] = IF answer'[q] = "Unknown" THEN "orphan" ELSE "done"]
       \/ proxy = "open" /\ CallsMethod(q) /\ req' = [req EXCEPT ![q] = "proxied"]
    /\ UNCHANGED <<pc, startVars, bound, closers, serverVars, clientVars>>

Send(q) ==
    /\ SendNext(q, req[q] = "proxied" /\ proxy = "open")
    /\ UNCHANGED <<processVars, clientVars>>

\* The proxy's call fails; the handler behind it goes on until it returns.
LoseProxy(q) ==
    /\ req[q] = "proxied" /\ proxy = "closed"
    /\ req' = [req EXCEPT ![q] = "orphan"]
    /\ Told(q, "lost")
    /\ UNCHANGED <<pc, startVars, bound, closers, serverVars, clientVars, rest,
                   heard, sending>>

\* The interceptors pass on what a handler returns; the one that recovers makes
\* an error of a panic, so that no request ends the process by itself.
Outcomes == {"OK"} \cup {"error" : f \in Faults \cap {"call"}}

\* A handler that calls another server itself returns after that call; one
\* that has joined a cycle may be cancelled while the cycle goes on.  An
\* evaluator succeeds only after the end of its input.
Return(q) ==
    /\ Running(q) /\ (req[q] = "proxied" => proxy = "open")
    /\ kind = "evaluator" \/ use[q] \in {"idle", "done"}
    /\ req' = [req EXCEPT ![q] = "done"]
    /\ \E code \in Outcomes :
          /\ code = "OK" => sending[q] # "yes"
          /\ IF req[q] = "proxied" THEN Told(q, code) ELSE UNCHANGED answer
    /\ UNCHANGED <<pc, startVars, bound, closers, serverVars, clientVars, rest,
                   heard, sending>>

\* A handler calls another server, or starts a cycle that does.
Call(q) ==
    /\ use[q] = "idle" => Running(q)
    /\ Calls(q)
    /\ UNCHANGED <<processVars, gatewayVars>>

\* Changes before the process is up are covered by the choice of cfg in Init.
Reload == pc = "up" /\ ChangeConfig /\ UNCHANGED <<processVars, gatewayVars>>

-----------------------------------------------------------------------------
Alive == pc # "exited" /\ ~Panicked

Application ==
    \/ NewServerParams \/ configureOpenCensus \/ bindJaeger \/ bindPrometheus
    \/ bindStackDriverMetrics \/ bindOpenCensusAgent \/ RegisterViews
    \/ ServicesBound \/ StartGrpc \/ CertificateFails \/ StartHttp
    \/ RunCloser \/ ClosersDone \/ ServeReturns \/ StopHttp \/ StopGrpc

Handlers ==
    \/ \E q \in Users : Forward(q) \/ Send(q) \/ LoseProxy(q) \/ Return(q)
    \/ \E q \in Users : Call(q)

Next ==
    /\ Alive
    /\ Application \/ Handlers \/ Signal \/ Reload \/ \E q \in Users : Arrive(q)

Spec == Init /\ [][Next]_vars

\* The process takes its next step, and so does some handler.
FairSpec ==
    /\ Spec
    /\ WF_vars(Alive /\ Application)
    /\ WF_vars(Alive /\ Handlers)

-----------------------------------------------------------------------------
(* Properties.                                                             *)

\* Nothing is taken away under a handler: from the moment the process is up
\* until the last handler has returned, every exporter and view is registered;
\* Stop runs the closers in reverse order, and the servers are closed first.
BoundWhileHandling ==
    pc \in {"up", "stop", "http", "grpc", "stopped"}
    /\ (\E q \in Users : Running(q) \/ req[q] = "http") => bound = Everything

\* Whatever was registered is taken back by a Stop and by a failed start,
\* wherever it failed; after a Stop no port is open either.
StopUndoesAll ==
    /\ pc \in {"stopped", "failed"} => bound = {}
    /\ pc = "stopped" => listeners = {} /\ serving = {}

\* A process has what it registered exactly as long as something may use it.
BoundInv == TypeOK /\ BoundWhileHandling /\ StopUndoesAll

\* Stop returns, although requests may arrive while it begins and their calls
\* to other servers fail or find their connections closed.
StopReturns == <>[](pc \notin {"stop", "http", "grpc"} \/ Panicked)

\* Every REST request is answered, whatever becomes of the connection of the
\* proxy and of the goroutine that sends its messages, and that goroutine ends.
RestAnswered ==
    <>[](\A q \in Users : rest[q] # NoRest => answer[q] # "none" /\ sending[q] # "yes")

\* Nobody waits for ever: not a caller, not a REST client and not Stop.
EveryoneGetsThrough == CallsEnd /\ StopReturns /\ RestAnswered
=============================================================================
