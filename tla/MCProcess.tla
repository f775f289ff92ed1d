----------------------------- MODULE MCProcess -----------------------------
(***************************************************************************)
(* A process with two requests and one service.  The way up,               *)
(* its failures and the HTTP proxy are followed for a service that only    *)
(* talks to the store, the calls to other servers for requests that arrive *)
(* over gRPC, and changes of the configuration while the process is up.    *)
(***************************************************************************)
EXTENDS Process

MCServices == <<"views">>

Config(grpc, http, cert) ==
    [s \in Settings |-> CASE s = "grpcport" -> grpc [] s = "httpport" -> http
                          [] OTHER -> cert]

\* gRPC, gRPC elsewhere, gRPC with TLS, HTTP, and neither.
MCConfigs == {Config(1, 0, 0), Config(2, 1, 0), Config(1, 0, 1), Config(0, 1, 0),
              Config(0, 0, 0)}

Rest(route, id, header, body) ==
    [route |-> route, id |-> id, header |-> header, body |-> body]

\* Routes with an id in the path and with a body that may name another one,
\* and streams of up to two proposals.
MCRests ==
    {Rest(x, "i1", h, <<>>) : x \in ByPath, h \in {"ok", "bad"}}
    \cup {Rest("AcknowledgeBackfill", "i1", "ok", <<x>>) : x \in {"i1", "i2", "bad"}}
    \cup {Rest(x, "", "ok", b) :
            x \in Routes \ (ByPath \cup {"Evaluate"}), b \in {<<>>, <<"i2">>, <<"bad">>}}
    \cup {Rest("Evaluate", "", "ok", b) :
            b \in {<<>>} \cup {<<x>> : x \in {"i1", "bad"}}
                 \cup ({"i1", "bad"} \X {"i2", "bad"})}

Plain == Rest("GetTicket", "i1", "ok", <<>>)

OneThing ==
    /\ kind # "store" =>
          pc' # "unwind" /\ enabled = {} /\ tls' = "no"
          /\ \A q \in Users : req'[q] # "http"
    /\ \A q \in Users : rest'[q] \notin {NoRest, Plain} =>
          enabled = {} /\ tls' = "no" /\ \A o \in Users \ {q} : req'[o] = "idle"
    /\ IF kind \in {"store", "functions"} THEN UNCHANGED cfg ELSE pc' # "stop"

\* No exporter, one, or all.
MCInit == Init /\ enabled \in {{}, {"stackdriver"}, Exporters}

MCSpec == MCInit /\ [][Next /\ OneThing]_vars

MCFairSpec ==
    /\ MCSpec
    /\ WF_vars(Alive /\ Application /\ OneThing)
    /\ WF_vars(Alive /\ Handlers /\ OneThing)
=============================================================================
