---------------------------- MODULE RestRoutes ----------------------------
(***************************************************************************)
(* The request functions of the reverse proxy: what a REST request becomes *)
(* as a gRPC call.                                                         *)
(*                                                                         *)
(* A REST request names a route, may carry an id in its path, and has a    *)
(* body, a sequence of JSON values.  A message is abstracted to the id     *)
(* that it names; "" is a field that is not set and "bad" a value that     *)
(* cannot be decoded.                                                      *)
(***************************************************************************)
EXTENDS Stubs

CONSTANTS
    Rests           \* the REST requests that arrive

Streams == {"WatchAssignments", "FetchMatches", "QueryTickets",
            "QueryTicketIds", "QueryBackfills", "Run"}
ByPath == {"DeleteTicket", "GetTicket", "WatchAssignments",
           "DeleteBackfill", "GetBackfill", "AcknowledgeBackfill"}
Routes == Streams \cup ByPath \cup
          {"CreateTicket", "CreateBackfill", "UpdateBackfill", "AssignTickets",
           "ReleaseTickets", "ReleaseAllTickets", "Evaluate"}
Ids == {"", "i1", "i2"}
NoRest == [route |-> "none", id |-> "", header |-> "ok", body |-> <<>>]

ASSUME RestsAssumption ==
    Rests \subseteq [route : Routes, id : Ids, header : {"ok", "bad"},
                     body : Seq(Ids \cup {"bad"})]

-----------------------------------------------------------------------------
(* The request functions: the messages to send, or the code to answer.     *)

Refused(code) == [code |-> code, messages |-> <<>>]
Sends(method, id) ==
    [code |-> "OK", messages |-> <<[method |-> method, id |-> id]>>]

\* The decoder reads one value; a body without any leaves the message empty.
FromBody(method, http) ==
    IF http.body = <<>> THEN Sends(method, "")
    ELSE IF http.body[1] = "bad" THEN Refused("InvalidArgument")
    ELSE Sends(method, http.body[1])

FromPath(method, http) == Sends(method, http.id)

\* The body is decoded first, and the path replaces the id that it names.
FromBoth(method, http) ==
    IF http.body # <<>> /\ http.body[1] = "bad" THEN Refused("InvalidArgument")
    ELSE Sends(method, http.id)

request_FrontendService_CreateTicket(http) == FromBody("CreateTicket", http)
request_FrontendService_DeleteTicket(http) == FromPath("DeleteTicket", http)
request_FrontendService_GetTicket(http) == FromPath("GetTicket", http)
request_FrontendService_WatchAssignments(http) == FromPath("WatchAssignments", http)
request_FrontendService_AcknowledgeBackfill(http) == FromBoth("AcknowledgeBackfill", http)
request_FrontendService_CreateBackfill(http) == FromBody("CreateBackfill", http)
request_FrontendService_DeleteBackfill(http) == FromPath("DeleteBackfill", http)
request_FrontendService_GetBackfill(http) == FromPath("GetBackfill", http)
request_FrontendService_UpdateBackfill(http) == FromBody("UpdateBackfill", http)
request_BackendService_FetchMatches(http) == FromBody("FetchMatches", http)
request_BackendService_AssignTickets(http) == FromBody("AssignTickets", http)
request_BackendService_ReleaseTickets(http) == FromBody("ReleaseTickets", http)
request_BackendService_ReleaseAllTickets(http) == FromBody("ReleaseAllTickets", http)
request_QueryService_QueryTickets(http) == FromBody("QueryTickets", http)
request_QueryService_QueryTicketIds(http) == FromBody("QueryTicketIds", http)
request_QueryService_QueryBackfills(http) == FromBody("QueryBackfills", http)
request_MatchFunction_Run(http) == FromBody("Run", http)

\* The first message of a stream is sent before the response is awaited; a
\* value that cannot be decoded has no status, and becomes Unknown.
request_Evaluator_Evaluate(http) ==
    IF http.body = <<>> THEN [code |-> "OK", messages |-> <<>>]
    ELSE IF http.body[1] = "bad" THEN Refused("Unknown")
    ELSE Sends("Evaluate", http.body[1])

\* The handlers that are registered with the mux, by service.
TicketRoutes(http) ==
    [CreateTicket |-> request_FrontendService_CreateTicket(http),
     DeleteTicket |-> request_FrontendService_DeleteTicket(http),
     GetTicket |-> request_FrontendService_GetTicket(http),
     WatchAssignments |-> request_FrontendService_WatchAssignments(http)]

BackfillRoutes(http) ==
    [AcknowledgeBackfill |-> request_FrontendService_AcknowledgeBackfill(http),
     CreateBackfill |-> request_FrontendService_CreateBackfill(http),
     DeleteBackfill |-> request_FrontendService_DeleteBackfill(http),
     GetBackfill |-> request_FrontendService_GetBackfill(http),
     UpdateBackfill |-> request_FrontendService_UpdateBackfill(http)]

BackendRoutes(http) ==
    [FetchMatches |-> request_BackendService_FetchMatches(http),
     AssignTickets |-> request_BackendService_AssignTickets(http),
     ReleaseTickets |-> request_BackendService_ReleaseTickets(http),
     ReleaseAllTickets |-> request_BackendService_ReleaseAllTickets(http)]

QueryRoutes(http) ==
    [QueryTickets |-> request_QueryService_QueryTickets(http),
     QueryTicketIds |-> request_QueryService_QueryTicketIds(http),
     QueryBackfills |-> request_QueryService_QueryBackfills(http)]

FunctionRoutes(http) == [Run |-> request_MatchFunction_Run(http)]
EvaluatorRoutes(http) == [Evaluate |-> request_Evaluator_Evaluate(http)]

\* A header that is not understood is refused before the route is taken.
Request(http) ==
    IF http.header = "bad" THEN Refused("InvalidArgument")
    ELSE Find({TicketRoutes(http), BackfillRoutes(http), BackendRoutes(http),
               QueryRoutes(http), FunctionRoutes(http), EvaluatorRoutes(http)},
              http.route)

\* The server hears a message under the method that its stub calls.
Received(messages) ==
    [i \in DOMAIN messages |-> [messages[i] EXCEPT !.method = Served(@)]]
=============================================================================
