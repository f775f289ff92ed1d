------------------------------- MODULE Stubs -------------------------------
(***************************************************************************)
(* The generated gRPC stubs of the public services: which server method a  *)
(* client method ends in.                                                  *)
(*                                                                         *)
(* A client method names a path and, for a stream, the position of its     *)
(* descriptor; the server finds the handler by the name in the path; the   *)
(* handler calls a method of the implementation.                           *)
(***************************************************************************)
EXTENDS Naturals, Sequences

\* What one of several tables has under a name.
Find(tables, name) == (CHOOSE t \in tables : name \in DOMAIN t)[name]

\* A call with one request and one response.
Invoke(path) == [path |-> path, position |-> 0]

\* A stream; unless the client streams, its one request is sent at once.
NewStream(path, position) == [path |-> path, position |-> position + 1]

Method(handler) == [handler |-> handler, client |-> FALSE]
ServerStream(name, handler) == [name |-> name, handler |-> handler, client |-> FALSE]
BothStream(name, handler) == [name |-> name, handler |-> handler, client |-> TRUE]

-----------------------------------------------------------------------------
(* The clients.                                                            *)

frontendServiceClient ==
    [CreateTicket |-> Invoke("CreateTicket"),
     DeleteTicket |-> Invoke("DeleteTicket"),
     GetTicket |-> Invoke("GetTicket"),
     WatchAssignments |-> NewStream("WatchAssignments", 0),
     AcknowledgeBackfill |-> Invoke("AcknowledgeBackfill"),
     CreateBackfill |-> Invoke("CreateBackfill"),
     DeleteBackfill |-> Invoke("DeleteBackfill"),
     GetBackfill |-> Invoke("GetBackfill"),
     UpdateBackfill |-> Invoke("UpdateBackfill")]

backendServiceClient ==
    [FetchMatches |-> NewStream("FetchMatches", 0),
     AssignTickets |-> Invoke("AssignTickets"),
     ReleaseTickets |-> Invoke("ReleaseTickets"),
     ReleaseAllTickets |-> Invoke("ReleaseAllTickets")]

queryServiceClient ==
    [QueryTickets |-> NewStream("QueryTickets", 0),
     QueryTicketIds |-> NewStream("QueryTicketIds", 1),
     QueryBackfills |-> NewStream("QueryBackfills", 2)]

matchFunctionClient == [Run |-> NewStream("Run", 0)]
evaluatorClient == [Evaluate |-> NewStream("Evaluate", 0)]

-----------------------------------------------------------------------------
(* The servers: handlers, and the descriptors that name them.              *)

TicketHandlers ==
    [CreateTicket_Handler |-> "CreateTicket", DeleteTicket_Handler |-> "DeleteTicket",
     GetTicket_Handler |-> "GetTicket", WatchAssignments_Handler |-> "WatchAssignments"]

BackfillHandlers ==
    [AcknowledgeBackfill_Handler |-> "AcknowledgeBackfill",
     CreateBackfill_Handler |-> "CreateBackfill",
     DeleteBackfill_Handler |-> "DeleteBackfill",
     GetBackfill_Handler |-> "GetBackfill",
     UpdateBackfill_Handler |-> "UpdateBackfill"]

BackendHandlers ==
    [FetchMatches_Handler |-> "FetchMatches", AssignTickets_Handler |-> "AssignTickets",
     ReleaseTickets_Handler |-> "ReleaseTickets",
     ReleaseAllTickets_Handler |-> "ReleaseAllTickets"]

QueryHandlers ==
    [QueryTickets_Handler |-> "QueryTickets", QueryTicketIds_Handler |-> "QueryTicketIds",
     QueryBackfills_Handler |-> "QueryBackfills"]

RunHandler == [Run_Handler |-> "Run"]
EvaluateHandler == [Evaluate_Handler |-> "Evaluate"]

FrontendService_serviceDesc ==
    [Methods |-> [CreateTicket |-> Method("CreateTicket_Handler"),
                  DeleteTicket |-> Method("DeleteTicket_Handler"),
                  GetTicket |-> Method("GetTicket_Handler"),
                  AcknowledgeBackfill |-> Method("AcknowledgeBackfill_Handler"),
                  CreateBackfill |-> Method("CreateBackfill_Handler"),
                  DeleteBackfill |-> Method("DeleteBackfill_Handler"),
                  GetBackfill |-> Method("GetBackfill_Handler"),
                  UpdateBackfill |-> Method("UpdateBackfill_Handler")],
     Streams |-> <<ServerStream("WatchAssignments", "WatchAssignments_Handler")>>]

BackendService_serviceDesc ==
    [Methods |-> [AssignTickets |-> Method("AssignTickets_Handler"),
                  ReleaseTickets |-> Method("ReleaseTickets_Handler"),
                  ReleaseAllTickets |-> Method("ReleaseAllTickets_Handler")],
     Streams |-> <<ServerStream("FetchMatches", "FetchMatches_Handler")>>]

QueryService_serviceDesc ==
    [Methods |-> <<>>,
     Streams |-> <<ServerStream("QueryTickets", "QueryTickets_Handler"),
                   ServerStream("QueryTicketIds", "QueryTicketIds_Handler"),
                   ServerStream("QueryBackfills", "QueryBackfills_Handler")>>]

MatchFunction_serviceDesc ==
    [Methods |-> <<>>, Streams |-> <<ServerStream("Run", "Run_Handler")>>]

Evaluator_serviceDesc ==
    [Methods |-> <<>>, Streams |-> <<BothStream("Evaluate", "Evaluate_Handler")>>]

-----------------------------------------------------------------------------
(* A call from the client's method to the server's.                        *)

PublicServices ==
    {[client |-> frontendServiceClient, desc |-> FrontendService_serviceDesc,
      handlers |-> {TicketHandlers, BackfillHandlers}],
     [client |-> backendServiceClient, desc |-> BackendService_serviceDesc,
      handlers |-> {BackendHandlers}],
     [client |-> queryServiceClient, desc |-> QueryService_serviceDesc,
      handlers |-> {QueryHandlers}],
     [client |-> matchFunctionClient, desc |-> MatchFunction_serviceDesc,
      handlers |-> {RunHandler}],
     [client |-> evaluatorClient, desc |-> Evaluator_serviceDesc,
      handlers |-> {EvaluateHandler}]}

ServiceOf(method) == CHOOSE s \in PublicServices : method \in DOMAIN s.client

\* The server looks for the name among its methods, then among its streams.
EntryFor(desc, path) ==
    IF path \in DOMAIN desc.Methods THEN desc.Methods[path]
    ELSE CHOOSE e \in {desc.Streams[i] : i \in DOMAIN desc.Streams} : e.name = path

HandledBy(s, path) == Find(s.handlers, EntryFor(s.desc, path).handler)
ServedBy(s, method) == HandledBy(s, s.client[method].path)
Served(method) == ServedBy(ServiceOf(method), method)

\* The client takes the kind of its stream from the descriptor it points at.
StreamAt(streams, i) == i > 0 /\ streams[i].client
StreamOf(s, method) == StreamAt(s.desc.Streams, s.client[method].position)
ClientStreams(method) == StreamOf(ServiceOf(method), method)
=============================================================================
