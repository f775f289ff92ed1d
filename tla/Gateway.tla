------------------------------ MODULE Gateway ------------------------------
(***************************************************************************)
(* The reverse proxy: a REST request on its way to the gRPC server.  The   *)
(* messages of an Evaluate request are sent by a goroutine of their own    *)
(* while the response is being forwarded.                                  *)
(***************************************************************************)
EXTENDS Clients, RestRoutes

VARIABLES
    rest,           \* the REST request of each user
    heard,          \* the messages that the gRPC server has received for it
    sending,        \* the goroutine that sends them
    answer          \* what the REST client is told

gatewayVars == <<rest, heard, sending, answer>>

GatewayTypes ==
    /\ rest \in [Users -> Rests \cup {NoRest}]
    /\ heard \in [Users -> Seq([method : Routes, id : Ids])]
    /\ sending \in [Users -> {"no", "yes", "closed"}]
    /\ answer \in [Users -> {"none", "OK", "InvalidArgument", "Unknown", "error",
                             "lost"}]

GatewayInit ==
    /\ rest = [q \in Users |-> NoRest]
    /\ heard = [q \in Users |-> <<>>]
    /\ sending = [q \in Users |-> "no"]
    /\ answer = [q \in Users |-> "none"]

-----------------------------------------------------------------------------
(* The steps of a request, given whether the connection is there.          *)

Told(q, what) == answer' = [answer EXCEPT ![q] = what]

\* The request function returns an error of its own, or that of the call.
\* Evaluate opens its stream before it decodes anything.
Fails(q, connected) ==
    /\ \E code \in {Request(rest[q]).code} :
          \/ code # "OK" /\ (connected \/ code # "Unknown") /\ Told(q, code)
          \/ ~connected /\ code \in {"OK", "Unknown"} /\ Told(q, "lost")
    /\ UNCHANGED <<rest, heard, sending>>

CallsMethod(q) ==
    \E res \in {Request(rest[q])} :
       /\ res.code = "OK"
       /\ heard' = [heard EXCEPT ![q] = Received(res.messages)]
       /\ sending' = [sending EXCEPT ![q] =
                         IF ~ClientStreams(rest[q].route) THEN "no"
                         ELSE IF res.messages = <<>> THEN "closed" ELSE "yes"]
       /\ UNCHANGED <<rest, answer>>

\* Mutant: the stream is closed before the last value is sent.
BeforeTheEnd(q) == Len(heard[q]) + 1 >= Len(rest[q].body)

\* The values of the body end, or one of them cannot be decoded.
BodyEnds(q) ==
    \/ Len(heard[q]) = Len(rest[q].body)
    \/ rest[q].body[Len(heard[q]) + 1] = "bad"

\* The goroutine of Evaluate: it closes the stream also when it could not
\* decode or send a message, and tells nobody.
SendNext(q, connected) ==
    /\ sending[q] = "yes"
    /\ IF connected /\ ~BodyEnds(q)
       THEN /\ heard' = [heard EXCEPT ![q] = Append(@, [method |-> Served("Evaluate"),
                            id |-> rest[q].body[Len(@) + 1]])]
            /\ UNCHANGED sending
       ELSE sending' = [sending EXCEPT ![q] = "closed"] /\ UNCHANGED heard
    /\ UNCHANGED <<rest, answer>>

-----------------------------------------------------------------------------
(* Properties.                                                             *)

\* The server hears what the REST request says: the method of its route, the
\* id of its path whatever its body says, and of a stream of proposals a part
\* from its beginning in which everything could be decoded.
HeardAsAsked ==
    \A q \in Users : \A i \in DOMAIN heard[q] :
       /\ heard[q][i].method = rest[q].route /\ heard[q][i].id # "bad"
       /\ heard[q][i].id =
             IF rest[q].route \in ByPath THEN rest[q].id
             ELSE IF rest[q].body = <<>> THEN "" ELSE rest[q].body[i]

\* A REST client that is told OK was heard, with every proposal up to the end
\* of the body or the first one that could not be decoded; one whose request
\* is refused was not heard at all.
AnswerIsTruthful ==
    \A q \in Users :
       /\ answer[q] = "OK" =>
             IF rest[q].route = "Evaluate"
             THEN \A i \in DOMAIN rest[q].body : i > Len(heard[q]) =>
                     \E j \in Len(heard[q])..i : j > 0 /\ rest[q].body[j] = "bad"
             ELSE Len(heard[q]) = 1
       /\ answer[q] \in {"InvalidArgument", "Unknown"} => heard[q] = <<>>

\* The REST interface stands for the gRPC one: what the server hears is what was
\* asked, and what the client is told is what became of it.
RestIsFaithful == HeardAsAsked /\ AnswerIsTruthful
=============================================================================
