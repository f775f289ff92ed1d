----------------------------- MODULE Evaluator -----------------------------
(***************************************************************************)
(* The default evaluator in the evaluator harness: one Evaluate call.      *)
(* Three goroutines share the unbuffered channels in and out: one receives *)
(* proposals from the stream, one evaluates them, one sends the accepted   *)
(* ids back.  The harness ties them together with an error group.  The ids *)
(* a call accepts form a set: nothing depends on their order.              *)
(***************************************************************************)
EXTENDS Naturals

CONSTANTS
    Matches,    \* the proposals of the call, with ids of their own
    Tickets,    \* the tickets they may contain
    Backfills,  \* the existing backfills they may name
    MaxScore,   \* bound: scores are 1 .. MaxScore, 0 is no score
    Faults,     \* what may fail: "recv" or "send" on the stream
    None        \* no value

ASSUME EvaluatorConstants ==
    /\ MaxScore \in Nat /\ Faults \subseteq {"recv", "send"}
    /\ None \notin Backfills /\ None \notin Matches

VARIABLES
    tickets,        \* match -> its tickets
    backfill,       \* match -> the id of its backfill, or None if none or new
    score,          \* match -> its DefaultEvaluationCriteria.Score
    malformed,      \* matches whose criteria cannot be unmarshalled
    todo,           \* proposals the client has not sent yet
    recv,           \* receiver: "recv", "offer" or "done"
    offered,        \* the proposal the receiver offers on in, or None
    eval,           \* evaluate: "collect", "decollide", "emit" or "done"
    matches,        \* collected and not yet considered
    ticketsUsed, backfillsUsed, resultIDs,  \* the decollider
    unsent,         \* ids of resultIDs not yet given to out
    send,           \* sender: "wait", "send", "drain" or "done"
    sending,        \* the id the sender holds, or None
    responses,      \* ids sent on the stream
    err             \* whether a goroutine has failed, which cancels the context

inputVars == <<tickets, backfill, score, malformed>>
recvVars == <<todo, recv, offered>>
evalVars == <<eval, matches, ticketsUsed, backfillsUsed, resultIDs, unsent>>
sendVars == <<send, sending, responses>>
vars == <<inputVars, recvVars, evalVars, sendVars, err>>

Init ==
    /\ tickets \in [Matches -> SUBSET Tickets]
    /\ backfill \in [Matches -> Backfills \cup {None}]
    /\ score \in [Matches -> 0 .. MaxScore]
    /\ malformed \in SUBSET Matches
    /\ todo = Matches /\ recv = "recv" /\ offered = None
    /\ eval = "collect" /\ matches = {}
    /\ ticketsUsed = {} /\ backfillsUsed = {} /\ resultIDs = {} /\ unsent = {}
    /\ send = "wait" /\ sending = None /\ responses = {}
    /\ err = "none"
-----------------------------------------------------------------------------
(* The receiver. *)

Recv(m) ==
    /\ recv = "recv" /\ m \in todo
    /\ todo' = todo \ {m} /\ offered' = m /\ recv' = "offer"
    /\ UNCHANGED <<inputVars, evalVars, sendVars, err>>

RecvEOF ==
    /\ recv = "recv" /\ todo = {}
    /\ recv' = "done" /\ UNCHANGED <<todo, offered>>
    /\ UNCHANGED <<inputVars, evalVars, sendVars, err>>

\* A failed Recv, which also ends the input of evaluate.
RecvFails ==
    /\ recv = "recv" /\ "recv" \in Faults
    /\ recv' = "done" /\ err' = "some" /\ UNCHANGED <<todo, offered>>
    /\ UNCHANGED <<inputVars, evalVars, sendVars>>

\* The stream's context ends, with its client, while the receiver offers a
\* proposal; the goroutines' own failures come too early or too late for that.
RecvCancelled ==
    /\ recv = "offer" /\ "recv" \in Faults
    /\ recv' = "done" /\ offered' = None /\ err' = "some" /\ UNCHANGED todo
    /\ UNCHANGED <<inputVars, evalVars, sendVars>>
-----------------------------------------------------------------------------
(* evaluate. *)

\* A proposal with malformed criteria is rejected.
Collect ==
    /\ recv = "offer" /\ eval = "collect"
    /\ matches' = matches \cup ({offered} \ malformed)
    /\ recv' = "recv" /\ offered' = None
    /\ UNCHANGED <<inputVars, todo, eval, ticketsUsed, backfillsUsed, resultIDs,
                   unsent, sendVars, err>>

\* in is closed.
Collected ==
    /\ eval = "collect" /\ recv = "done"
    /\ eval' = "decollide"
    /\ UNCHANGED <<inputVars, recvVars, matches, ticketsUsed, backfillsUsed,
                   resultIDs, unsent, sendVars, err>>

WorstFirst(m) == m \in matches /\ \A n \in matches : score[m] <= score[n]

\* sort.Sort(byScore): highest scores first, equal ones in any order.
Best(m) == m \in matches /\ \A n \in matches : score[m] >= score[n]

Collides(m) ==
    \/ backfill[m] # None /\ backfill[m] \in backfillsUsed
    \/ \E t \in tickets[m] : t \in ticketsUsed

Marked(m) == ticketsUsed \cup tickets[m]

BackfillMarked(m) == backfillsUsed \cup ({backfill[m]} \ {None})

MaybeAdd(m) ==
    /\ eval = "decollide" /\ Best(m)
    /\ matches' = matches \ {m}
    /\ \/ Collides(m) /\ UNCHANGED <<ticketsUsed, backfillsUsed, resultIDs, unsent>>
       \/ /\ ~Collides(m)
          /\ backfillsUsed' = BackfillMarked(m)
          /\ ticketsUsed' = Marked(m)
          /\ resultIDs' = resultIDs \cup {m} /\ unsent' = unsent \cup {m}
    /\ UNCHANGED <<inputVars, recvVars, eval, sendVars, err>>

Decollided ==
    /\ eval = "decollide" /\ matches = {}
    /\ eval' = "emit"
    /\ UNCHANGED <<inputVars, recvVars, matches, ticketsUsed, backfillsUsed,
                   resultIDs, unsent, sendVars, err>>

\* All ids are out, and out is closed.
Emitted ==
    /\ eval = "emit" /\ unsent = {}
    /\ eval' = "done"
    /\ UNCHANGED <<inputVars, recvVars, matches, ticketsUsed, backfillsUsed,
                   resultIDs, unsent, sendVars, err>>
-----------------------------------------------------------------------------
(* The sender, which drains out after an error. *)

Receiving == {"wait", "drain"}

TakeOut(m) ==
    /\ eval = "emit" /\ m \in unsent /\ send \in Receiving
    /\ unsent' = unsent \ {m}
    /\ \/ send = "wait" /\ send' = "send" /\ sending' = m
       \/ send = "drain" /\ UNCHANGED <<send, sending>>
    /\ UNCHANGED <<inputVars, recvVars, eval, matches, ticketsUsed, backfillsUsed,
                   resultIDs, responses, err>>

Gone == "done"

AfterFailure == "drain"

Send ==
    /\ send = "send" /\ sending' = None
    /\ \/ send' = "wait" /\ responses' = responses \cup {sending} /\ UNCHANGED err
       \/ /\ "send" \in Faults
          /\ send' = AfterFailure /\ err' = "some" /\ UNCHANGED responses
    /\ UNCHANGED <<inputVars, recvVars, evalVars>>

\* out is closed.
Sent ==
    /\ eval = "done" /\ send \in Receiving
    /\ send' = "done" /\ UNCHANGED <<sending, responses>>
    /\ UNCHANGED <<inputVars, recvVars, evalVars, err>>

\* g.Wait returns: with nil unless err.
Returned == recv = "done" /\ eval = "done" /\ send = "done"

Next ==
    \/ \E m \in Matches : Recv(m) \/ MaybeAdd(m) \/ TakeOut(m)
    \/ RecvEOF \/ RecvFails \/ RecvCancelled
    \/ Collect \/ Collected \/ Decollided \/ Emitted \/ Send \/ Sent

Spec == Init /\ [][Next]_vars

\* The client sends its proposals and the goroutines run.
FairSpec == Spec /\ WF_vars(Next)
-----------------------------------------------------------------------------
(* Properties. *)

\* Every variable stays in its type; a goroutine holds a value only when its
\* place says so.
TypeOK ==
    /\ tickets \in [Matches -> SUBSET Tickets]
    /\ backfill \in [Matches -> Backfills \cup {None}]
    /\ score \in [Matches -> 0 .. MaxScore] /\ malformed \subseteq Matches
    /\ todo \subseteq Matches /\ matches \subseteq Matches
    /\ resultIDs \subseteq Matches /\ unsent \subseteq resultIDs
    /\ responses \subseteq resultIDs
    /\ ticketsUsed \subseteq Tickets /\ backfillsUsed \subseteq Backfills
    /\ recv \in {"recv", "offer", "done"}
    /\ offered \in Matches \cup {None} /\ (offered # None) = (recv = "offer")
    /\ eval \in {"collect", "decollide", "emit", "done"}
    /\ send \in {"wait", "send", "drain", "done"}
    /\ sending \in resultIDs \cup {None} /\ (sending # None) = (send = "send")
    /\ err \in {"none", "some"}

Conflict(m, n) ==
    \/ backfill[m] # None /\ backfill[m] = backfill[n]
    \/ \E t \in tickets[m] : t \in tickets[n]

\* No two ids that evaluate returns share a ticket or an existing backfill, even
\* when the stream failed and the input was cut short.
AcceptedDisjoint ==
    \A m, n \in responses : m # n => ~Conflict(m, n)

\* A call that succeeds turns a proposal down only if it is malformed or if it
\* collides with an accepted one that scores at least as high.
RejectedForBetter ==
    Returned /\ err = "none" =>
      \A m \in Matches \ responses :
        \/ m \in malformed
        \/ \E n \in responses : Conflict(m, n) /\ score[n] >= score[m]

\* The ids of a call are a greedy choice: without collisions, and nothing is turned
\* down but for something at least as good.
GreedyChoice == AcceptedDisjoint /\ RejectedForBetter

\* The call returns whatever fails: nobody waits for a goroutine that has gone.
CallReturns == <>Returned
=============================================================================
