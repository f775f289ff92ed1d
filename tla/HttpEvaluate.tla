---------------------------- MODULE HttpEvaluate ----------------------------
(***************************************************************************)
(* httpEvaluatorClient.evaluate: proposals are written to the body of an   *)
(* HTTP request by one goroutine while another reads the response.  Both   *)
(* report through channels of one place, sc and rc, which evaluate closes  *)
(* when it returns.                                                        *)
(***************************************************************************)
EXTENDS Integers

CONSTANTS
    Users,          \* the cycles that call the evaluator
    MaxProposals,   \* how many proposals a cycle has at most
    Faults          \* "call" when the HTTP call may fail or time out

ASSUME ProposalsAssumption == MaxProposals \in Nat

VARIABLES
    main,           \* evaluate itself
    sender,         \* the goroutine that writes the request
    receiver,       \* the goroutine that reads the response
    left,           \* proposals that are still to come from pc
    pipe,           \* whether the reading end of the request body is open
    sc,             \* the channel of the sender
    rc              \* the channel of the receiver

evaluateVars == <<main, sender, receiver, left, pipe, sc, rc>>

EvaluateTypes ==
    /\ main \in [Users -> {"off", "do", "wait", "ok", "error"}]
    /\ sender \in [Users -> {"off", "range", "write", "done", "panic"}]
    /\ receiver \in [Users -> {"off", "decode", "done"}]
    /\ left \in [Users -> 0..MaxProposals]
    /\ pipe \in [Users -> {"open", "closed"}]
    /\ sc \in [Users -> {"empty", "error", "closed"}]
    /\ rc \in [Users -> {"empty", "error"}]

EvaluateInit ==
    /\ main = [u \in Users |-> "off"]
    /\ sender = [u \in Users |-> "off"]
    /\ receiver = [u \in Users |-> "off"]
    /\ left = [u \in Users |-> 0]
    /\ pipe = [u \in Users |-> "open"]
    /\ sc = [u \in Users |-> "empty"]
    /\ rc = [u \in Users |-> "empty"]

StartEvaluate(u) ==
    \E n \in 0..MaxProposals :
       /\ left' = [left EXCEPT ![u] = n]
       /\ main' = [main EXCEPT ![u] = "do"]
       /\ sender' = [sender EXCEPT ![u] = "range"]
       /\ UNCHANGED <<receiver, pipe, sc, rc>>

\* httpClient.Do returns the head of the response; the body is read next.
Respond(u) ==
    /\ main[u] = "do"
    /\ main' = [main EXCEPT ![u] = "wait"]
    /\ receiver' = [receiver EXCEPT ![u] = "decode"]
    /\ UNCHANGED <<sender, left, pipe, sc, rc>>

\* Do fails: evaluate returns at once, without waiting for the sender.
DoFails(u) ==
    /\ main[u] = "do" /\ "call" \in Faults
    /\ main' = [main EXCEPT ![u] = "error"]
    /\ pipe' = [pipe EXCEPT ![u] = "closed"]
    /\ sc' = [sc EXCEPT ![u] = "closed"]
    /\ UNCHANGED <<sender, receiver, left, rc>>

Take(u) ==
    /\ sender[u] = "range" /\ left[u] > 0
    /\ left' = [left EXCEPT ![u] = @ - 1]
    /\ sender' = [sender EXCEPT ![u] = "write"]
    /\ UNCHANGED <<main, receiver, pipe, sc, rc>>

\* wrapEvaluator takes what is left once evaluate has failed.
Drain(u) ==
    /\ main[u] = "error" /\ left[u] > 0
    /\ left' = [left EXCEPT ![u] = @ - 1]
    /\ UNCHANGED <<main, sender, receiver, pipe, sc, rc>>

\* A write to a pipe that nobody reads fails, and the failure is reported on
\* sc; sending on a closed channel ends the process.
PipeWrite(u) ==
    /\ sender[u] = "write"
    /\ sender' = [sender EXCEPT ![u] =
                    CASE pipe[u] = "open" -> "range"
                      [] pipe[u] = "closed" /\ sc[u] = "closed" -> "panic"
                      [] OTHER -> "done"]
    /\ sc' = [sc EXCEPT ![u] =
                    IF pipe[u] = "closed" /\ @ = "empty" THEN "error" ELSE @]
    /\ UNCHANGED <<main, receiver, left, pipe, rc>>

SenderEnds(u) ==
    /\ sender[u] = "range" /\ left[u] = 0
    /\ sender' = [sender EXCEPT ![u] = "done"]
    /\ UNCHANGED <<main, receiver, left, pipe, sc, rc>>

\* The response ends, or cannot be read any further; the transport then
\* gives up the request body.
ReceiverEnds(u) ==
    /\ receiver[u] = "decode"
    /\ receiver' = [receiver EXCEPT ![u] = "done"]
    /\ rc' \in {rc} \cup {[rc EXCEPT ![u] = "error"] : f \in Faults \cap {"call"}}
    /\ pipe' = [pipe EXCEPT ![u] = "closed"]
    /\ UNCHANGED <<main, sender, left, sc>>

\* Mutant: only the receiver is in the wait group.
ReceiverOnly(u) == receiver[u] = "done"

WaitGroupDone(u) == sender[u] = "done" /\ receiver[u] = "done"

Finish(u) ==
    /\ main[u] = "wait" /\ WaitGroupDone(u)
    /\ main' = [main EXCEPT ![u] =
                  IF sc[u] = "error" \/ rc[u] = "error" THEN "error" ELSE "ok"]
    /\ UNCHANGED <<sender, receiver, left, pipe, sc, rc>>

EvaluateStep(u) ==
    \/ Respond(u) \/ Take(u) \/ PipeWrite(u) \/ SenderEnds(u)
    \/ ReceiverEnds(u) \/ Finish(u)

\* evaluate returns nil only when every proposal was written to the request
\* and the response was read to its end, whatever the order in which the two
\* goroutines and the transport came to their ends.
HttpOkIsWhole ==
    \A u \in Users : main[u] = "ok" =>
       left[u] = 0 /\ sender[u] = "done" /\ receiver[u] = "done" /\ rc[u] = "empty"
=============================================================================
