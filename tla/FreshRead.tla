----------------------------- MODULE FreshRead -----------------------------
(***************************************************************************)
(* What a cache of the query service promises to a request: an answer that *)
(* is at least as new as the state of the store when the request was made. *)
(* The state of the store is the number of changes made to it.             *)
(***************************************************************************)
EXTENDS Naturals

CONSTANTS Requests, None, Error

VARIABLES version,  \* the state of the store
          asked,    \* request -> None, or the state when it was made
          answer    \* request -> None, the state answered, or Error

absVars == <<version, asked, answer>>

AbsInit ==
    /\ version = 0
    /\ asked = [r \in Requests |-> None]
    /\ answer = [r \in Requests |-> None]

Change == version' = version + 1 /\ UNCHANGED <<asked, answer>>

Ask(r) ==
    /\ asked[r] = None
    /\ asked' = [asked EXCEPT ![r] = version]
    /\ UNCHANGED <<version, answer>>

Answer(r, v) ==
    /\ asked[r] # None /\ answer[r] = None
    /\ v # Error => v \in asked[r] .. version
    /\ answer' = [answer EXCEPT ![r] = v]
    /\ UNCHANGED <<version, asked>>

AbsNext ==
    \/ Change
    \/ \E r \in Requests : Ask(r) \/ \E v \in (0 .. version) \cup {Error} : Answer(r, v)

AbsSpec == AbsInit /\ [][AbsNext]_absVars
=============================================================================
