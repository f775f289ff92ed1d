----------------------------- MODULE MCTickets -----------------------------
(***************************************************************************)
(* Tickets with one query server or one watcher, and tickets and calls     *)
(* that are interchangeable.                                               *)
(***************************************************************************)
EXTENDS Tickets, TLC

Symmetry == Permutations(Tickets) \cup Permutations(Assigns \ Acks)
=============================================================================
