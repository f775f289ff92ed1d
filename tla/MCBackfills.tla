---------------------------- MODULE MCBackfills ----------------------------
(***************************************************************************)
(* Backfills with calls and tickets that are interchangeable.              *)
(***************************************************************************)
EXTENDS Backfills, TLC

Symmetry == Permutations(Calls) \cup Permutations(Tickets)
=============================================================================
