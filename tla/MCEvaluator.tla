---------------------------- MODULE MCEvaluator ----------------------------
(***************************************************************************)
(* Evaluator with interchangeable matches, tickets and backfills.          *)
(***************************************************************************)
EXTENDS Evaluator, TLC

Symmetry ==
    Permutations(Matches) \cup Permutations(Tickets) \cup Permutations(Backfills)
=============================================================================
