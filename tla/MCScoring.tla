----------------------------- MODULE MCScoring -----------------------------
(* Scoring, Verdicts and Evaluators for TLC: metric names are interchangeable. *)
EXTENDS Evaluators, TLC

Symmetry == Permutations(Metrics)
=============================================================================
