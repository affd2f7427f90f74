--------------------------- MODULE MCEvaluations ---------------------------
(* Evaluations for TLC: the requests are interchangeable (safety only). *)
EXTENDS Evaluations, TLC

Symmetry == Permutations(Requests)
=============================================================================
