----------------------------- MODULE MCApiKeys -----------------------------
(* ApiKeys for TLC: the requests are interchangeable. *)
EXTENDS ApiKeys, TLC

Symmetry == Permutations(Requests)
=============================================================================
