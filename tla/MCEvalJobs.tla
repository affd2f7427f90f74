----------------------------- MODULE MCEvalJobs -----------------------------
(***************************************************************************)
(* EvalJobs on small instances for TLC.                                    *)
(***************************************************************************)
EXTENDS EvalJobs, TLC

\* Workers, and requests of a kind, are interchangeable.
Symmetry == Permutations(Workers) \cup Permutations(Clients) \cup Permutations(Askers)
=============================================================================
