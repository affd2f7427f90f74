--------------------------- MODULE MCRateLimiter ---------------------------
(* RateLimiter for TLC: the requests are interchangeable. *)
EXTENDS RateLimiter, TLC

Symmetry == Permutations(Requests)
=============================================================================
