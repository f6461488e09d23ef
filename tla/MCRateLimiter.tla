--------------------------- MODULE MCRateLimiter ---------------------------
(* The rate limiter for TLC: keys are interchangeable. *)
EXTENDS RateLimiter, TLC

KeySymmetry == Permutations(Key)
=============================================================================
