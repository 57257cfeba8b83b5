--------------------------- MODULE MCRateLimiter ---------------------------
(* Bounded instances of RateLimiter: replicas and slots are symmetric.     *)
EXTENDS RateLimiter, TLC

Symmetric == Permutations(Replicas) \cup Permutations(Requests)
=============================================================================
