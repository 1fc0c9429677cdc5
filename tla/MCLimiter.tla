------------------------------ MODULE MCLimiter ------------------------------
(* Instances of RateLimiter for TLC. *)
EXTENDS RateLimiter, TLC

Interchangeable == Permutations(Reqs) \cup Permutations(Entries)
=============================================================================
