--------------------------- MODULE MCRateLimiter ---------------------------
(* Instances of RateLimiter for TLC. *)
EXTENDS RateLimiter, TLC

Symmetry == Permutations(IPs) \cup Permutations(Ids) \cup Permutations(Logins)
=============================================================================
