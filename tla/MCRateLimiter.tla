--------------------------- MODULE MCRateLimiter ---------------------------
(* Model values for TLC: clients and connections are interchangeable. *)
EXTENDS RateLimiter, TLC

Symmetry == Permutations(IP) \cup Permutations(Conn)
=============================================================================
