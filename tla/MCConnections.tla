--------------------------- MODULE MCConnections ---------------------------
(* Model values for TLC: all three kinds of them are interchangeable. *)
EXTENDS Reentrance, TLC

Symmetry == Permutations(Conn) \cup Permutations(UUID) \cup Permutations(IP)
=============================================================================
