---------------------------- MODULE MCSubscription ----------------------------
(* A TLC instance of Subscription, with bodies below, at and over the limit *)
(* in every chunking, without a length, with their own, and with a smaller  *)
(* one, as when they are compressed.                                        *)
EXTENDS Subscription, TLC

CONSTANT MCLengths    \* lengths of the bodies

\* The byte at a place, other than at the end.
Byte(i, n) == IF i = n THEN n + 10 ELSE i

\* Every way to cut the n bytes into chunks, one per set of places to cut at.
Cuts(n) ==
  {LET ends == SetToSortSeq(cut \cup {n}, <)
   IN  [c \in 1..Len(ends) |->
          LET first == IF c = 1 THEN 1 ELSE ends[c - 1] + 1
          IN  [i \in 1..(ends[c] - first + 1) |-> Byte(first + i - 1, n)]] :
   cut \in SUBSET (1..n - 1)}

MCBodies ==
  UNION {[declared : {NoLength, 1, n}, chunks : Cuts(n)] : n \in MCLengths}

\* Keys and requests are interchangeable.
Symmetry == Permutations(Key) \cup Permutations(Request)
=============================================================================
