------------------------------- MODULE Lists -------------------------------
(***************************************************************************)
(* What the models do with a sequence from its first element to its last,  *)
(* as recursive functions, which can be reasoned about.                    *)
(***************************************************************************)
EXTENDS Integers, Sequences

\* The sums of the first n numbers of h, for n in 0..Len(h).
PartialSums(h) ==
  LET sum[n \in 0..Len(h)] == IF n = 0 THEN 0 ELSE sum[n - 1] + h[n]
  IN  sum

Total(h) == PartialSums(h)[Len(h)]

\* What of the first n elements of s is not in D, for n in 0..Len(s).
PartsWithout(s, D) ==
  LET part[n \in 0..Len(s)] ==
        IF n = 0 THEN <<>>
        ELSE IF s[n] \in D THEN part[n - 1] ELSE Append(part[n - 1], s[n])
  IN  part

Without(s, D) == PartsWithout(s, D)[Len(s)]
=============================================================================
