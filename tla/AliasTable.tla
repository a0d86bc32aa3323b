----------------------------- MODULE AliasTable -----------------------------
(***************************************************************************)
(* buildAliasTable and sampleAliasTable (src/src/backend.ts): Vose's table *)
(* for drawing backends by weight.  The table is built in one call; the    *)
(* turns of its loops are the steps here.                                  *)
(*                                                                         *)
(* A probability is a whole number of parts of One.  The scaled weight is  *)
(* a quotient, which the double holds rounded, up or down; the sums of the *)
(* loop are exact.  Positions count from 1.                                *)
(***************************************************************************)
EXTENDS Lists, Functions

CONSTANTS MaxSize,     \* bound: number of candidates
          MaxWeight,   \* bound: weight of one
          One          \* parts that make probability 1

ASSUME TableAssumption ==
  /\ MaxSize \in Nat \ {0}
  /\ MaxWeight \in Nat \ {0}
  /\ One \in Nat \ {0}

VARIABLES
  weight,          \* of the candidates
  scaled,          \* what is left of the scaled weights, of those scaled so far
  small, large,    \* stacks of positions
  probabilities, aliases

vars == <<weight, scaled, small, large, probabilities, aliases>>

Size == Len(weight)
Position == 1..Size
TotalWeight == Total(weight)

Top(stack)    == stack[Len(stack)]
Popped(stack) == SubSeq(stack, 1, Len(stack) - 1)

\* weight * size / totalWeight, rounded down, or up where there is something
\* to round.
NormalizedWeight(i, up) ==
  LET exact == weight[i] * Size * One
  IN  exact \div TotalWeight + (IF up /\ exact % TotalWeight # 0 THEN 1 ELSE 0)

Init ==
  /\ weight \in UNION {[1..n -> 1..MaxWeight] : n \in 1..MaxSize}
  /\ scaled = <<>>
  /\ small = <<>>
  /\ large = <<>>
  /\ probabilities = [i \in DOMAIN weight |-> 0]
  /\ aliases = [i \in DOMAIN weight |-> 1]

\* The next candidate is scaled.
Scale ==
  /\ Len(scaled) < Size
  /\ LET i == Len(scaled) + 1
     IN  \E up \in BOOLEAN :
           LET normalizedWeight == NormalizedWeight(i, up)
           IN  /\ scaled' = Append(scaled, normalizedWeight)
               /\ IF normalizedWeight < One
                  THEN small' = Append(small, i) /\ UNCHANGED large
                  ELSE large' = Append(large, i) /\ UNCHANGED small
  /\ UNCHANGED <<weight, probabilities, aliases>>

\* Mutant: what was large stays large.
Pushed_AlwaysLarge(updated, more) ==
  /\ large' = Append(Popped(large), more)
  /\ small' = Popped(small)

\* The stacks after `more` was taken off large and got a new value.
Pushed(updated, more) ==
  IF updated < One THEN /\ small' = Append(Popped(small), more)
                        /\ large' = Popped(large)
  ELSE /\ large' = Append(Popped(large), more)
       /\ small' = Popped(small)

Given(more, less) == scaled[more] + scaled[less] - One

\* A small one is filled up by a large one.
Pair ==
  /\ Len(scaled) = Size
  /\ small # <<>> /\ large # <<>>
  /\ LET less    == Top(small)
         more    == Top(large)
         updated == Given(more, less)
     IN  /\ probabilities' = [probabilities EXCEPT ![less] = scaled[less]]
         /\ aliases' = [aliases EXCEPT ![less] = more]
         /\ scaled' = [scaled EXCEPT ![more] = updated]
         /\ Pushed(updated, more)
  /\ UNCHANGED weight

\* Mutant: what rounding left over keeps its probability of 0.
Settled_Not(i) == UNCHANGED <<probabilities, aliases>>

Settled(i) ==
  /\ probabilities' = [probabilities EXCEPT ![i] = One]
  /\ aliases' = [aliases EXCEPT ![i] = i]

DrainLarge ==
  /\ Len(scaled) = Size
  /\ small = <<>> /\ large # <<>>
  /\ Settled(Top(large))
  /\ large' = Popped(large)
  /\ UNCHANGED <<weight, scaled, small>>

DrainSmall ==
  /\ Len(scaled) = Size
  /\ large = <<>> /\ small # <<>>
  /\ Settled(Top(small))
  /\ small' = Popped(small)
  /\ UNCHANGED <<weight, scaled, large>>

Next == Scale \/ Pair \/ DrainLarge \/ DrainSmall

Spec == Init /\ [][Next]_vars

-----------------------------------------------------------------------------
(* Properties *)

Pending == Range(small) \cup Range(large)
Built   == Len(scaled) = Size /\ Pending = {}

\* What bucket b gives to i: sampleAliasTable draws a bucket, then the bucket
\* or its alias.
Part(b, i) == (IF b = i THEN probabilities[b] ELSE 0)
              + (IF aliases[b] = i THEN One - probabilities[b] ELSE 0)

\* The parts of Size * One that fall to i.
Share(i) == Total([b \in Position |-> Part(b, i)])

\* Types; probabilities are probabilities, and the stacks are what they say:
\* every position at most once, split at 1.
TypeOK ==
  /\ Pending \subseteq 1..Len(scaled)
  /\ IsInjective(small) /\ IsInjective(large)
  /\ \A i \in Range(small) : scaled[i] \in 0..(One - 1)
  /\ \A i \in Range(large) : scaled[i] >= One
  /\ \A i \in Position : probabilities[i] \in 0..One /\ aliases[i] \in Position

\* In the end each candidate is drawn in proportion to its weight, and the
\* roundings do not add up to more than one part per candidate, even where
\* they leave a small one over that nobody fills up.
SharesAreProportional ==
  Built =>
    \A i \in Position :
      LET error == Share(i) * TotalWeight - weight[i] * Size * One
      IN  error \in (-Size * TotalWeight)..(Size * TotalWeight)
=============================================================================
