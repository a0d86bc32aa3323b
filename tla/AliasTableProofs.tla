-------------------------- MODULE AliasTableProofs --------------------------
(* What TLAPS proves of AliasTable, for candidates of any number and weight. *)
EXTENDS AliasTable, ListsProofs, TLAPS

-----------------------------------------------------------------------------
(* Stacks *)

\* The top of a stack is on it, and popping takes just that off.
LEMMA PopStack ==
  ASSUME NEW S, NEW s \in Seq(S), s # <<>>, IsInjective(s)
  PROVE  /\ Popped(s) \in Seq(S)
         /\ IsInjective(Popped(s))
         /\ Top(s) \in Range(s) /\ Top(s) \in S
         /\ Range(Popped(s)) = Range(s) \ {Top(s)}
<1> DEFINE n == Len(s)
           p == Popped(s)
<1>1. n \in Nat \ {0} /\ s \in [1..n -> S]
  OBVIOUS
<1>2. p \in Seq(S) /\ Len(p) = n - 1 /\ \A i \in 1..(n - 1) : p[i] = s[i]
  BY <1>1 DEF Popped
<1>3. DOMAIN p = 1..(n - 1) /\ DOMAIN s = 1..n
  BY <1>1, <1>2
<1>4. Top(s) = s[n]
  BY DEF Top
<1> HIDE DEF n, p
<1>5. \A i, j \in 1..n : s[i] = s[j] => i = j
  BY <1>3 DEF IsInjective
<1>6. IsInjective(p)
  BY <1>1, <1>2, <1>3, <1>5 DEF IsInjective
<1>7. Range(p) = Range(s) \ {s[n]}
  <2>1. ASSUME NEW i \in 1..(n - 1) PROVE p[i] \in Range(s) \ {s[n]}
    BY <1>1, <1>2, <1>3, <1>5, <2>1 DEF Range
  <2>2. ASSUME NEW i \in 1..n, s[i] # s[n] PROVE s[i] \in Range(p)
    <3>1. i \in 1..(n - 1) /\ s[i] = p[i]
      BY <1>1, <1>2, <2>2
    <3> QED BY <3>1, <1>3 DEF Range
  <2> QED BY <2>1, <2>2, <1>3 DEF Range
<1>8. s[n] \in Range(s) /\ s[n] \in S
  BY <1>1, <1>3 DEF Range
<1> QED BY <1>2, <1>4, <1>6, <1>7, <1>8 DEF p

\* Pushing puts just that on the stack.
LEMMA PushStack ==
  ASSUME NEW S, NEW s \in Seq(S), NEW x \in S, x \notin Range(s), IsInjective(s)
  PROVE  /\ Append(s, x) \in Seq(S)
         /\ IsInjective(Append(s, x))
         /\ Range(Append(s, x)) = Range(s) \cup {x}
<1> DEFINE n == Len(s)
           a == Append(s, x)
<1>1. n \in Nat /\ s \in [1..n -> S] /\ DOMAIN s = 1..n
  OBVIOUS
<1>2. /\ a \in Seq(S) /\ Len(a) = n + 1 /\ DOMAIN a = 1..(n + 1)
      /\ a[n + 1] = x /\ \A i \in 1..n : a[i] = s[i]
  OBVIOUS
<1> HIDE DEF n, a
<1>3. \A i \in 1..n : s[i] # x
  BY <1>1 DEF Range
<1>4. \A i, j \in 1..n : s[i] = s[j] => i = j
  BY <1>1 DEF IsInjective
<1>5. IsInjective(a)
  <2> SUFFICES ASSUME NEW i \in 1..(n + 1), NEW j \in 1..(n + 1), a[i] = a[j] PROVE i = j
    BY <1>2 DEF IsInjective
  <2>1. CASE i = n + 1
    BY <1>1, <1>2, <1>3, <2>1
  <2>2. CASE j = n + 1
    BY <1>1, <1>2, <1>3, <2>2
  <2>3. CASE i # n + 1 /\ j # n + 1
    <3>1. i \in 1..n /\ j \in 1..n
      BY <1>1, <2>3
    <3> QED BY <3>1, <1>2, <1>4
  <2> QED BY <2>1, <2>2, <2>3
<1>6. Range(a) = Range(s) \cup {x}
  <2>1. ASSUME NEW i \in 1..(n + 1) PROVE a[i] \in Range(s) \cup {x}
    <3>1. CASE i = n + 1
      BY <3>1, <1>2
    <3>2. CASE i # n + 1
      <4>1. i \in 1..n
        BY <1>1, <3>2
      <4> QED BY <4>1, <1>1, <1>2 DEF Range
    <3> QED BY <3>1, <3>2
  <2>2. x \in Range(a)
    <3>1. n + 1 \in 1..(n + 1)
      BY <1>1
    <3> QED BY <3>1, <1>2 DEF Range
  <2>3. ASSUME NEW i \in 1..n PROVE s[i] \in Range(a)
    <3>1. i \in 1..(n + 1) /\ a[i] = s[i]
      BY <1>1, <1>2
    <3> QED BY <3>1, <1>2 DEF Range
  <2>4. Range(s) \cup {x} \subseteq Range(a)
    BY <2>2, <2>3, <1>1 DEF Range
  <2>5. Range(a) \subseteq Range(s) \cup {x}
    BY <2>1, <1>2 DEF Range
  <2> QED BY <2>4, <2>5
<1> QED BY <1>2, <1>5, <1>6 DEF a

LEMMA EmptyStack ==
  ASSUME NEW S, NEW s \in Seq(S)
  PROVE  Range(s) = {} <=> s = <<>>
BY DEF Range

-----------------------------------------------------------------------------
(* Numbers *)

LEMMA ProductPositive ==
  \A a, b \in Nat : a * b \in Nat
OBVIOUS

LEMMA QuotientNear ==
  ASSUME NEW a \in Nat, NEW b \in Nat \ {0}
  PROVE  /\ a \div b \in Nat /\ a % b \in 0..(b - 1)
         /\ (a \div b) * b = a - (a % b)
<1>1. a \div b \in Nat
  OBVIOUS
<1>2. a % b \in 0..(b - 1)
  OBVIOUS
<1>3. a % b = a - (a \div b) * b
  OBVIOUS
<1> DEFINE p == (a \div b) * b
<1>4. p \in Int
  BY <1>1, ProductPositive
<1>5. p = a - (a % b)
  <2> DEFINE r == a % b
  <2>1. r \in Int /\ r = a - p
    BY <1>2, <1>3
  <2> HIDE DEF p, r
  <2>2. p = a - r
    BY <2>1, <1>4
  <2> QED BY <2>2 DEF r
<1> QED BY <1>1, <1>2, <1>5

\* n * W < m * W only where n < m.
LEMMA CancelProduct ==
  ASSUME NEW n \in Int, NEW m \in Int, NEW W \in Nat \ {0}, n * W < m * W
  PROVE  n < m
<1>1. SUFFICES ASSUME n >= m PROVE FALSE
  OBVIOUS
<1> DEFINE d == n - m
<1>2. d \in Nat /\ n = m + d
  BY <1>1
<1> HIDE DEF d
<1>3. n * W = m * W + d * W
  BY <1>2
<1>4. d * W \in Nat
  BY <1>2, ProductPositive
<1>5. m * W \in Int
  OBVIOUS
<1> QED BY <1>3, <1>4, <1>5

-----------------------------------------------------------------------------
(* The inductive invariant *)

\* The parts of Size * One that i ought to get, times TotalWeight.
Due(i) == weight[i] * Size * One

\* The buckets whose two owners are settled, and what they give to i.
Done == (1..Len(scaled)) \ Pending
DonePart(b, i) == IF b \in Done THEN Part(b, i) ELSE 0
Received(i) == Total([b \in Position |-> DonePart(b, i)])

\* By how much the pending ones exceed one part each, all together.
OverOne(i) == IF i \in Pending THEN scaled[i] - One ELSE 0
Excess == Total([i \in Position |-> OverOne(i)])

Shapes ==
  /\ Size \in Nat \ {0}
  /\ weight \in [Position -> Nat \ {0}]
  /\ Len(scaled) \in 0..Size
  /\ scaled \in [1..Len(scaled) -> Nat]
  /\ small \in Seq(1..Len(scaled))
  /\ large \in Seq(1..Len(scaled))
  /\ IsInjective(small) /\ IsInjective(large)
  /\ \A i \in Range(small) : scaled[i] < One
  /\ \A i \in Range(large) : scaled[i] >= One
  /\ probabilities \in [Position -> 0..One]
  /\ aliases \in [Position -> Position]

\* Nothing is paired before everything is scaled.
Phases == Len(scaled) < Size => Done = {}

\* What i has received and what is still to be given to it are its due, up to
\* the rounding of one quotient; what rounding leaves over at the end adds less
\* than one part per candidate.
Near(n, i, bound) == n * TotalWeight - Due(i) \in (-bound)..bound

Dues ==
  /\ \A i \in Pending : Near(Received(i) + scaled[i], i, TotalWeight - 1)
  /\ \A i \in Done : Near(Received(i), i, Size * TotalWeight)

\* The roundings together are less than one part per candidate.
Leftover == Len(scaled) = Size => Excess \in (1 - Size)..(Size - 1)

IInv == Shapes /\ Phases /\ Dues /\ Leftover

-----------------------------------------------------------------------------
LEMMA WeightTotal ==
  ASSUME Shapes
  PROVE  TotalWeight \in Nat \ {0}
<1>1. Size \in Nat \ {0} /\ weight \in [1..Size -> Int] /\ \A i \in 1..Size : weight[i] >= 1
  <2> DEFINE n == Size
  <2>1. n \in Nat \ {0} /\ weight \in [1..n -> Nat \ {0}]
    BY DEF Shapes, Position
  <2> HIDE DEF n
  <2>2. weight \in [1..n -> Int] /\ \A i \in 1..n : weight[i] >= 1
    BY <2>1
  <2> QED BY <2>1, <2>2 DEF n
<1> DEFINE ones == [i \in 1..Size |-> 1]
<1>2. ones \in [1..Size -> Int] /\ \A i \in 1..Size : ones[i] = 1
  OBVIOUS
<1> HIDE DEF ones
<1>3. Total(ones) = Size * 1
  BY <1>1, <1>2, TotalConstant
<1>4. Total(ones) <= Total(weight)
  BY <1>1, <1>2, TotalMonotone
<1>5. Total(weight) \in Int
  BY <1>1, TotalType
<1> QED BY <1>1, <1>3, <1>4, <1>5 DEF TotalWeight

LEMMA PartType ==
  ASSUME Shapes, NEW b \in Position, NEW i \in Position
  PROVE  Part(b, i) \in Nat /\ DonePart(b, i) \in Nat
BY TableAssumption DEF Shapes, Part, DonePart

LEMMA ReceivedType ==
  ASSUME Shapes, NEW i \in Position
  PROVE  Received(i) \in Int /\ [b \in Position |-> DonePart(b, i)] \in [1..Size -> Int]
<1>1. [b \in Position |-> DonePart(b, i)] \in [1..Size -> Int]
  BY PartType DEF Position
<1> QED BY <1>1, TotalType DEF Received, Shapes

LEMMA PendingScaled ==
  ASSUME Shapes
  PROVE  Pending \subseteq 1..Len(scaled) /\ 1..Len(scaled) \subseteq Position
<1>1. Range(small) \subseteq 1..Len(scaled) /\ Range(large) \subseteq 1..Len(scaled)
  BY DEF Shapes, Range
<1>2. 1..Len(scaled) \subseteq 1..Size
  BY DEF Shapes
<1> QED BY <1>1, <1>2 DEF Pending, Position

LEMMA ExcessType ==
  ASSUME Shapes
  PROVE  Excess \in Int /\ [i \in Position |-> OverOne(i)] \in [1..Size -> Int]
<1>1. \A i \in Pending : i \in 1..Len(scaled)
  BY PendingScaled
<1>2. [i \in Position |-> OverOne(i)] \in [1..Size -> Int]
  BY <1>1, TableAssumption DEF Shapes, OverOne, Position
<1> QED BY <1>2, TotalType DEF Excess, Shapes

LEMMA DueType ==
  ASSUME Shapes, NEW i \in Position
  PROVE  Due(i) \in Nat
<1>1. weight[i] \in Nat /\ Size \in Nat /\ One \in Nat
  BY TableAssumption DEF Shapes
<1>2. weight[i] * Size \in Nat
  BY <1>1, ProductPositive
<1> QED BY <1>1, <1>2, ProductPositive DEF Due

\* A rounded quotient, times the divisor, is off by less than the divisor.
LEMMA NormalizedNear ==
  ASSUME Shapes, NEW i \in Position, NEW up \in BOOLEAN
  PROVE  /\ NormalizedWeight(i, up) \in Nat
         /\ Near(NormalizedWeight(i, up), i, TotalWeight - 1)
<1> DEFINE a == Due(i)
           W == TotalWeight
           q == a \div W
           r == a % W
           v == NormalizedWeight(i, up)
<1>1. a \in Nat /\ W \in Nat \ {0}
  BY DueType, WeightTotal
<1>2. v = q + (IF up /\ r # 0 THEN 1 ELSE 0)
  BY DEF NormalizedWeight, Due
<1> HIDE DEF a, W, v
<1>3. q \in Nat /\ r \in 0..(W - 1) /\ q * W = a - r
  BY <1>1, QuotientNear
<1> HIDE DEF q, r
<1>4. CASE up /\ r # 0
  <2>1. v = q + 1
    BY <1>2, <1>4
  <2>2. v * W = q * W + W
    BY <2>1, <1>1, <1>3
  <2>3. v * W - a = W - r
    BY <2>2, <1>1, <1>3
  <2>4. v \in Nat /\ v * W - a \in (-(W - 1))..(W - 1)
    BY <2>1, <2>3, <1>1, <1>3, <1>4
  <2> QED BY <2>4 DEF Near, a, W, v
<1>5. CASE ~(up /\ r # 0)
  <2>1. v = q
    BY <1>2, <1>3, <1>5
  <2>2. v * W - a = -r
    BY <2>1, <1>1, <1>3
  <2>3. v \in Nat /\ v * W - a \in (-(W - 1))..(W - 1)
    BY <2>1, <2>2, <1>1, <1>3
  <2> QED BY <2>3 DEF Near, a, W, v
<1> QED BY <1>4, <1>5

\* Before any bucket is done, nobody has received anything.
NobodyReceived == \A i \in Position : Received(i) = 0

LEMMA NothingReceived ==
  Shapes /\ Done = {} => NobodyReceived
<1> SUFFICES ASSUME Shapes, Done = {}, NEW i \in Position PROVE Received(i) = 0
  BY DEF NobodyReceived
<1> DEFINE f == [b \in Position |-> DonePart(b, i)]
<1>1. f \in [1..Size -> Int] /\ \A b \in 1..Size : f[b] = 0
  BY DEF DonePart, Position
<1>2. Size \in Nat
  BY DEF Shapes
<1> HIDE DEF f
<1>3. Total(f) = Size * 0
  BY <1>1, <1>2, TotalConstant
<1> QED BY <1>2, <1>3 DEF f, Received

\* One more bucket is done: everyone receives its part of that one.
LEMMA OneMoreDone ==
  ASSUME Shapes, Shapes', weight' = weight, NEW d \in Position,
         d \notin Done, Done' = Done \cup {d},
         \A b \in Done : probabilities'[b] = probabilities[b] /\ aliases'[b] = aliases[b],
         NEW i \in Position
  PROVE  Received(i)' = Received(i) + Part(d, i)'
<1> DEFINE f == [b \in Position |-> DonePart(b, i)]
           g == [b \in Position |-> DonePart(b, i)']
           n == Size
<1>1. n \in Nat /\ Position' = Position /\ Position = 1..n
  BY DEF Shapes, Position, Size
<1>2. f \in [1..n -> Int] /\ g \in [1..n -> Int]
  <2>1. \A b \in Position : DonePart(b, i) \in Nat
    BY PartType
  <2>2. \A b \in Position : DonePart(b, i)' \in Nat
    <3>1. probabilities' \in [Position -> 0..One] /\ aliases' \in [Position -> Position]
      BY <1>1 DEF Shapes
    <3> QED BY <3>1, TableAssumption DEF Part, DonePart
  <2> HIDE DEF n
  <2> QED BY <2>1, <2>2, <1>1
<1>3. IsUpdate(g, n, f, d)
  BY <1>1 DEF DonePart, Part, IsUpdate
<1>4. f[d] = 0 /\ g[d] = Part(d, i)'
  BY DEF DonePart
<1>5. Received(i) = Total(f) /\ Received(i)' = Total(g)
  BY <1>1 DEF Received
<1>6. d \in 1..n
  BY <1>1
<1> HIDE DEF f, g, n
<1>7. Total(g) = Total(f) - f[d] + g[d]
  BY <1>1, <1>2, <1>3, <1>6, TotalUpdate
<1>8. Total(f) \in Int /\ g[d] \in Int
  BY <1>1, <1>2, <1>6, TotalType
<1> QED BY <1>4, <1>5, <1>7, <1>8

\* A pending one leaves.
LEMMA OneLessPending ==
  ASSUME Shapes, Shapes', weight' = weight, NEW d \in Pending,
         Pending' = Pending \ {d}, \A i \in Pending' : scaled'[i] = scaled[i]
  PROVE  Excess' = Excess - (scaled[d] - One)
<1> DEFINE f == [i \in Position |-> OverOne(i)]
           g == [i \in Position |-> OverOne(i)']
           n == Size
<1>1. n \in Nat /\ Position' = Position /\ Position = 1..n
  BY DEF Shapes, Position, Size
<1>2. f \in [1..n -> Int] /\ g \in [1..n -> Int]
  <2>1. \A i \in Position : OverOne(i) \in Int
    BY PendingScaled, TableAssumption DEF Shapes, OverOne
  <2>2. \A i \in Pending' : scaled'[i] \in Int
    BY PendingScaled, TableAssumption DEF Shapes
  <2>3. \A i \in Position : OverOne(i)' \in Int
    BY <2>2, TableAssumption DEF OverOne
  <2> HIDE DEF n
  <2> QED BY <1>1, <2>1, <2>3
<1>3. d \in 1..n
  BY <1>1, PendingScaled
<1>4. IsUpdate(g, n, f, d)
  BY <1>1 DEF OverOne, IsUpdate
<1>5. f[d] = scaled[d] - One /\ g[d] = 0
  BY <1>1, <1>3 DEF OverOne
<1>6. Excess = Total(f) /\ Excess' = Total(g)
  BY <1>1 DEF Excess
<1> HIDE DEF f, g, n
<1>7. Total(g) = Total(f) - f[d] + g[d]
  BY <1>1, <1>2, <1>3, <1>4, TotalUpdate
<1>8. Total(f) \in Int /\ f[d] \in Int
  BY <1>1, <1>2, <1>3, TotalType
<1> QED BY <1>5, <1>6, <1>7, <1>8

\* Where only large ones, or only small ones, are pending, none is under, or
\* over, one part.
LEMMA ExcessSign ==
  Shapes => /\ small = <<>> => Excess >= 0
            /\ large = <<>> => Excess <= 0
<1> SUFFICES ASSUME Shapes PROVE /\ small = <<>> => Excess >= 0
                                 /\ large = <<>> => Excess <= 0
  OBVIOUS
<1> DEFINE f == [i \in Position |-> OverOne(i)]
           zero == [i \in 1..Size |-> 0]
<1>1. f \in [1..Size -> Int] /\ zero \in [1..Size -> Int] /\ Size \in Nat
  BY ExcessType DEF Shapes
<1>2. Excess = Total(f)
  BY DEF Excess
<1>3. Total(zero) = 0
  <2>1. \A i \in 1..Size : zero[i] = 0
    OBVIOUS
  <2>2. Total(zero) = Size * 0
    <3> HIDE DEF zero
    <3> QED BY <1>1, <2>1, TotalConstant
  <2> QED BY <1>1, <2>2
<1>4. CASE small = <<>>
  <2>1. \A i \in Pending : i \in Range(large)
    BY <1>4 DEF Pending, Range
  <2>2. \A i \in Position : OverOne(i) >= 0
    BY <2>1, PendingScaled, TableAssumption DEF Shapes, OverOne
  <2>3. \A i \in 1..Size : zero[i] <= f[i]
    BY <2>2 DEF Position
  <2> HIDE DEF f, zero
  <2>4. Total(zero) <= Total(f)
    BY <1>1, <2>3, TotalMonotone
  <2>5. large = <<>> => Total(f) <= 0
    <3> SUFFICES ASSUME large = <<>> PROVE Total(f) <= 0
      OBVIOUS
    <3>1. Pending = {}
      BY <1>4 DEF Pending, Range
    <3>2. \A i \in 1..Size : f[i] <= zero[i]
      BY <3>1 DEF f, zero, OverOne, Position
    <3> QED BY <1>1, <1>3, <3>2, TotalMonotone
  <2> QED BY <1>1, <1>2, <1>3, <2>4, <2>5, TotalType
<1>5. CASE large = <<>>
  <2>1. \A i \in Pending : i \in Range(small)
    BY <1>5 DEF Pending, Range
  <2>2. \A i \in Position : OverOne(i) <= 0
    BY <2>1, PendingScaled, TableAssumption DEF Shapes, OverOne
  <2>3. \A i \in 1..Size : f[i] <= zero[i]
    BY <2>2 DEF Position
  <2> HIDE DEF f, zero
  <2>4. Total(f) <= Total(zero)
    BY <1>1, <2>3, TotalMonotone
  <2> QED BY <1>1, <1>2, <1>3, <1>4, <2>4, TotalType
<1> QED BY <1>4, <1>5

\* Once all are scaled, the roundings of the quotients add up to less than one
\* part per candidate.
LEMMA FirstExcess ==
  Shapes /\ Dues /\ Done = {} => Leftover
<1> SUFFICES ASSUME Shapes, Dues, Done = {}, Len(scaled) = Size
             PROVE  Excess \in (1 - Size)..(Size - 1)
  BY DEF Leftover
<1> DEFINE n == Size
           W == TotalWeight
           f == [i \in Position |-> OverOne(i)]
           ones == [i \in 1..n |-> One]
           most == [i \in 1..n |-> W - 1]
           least == [i \in 1..n |-> -(W - 1)]
           q == [i \in 1..n |-> W * scaled[i] + (-(n * One)) * weight[i]]
           T == Total(scaled)
           P == n * One
<1>1. /\ n \in Nat \ {0} /\ One \in Nat /\ W \in Nat \ {0}
      /\ scaled \in [1..n -> Int] /\ weight \in [1..n -> Int]
      /\ f \in [1..n -> Int]
  <2>1. scaled \in [1..n -> Nat] /\ weight \in [1..n -> Nat \ {0}]
    BY DEF Shapes, Position
  <2>2. n \in Nat \ {0} /\ One \in Nat
    BY TableAssumption DEF Shapes
  <2>3. scaled \in [1..n -> Int] /\ weight \in [1..n -> Int]
    <3> HIDE DEF n
    <3> QED BY <2>1
  <2>4. W \in Nat \ {0}
    BY WeightTotal
  <2>5. f \in [1..n -> Int]
    BY ExcessType
  <2> QED BY <2>2, <2>3, <2>4, <2>5
<1>2. W = Total(weight) /\ Excess = Total(f)
  BY DEF TotalWeight, Excess
<1>3. \A i \in 1..n : f[i] = 1 * scaled[i] + (-1) * ones[i]
  <2> TAKE i \in 1..n
  <2>1. i \in Pending /\ i \in Position
    BY DEF Done, Position
  <2>2. f[i] = scaled[i] - One
    BY <2>1 DEF OverOne
  <2>3. scaled[i] \in Int
    <3> HIDE DEF n
    <3> QED BY <1>1
  <2> QED BY <2>2, <2>3, <1>1
<1>4. \A i \in 1..n : q[i] \in (-(W - 1))..(W - 1)
  <2> TAKE i \in 1..n
  <2>1. i \in Pending /\ i \in Position
    BY DEF Done, Position
  <2>2. Received(i) = 0
    BY <2>1, NothingReceived DEF NobodyReceived
  <2>3. (0 + scaled[i]) * W - weight[i] * n * One \in (-(W - 1))..(W - 1)
    BY <2>1, <2>2 DEF Dues, Near, Due
  <2>4. scaled[i] \in Int /\ weight[i] \in Int
    <3> HIDE DEF n
    <3> QED BY <1>1
  <2>5. (0 + scaled[i]) * W - weight[i] * n * One = W * scaled[i] + (-(n * One)) * weight[i]
    <3> DEFINE s == scaled[i]  w == weight[i]
    <3> HIDE DEF n, W, s, w
    <3>1. s \in Int /\ w \in Int
      BY <2>4 DEF s, w
    <3>2. (0 + s) * W - w * n * One = W * s + (-(n * One)) * w
      BY <1>1, <3>1
    <3> QED BY <3>2 DEF s, w
  <2> QED BY <2>3, <2>5
<1>5. /\ ones \in [1..n -> Int] /\ most \in [1..n -> Int] /\ least \in [1..n -> Int]
      /\ \A i \in 1..n : ones[i] = One /\ most[i] = W - 1 /\ least[i] = -(W - 1)
  <2> HIDE DEF n, W
  <2> QED BY <1>1
<1>6. q \in [1..n -> Int] /\ P \in Nat
  <2> HIDE DEF n, W
  <2>1. \A i \in 1..n : q[i] \in Int
    BY <1>1, <1>4
  <2> QED BY <1>1, <2>1
<1>7. \A i \in 1..n : /\ q[i] = W * scaled[i] + (-P) * weight[i]
                      /\ least[i] <= q[i] /\ q[i] <= most[i]
  <2> HIDE DEF n, W
  <2> QED BY <1>1, <1>4, <1>5
<1> HIDE DEF n, W, f, ones, most, least, q, T, P
<1>8. Total(ones) = n * One /\ Total(most) = n * (W - 1) /\ Total(least) = n * (-(W - 1))
  <2> DEFINE up == W - 1  down == -(W - 1)
  <2>1. up \in Int /\ down \in Int
    BY <1>1
  <2>2. \A i \in 1..n : most[i] = up /\ least[i] = down
    BY <1>5
  <2> HIDE DEF up, down
  <2>3. Total(ones) = n * One
    <3>1. n \in Nat /\ One \in Int /\ ones \in [1..n -> Int] /\ \A i \in 1..n : ones[i] = One
      BY <1>1, <1>5
    <3> QED BY <3>1, TotalConstant, Zenon
  <2>4. Total(most) = n * up
    BY <1>1, <1>5, <2>1, <2>2, TotalConstant
  <2>5. Total(least) = n * down
    BY <1>1, <1>5, <2>1, <2>2, TotalConstant
  <2> QED BY <2>3, <2>4, <2>5 DEF up, down
<1>9. Total(f) = 1 * T + (-1) * Total(ones)
  <2> DEFINE a == 1  b == -1
  <2>1. a \in Int /\ b \in Int
    OBVIOUS
  <2>2. IsCombination(f, n, a, scaled, b, ones)
    BY <1>3 DEF IsCombination
  <2> HIDE DEF a, b
  <2>3. Total(f) = a * Total(scaled) + b * Total(ones)
    <3>1. /\ n \in Nat /\ f \in [1..n -> Int] /\ scaled \in [1..n -> Int]
          /\ ones \in [1..n -> Int]
      BY <1>1, <1>5
    <3> QED BY <3>1, <2>1, <2>2, TotalLinear
  <2> QED BY <2>3 DEF a, b, T
<1>10. Total(q) = W * T + (-P) * W
  <2> DEFINE b == -P
  <2>1. b \in Int
    BY <1>6
  <2>2. IsCombination(q, n, W, scaled, b, weight)
    BY <1>7 DEF IsCombination
  <2> HIDE DEF b
  <2>3. Total(q) = W * Total(scaled) + b * Total(weight)
    <3>1. /\ n \in Nat /\ q \in [1..n -> Int] /\ scaled \in [1..n -> Int]
          /\ weight \in [1..n -> Int] /\ W \in Int
      BY <1>1, <1>6
    <3> QED BY <3>1, <2>1, <2>2, TotalLinear
  <2> QED BY <1>2, <2>3 DEF b, T
<1>11. n * (-(W - 1)) <= Total(q) /\ Total(q) <= n * (W - 1)
  BY <1>1, <1>5, <1>6, <1>7, <1>8, TotalMonotone
<1>12. T \in Int
  BY <1>1, TotalType DEF T
<1>13. Total(f) = T - P /\ Total(f) \in Int
  BY <1>1, <1>6, <1>8, <1>9, <1>12 DEF P
<1>14. Total(q) = Total(f) * W
  <2>1. (T - P) * W = W * T + (-P) * W
    BY <1>1, <1>6, <1>12
  <2> QED BY <1>10, <1>13, <2>1
<1>15. n * (W - 1) < n * W /\ (-n) * W < n * (-(W - 1))
  <2>1. n * (W - 1) = n * W - n /\ n * (-(W - 1)) = n - n * W /\ (-n) * W = -(n * W)
    BY <1>1
  <2>2. n * W \in Int
    BY <1>1
  <2> QED BY <1>1, <2>1, <2>2
<1>16. Total(f) * W < n * W /\ (-n) * W < Total(f) * W
  <2>1. Total(q) \in Int
    BY <1>1, <1>6, TotalType
  <2>2. n * (W - 1) \in Int /\ n * W \in Int /\ n * (-(W - 1)) \in Int /\ (-n) * W \in Int
    BY <1>1
  <2> HIDE DEF W
  <2> QED BY <1>11, <1>14, <1>15, <2>1, <2>2
<1>17. Total(f) < n
  BY <1>1, <1>13, <1>16, CancelProduct
<1>18. -n < Total(f)
  <2>1. -n \in Int
    BY <1>1
  <2> QED BY <1>1, <1>13, <1>16, <2>1, CancelProduct
<1> QED BY <1>1, <1>2, <1>13, <1>17, <1>18 DEF n

-----------------------------------------------------------------------------
(* The steps *)

LEMMA InitIInv == Init => IInv
<1> SUFFICES ASSUME Init PROVE IInv
  OBVIOUS
<1>1. PICK m \in 1..MaxSize : weight \in [1..m -> 1..MaxWeight]
  BY DEF Init
<1>2. m \in Nat \ {0} /\ Size = m /\ DOMAIN weight = 1..m
  BY <1>1, TableAssumption DEF Size
<1>3. weight \in [1..m -> Nat \ {0}]
  BY <1>1, TableAssumption
<1>4. Pending = {} /\ Done = {}
  BY DEF Init, Pending, Done, Range
<1>5. Shapes
  <2>1. Len(scaled) = 0 /\ scaled = <<>> /\ small = <<>> /\ large = <<>>
    BY DEF Init
  <2>2. Range(small) = {} /\ Range(large) = {} /\ IsInjective(small) /\ IsInjective(large)
    BY <2>1 DEF Range, IsInjective
  <2>3. probabilities \in [1..m -> 0..One] /\ aliases \in [1..m -> 1..m]
    BY <1>2, TableAssumption DEF Init
  <2>4. Len(scaled) \in 0..Size /\ scaled \in [1..0 -> Nat]
    BY <1>2, <2>1
  <2>5. small \in Seq(1..0) /\ large \in Seq(1..0)
    BY <2>1
  <2> QED BY <1>2, <1>3, <2>1, <2>2, <2>3, <2>4, <2>5 DEF Shapes, Position
<1>6. Phases /\ Dues
  BY <1>4 DEF Phases, Dues
<1>7. Leftover
  BY <1>2 DEF Init, Leftover
<1> QED BY <1>5, <1>6, <1>7 DEF IInv

LEMMA ScaleStep ==
  ASSUME IInv, Scale
  PROVE  IInv'
<1> DEFINE n == Len(scaled)
           k == n + 1
<1>1. PICK up \in BOOLEAN :
        LET v == NormalizedWeight(k, up)
        IN  /\ scaled' = Append(scaled, v)
            /\ IF v < One THEN small' = Append(small, k) /\ UNCHANGED large
                          ELSE large' = Append(large, k) /\ UNCHANGED small
  BY DEF Scale
<1>2. UNCHANGED <<weight, probabilities, aliases>> /\ n < Size
  BY DEF Scale
<1>3. /\ Size' = Size /\ Position' = Position /\ TotalWeight' = TotalWeight
      /\ \A j : Due(j)' = Due(j)
  BY <1>2 DEF Size, Position, TotalWeight, Due
<1>4. /\ n \in Nat /\ Size \in Nat /\ k \in Position /\ k \in 1..k
      /\ 1..k = (1..n) \cup {k} /\ k \notin 1..n
  <2>1. n \in Nat /\ Size \in Nat
    BY DEF IInv, Shapes
  <2>2. k \in 1..Size
    <3> HIDE DEF n
    <3> QED BY <1>2, <2>1
  <2>3. k \in 1..k /\ 1..k = (1..n) \cup {k} /\ k \notin 1..n
    <3> HIDE DEF n
    <3> QED BY <2>1
  <2> QED BY <2>1, <2>2, <2>3 DEF Position
<1> DEFINE v == NormalizedWeight(k, up)
<1>5. v \in Nat /\ Near(v, k, TotalWeight - 1)
  BY <1>4, NormalizedNear DEF IInv
<1>6. /\ scaled' \in [1..k -> Nat] /\ Len(scaled') = k /\ scaled'[k] = v
      /\ \A j \in 1..n : scaled'[j] = scaled[j]
  <2>1. scaled' = Append(scaled, v) /\ scaled \in [1..n -> Nat]
    BY <1>1 DEF IInv, Shapes
  <2> HIDE DEF v
  <2>2. scaled \in Seq(Nat)
    BY <2>1, <1>4
  <2>3. scaled' \in Seq(Nat) /\ Len(scaled') = k
    BY <2>1, <2>2, <1>5
  <2>4. scaled'[k] = v /\ \A j \in 1..n : scaled'[j] = scaled[j]
    BY <2>1, <2>2, <1>5
  <2> QED BY <2>3, <2>4
<1>7. Pending = 1..n /\ Done = {}
  BY <1>2, PendingScaled DEF IInv, Phases, Done
<1>8. /\ small \in Seq(1..k) /\ large \in Seq(1..k)
      /\ k \notin Range(small) /\ k \notin Range(large)
  BY <1>4, <1>7 DEF IInv, Shapes, Pending
<1>9. /\ small' \in Seq(1..k) /\ large' \in Seq(1..k)
      /\ IsInjective(small') /\ IsInjective(large')
      /\ \A j \in Range(small') : scaled'[j] < One
      /\ \A j \in Range(large') : scaled'[j] >= One
      /\ Range(small') \cup Range(large') = 1..k
  <2>1. IsInjective(small) /\ IsInjective(large)
    BY DEF IInv, Shapes
  <2>2. /\ \A j \in Range(small) : scaled'[j] < One
        /\ \A j \in Range(large) : scaled'[j] >= One
    BY <1>6, <1>7 DEF IInv, Shapes, Pending
  <2>3. CASE v < One
    <3>1. small' = Append(small, k) /\ large' = large
      BY <1>1, <2>3
    <3>2. /\ small' \in Seq(1..k) /\ IsInjective(small')
          /\ Range(small') = Range(small) \cup {k}
      BY <3>1, <1>4, <1>8, <2>1, PushStack
    <3> QED BY <3>1, <3>2, <1>4, <1>6, <1>7, <1>8, <2>1, <2>2, <2>3 DEF Pending
  <2>4. CASE ~(v < One)
    <3>1. large' = Append(large, k) /\ small' = small
      BY <1>1, <2>4
    <3>2. /\ large' \in Seq(1..k) /\ IsInjective(large')
          /\ Range(large') = Range(large) \cup {k}
      BY <3>1, <1>4, <1>8, <2>1, PushStack
    <3>3. v >= One
      BY <2>4, <1>5, TableAssumption
    <3> QED BY <3>1, <3>2, <3>3, <1>4, <1>6, <1>7, <1>8, <2>1, <2>2 DEF Pending
  <2> QED BY <2>3, <2>4
<1>10. Shapes'
  BY <1>2, <1>3, <1>4, <1>6, <1>9 DEF IInv, Shapes
<1>11. Pending' = 1..k /\ Done' = {}
  BY <1>6, <1>9 DEF Pending, Done
<1>12. \A j \in Position : Received(j) = 0 /\ Received(j)' = 0
  <2>1. (Shapes /\ Done = {} => NobodyReceived)'
    BY NothingReceived, PTL
  <2>2. NobodyReceived
    BY <1>7, NothingReceived DEF IInv
  <2> QED BY <2>1, <2>2, <1>3, <1>10, <1>11 DEF NobodyReceived
<1>13. Dues'
  <2> SUFFICES ASSUME NEW j \in 1..k PROVE Near(Received(j) + scaled[j], j, TotalWeight - 1)'
    BY <1>11 DEF Dues
  <2>1. j \in Position
    BY <1>2, <1>4 DEF Position
  <2>2. CASE j = k
    <3>1. 0 + scaled'[j] = v
      BY <1>5, <1>6, <2>2
    <3> QED BY <3>1, <2>1, <2>2, <1>3, <1>5, <1>12 DEF Near
  <2>3. CASE j # k
    <3>1. j \in 1..n
      BY <1>4, <2>3
    <3>2. Near(Received(j) + scaled[j], j, TotalWeight - 1)
      BY <3>1, <1>7 DEF IInv, Dues
    <3> QED BY <3>1, <3>2, <2>1, <1>3, <1>6, <1>12 DEF Near
  <2> QED BY <2>2, <2>3
<1>14. Leftover'
  <2>1. (Shapes /\ Dues /\ Done = {} => Leftover)'
    BY FirstExcess, PTL
  <2> QED BY <2>1, <1>10, <1>11, <1>13
<1> QED BY <1>10, <1>11, <1>13, <1>14 DEF IInv, Phases

\* What a step does to the invariant once it is known which bucket is done.
LEMMA SettleDues ==
  ASSUME IInv, Shapes', weight' = weight, Len(scaled) = Size,
         NEW d \in Pending, Pending' = Pending \ {d}, Done' = Done \cup {d},
         \A b \in Done : probabilities'[b] = probabilities[b] /\ aliases'[b] = aliases[b],
         \A i \in Pending' : Part(d, i)' + scaled'[i] = scaled[i],
         \A i \in Done : Part(d, i)' = 0,
         Near(Received(d) + Part(d, d)', d, Size * TotalWeight)
  PROVE  Dues'
<1>1. /\ Size' = Size /\ Position' = Position /\ TotalWeight' = TotalWeight
      /\ \A j : Due(j)' = Due(j)
  BY DEF Size, Position, TotalWeight, Due
<1>2. Pending \subseteq Position /\ Done \subseteq Position
  BY PendingScaled DEF IInv, Done
<1>3. d \notin Done
  BY DEF Done
<1>4. \A i \in Position : Received(i)' = Received(i) + Part(d, i)'
  BY <1>2, <1>3, OneMoreDone DEF IInv
<1>5. \A i \in Position : Received(i) \in Int /\ Part(d, i)' \in Int
  <2>1. \A i \in Position : Received(i) \in Int
    BY ReceivedType DEF IInv
  <2>2. probabilities' \in [Position -> 0..One]
    BY <1>1 DEF Shapes
  <2>3. \A i \in Position : Part(d, i)' \in Int
    BY <2>2, <1>2, TableAssumption DEF Part
  <2> QED BY <2>1, <2>3
<1>6. \A i \in Pending : scaled[i] \in Int
  BY PendingScaled DEF IInv, Shapes
<1>7. \A i \in Pending' : scaled'[i] \in Int
  <2>1. Pending' \subseteq 1..Len(scaled')
    BY DEF Shapes, Pending, Range
  <2>2. scaled' \in [1..Len(scaled') -> Nat]
    BY DEF Shapes
  <2> QED BY <2>1, <2>2
<1>8. ASSUME NEW i \in Pending' PROVE Near(Received(i) + scaled[i], i, TotalWeight - 1)'
  <2>1. i \in Pending /\ i \in Position
    BY <1>2
  <2>2. Received(i)' + scaled'[i] = Received(i) + scaled[i]
    BY <2>1, <1>4, <1>5, <1>6, <1>7
  <2>3. Near(Received(i) + scaled[i], i, TotalWeight - 1)
    BY <2>1 DEF IInv, Dues
  <2> QED BY <2>2, <2>3, <1>1 DEF Near
<1>9. ASSUME NEW i \in Done' PROVE Near(Received(i), i, Size * TotalWeight)'
  <2>1. CASE i = d
    BY <2>1, <1>1, <1>2, <1>4 DEF Near
  <2>2. CASE i # d
    <3>1. i \in Done /\ i \in Position
      BY <1>2, <2>2
    <3>2. Received(i)' = Received(i)
      BY <3>1, <1>4, <1>5
    <3>3. Near(Received(i), i, Size * TotalWeight)
      BY <3>1 DEF IInv, Dues
    <3> QED BY <3>2, <3>3, <1>1 DEF Near
  <2> QED BY <2>1, <2>2
<1> QED BY <1>8, <1>9 DEF Dues

\* Being near by one rounding, and off by less than one part per candidate
\* more, is being near by one part per candidate.
LEMMA NearAfterAll ==
  ASSUME Shapes, NEW i \in Position, NEW a \in Int, NEW e \in (1 - Size)..(Size - 1),
         Near(a, i, TotalWeight - 1)
  PROVE  Near(a + e, i, Size * TotalWeight)
<1> DEFINE n == Size
           W == TotalWeight
           due == Due(i)
           x == a * W - due
<1>1. n \in Nat \ {0} /\ W \in Nat \ {0} /\ due \in Nat
  BY DueType, WeightTotal DEF Shapes
<1>2. x \in (-(W - 1))..(W - 1) /\ e \in (1 - n)..(n - 1)
  BY DEF Near
<1>3. a * W \in Int
  <2> HIDE DEF W
  <2> QED BY <1>1
<1> HIDE DEF n, W, due
<1>4. (a + e) * W - due = x + e * W
  <2>1. (a + e) * W = a * W + e * W
    BY <1>1, <1>2
  <2>2. e * W \in Int
    BY <1>1, <1>2
  <2> QED BY <2>1, <2>2, <1>1, <1>3
<1>5. e * W \in (-((n - 1) * W))..((n - 1) * W)
  <2> DEFINE p == (n - 1) - e  m == (n - 1) + e
  <2>1. p \in Nat /\ m \in Nat
    BY <1>1, <1>2
  <2>2. p * W \in Nat /\ m * W \in Nat
    <3> HIDE DEF p, m
    <3> QED BY <2>1, <1>1, ProductPositive
  <2>3. p * W = (n - 1) * W - e * W /\ m * W = (n - 1) * W + e * W
    BY <1>1, <1>2
  <2>4. e * W \in Int /\ (n - 1) * W \in Int
    BY <1>1, <1>2
  <2> QED BY <2>2, <2>3, <2>4
<1>6. (n - 1) * W = n * W - W /\ n * W \in Int
  BY <1>1
<1>7. x + e * W \in (-(n * W))..(n * W)
  <2> DEFINE y == e * W  z == n * W
  <2>1. y \in (W - z)..(z - W) /\ z \in Int
    BY <1>1, <1>5, <1>6
  <2> HIDE DEF y, z, x
  <2>2. x + y \in (-z)..z
    BY <2>1, <1>1, <1>2
  <2> QED BY <2>2 DEF y, z
<1> HIDE DEF x
<1>8. (a + e) * W - due \in (-(n * W))..(n * W)
  BY <1>4, <1>7
<1> QED BY <1>8 DEF Near, n, W, due

LEMMA PairStep ==
  ASSUME IInv, Pair
  PROVE  IInv'
<1>0. PICK less, more, updated, n : /\ less = Top(small) /\ more = Top(large)
                                   /\ updated = Given(more, less) /\ n = Len(scaled)
  OBVIOUS
<1>1. /\ n = Size /\ small # <<>> /\ large # <<>>
      /\ weight' = weight
      /\ probabilities' = [probabilities EXCEPT ![less] = scaled[less]]
      /\ aliases' = [aliases EXCEPT ![less] = more]
      /\ scaled' = [scaled EXCEPT ![more] = updated]
      /\ Pushed(updated, more)
  BY <1>0 DEF Pair
<1>2. /\ n \in Nat /\ scaled \in [1..n -> Nat]
      /\ small \in Seq(1..n) /\ large \in Seq(1..n)
      /\ IsInjective(small) /\ IsInjective(large)
      /\ probabilities \in [1..n -> 0..One] /\ aliases \in [1..n -> 1..n]
      /\ Position = 1..n
  BY <1>0, <1>1 DEF IInv, Shapes, Position
<1>3. /\ Size' = Size /\ Position' = Position
      /\ weight' \in [Position -> Nat \ {0}] /\ Size \in Nat \ {0}
  BY <1>1 DEF Size, Position, IInv, Shapes
<1>4. /\ Popped(small) \in Seq(1..n) /\ IsInjective(Popped(small))
      /\ less \in Range(small) /\ less \in 1..n
      /\ Range(Popped(small)) = Range(small) \ {less}
  BY <1>0, <1>1, <1>2, PopStack
<1>5. /\ Popped(large) \in Seq(1..n) /\ IsInjective(Popped(large))
      /\ more \in Range(large) /\ more \in 1..n
      /\ Range(Popped(large)) = Range(large) \ {more}
  BY <1>0, <1>1, <1>2, PopStack
<1>6. /\ \A i \in Range(small) : scaled[i] < One
      /\ \A i \in Range(large) : scaled[i] >= One
      /\ Range(small) \subseteq 1..n /\ Range(large) \subseteq 1..n
  BY <1>2 DEF IInv, Shapes, Range
<1>7. \A i \in 1..n : ~(i \in Range(small) /\ i \in Range(large))
  <2> TAKE i \in 1..n
  <2>1. scaled[i] \in Int
    BY <1>2
  <2> QED BY <2>1, <1>6, TableAssumption
<1>8. more # less /\ more \notin Range(small) /\ less \notin Range(large)
  BY <1>4, <1>5, <1>7
<1>9. /\ updated = scaled[more] + scaled[less] - One /\ updated \in Nat
      /\ scaled[less] \in 0..One /\ scaled[less] \in Nat /\ scaled[more] \in Nat
  <2>1. scaled[less] \in Nat /\ scaled[more] \in Nat /\ scaled[less] < One /\ scaled[more] >= One
    BY <1>2, <1>4, <1>5, <1>6
  <2> QED BY <2>1, <1>0, TableAssumption DEF Given
<1>10. /\ scaled' \in [1..n -> Nat] /\ Len(scaled') = n
       /\ scaled'[more] = updated /\ \A i \in 1..n : i # more => scaled'[i] = scaled[i]
  <2>1. scaled' \in [1..n -> Nat]
    BY <1>1, <1>2, <1>9
  <2>2. scaled'[more] = updated /\ \A i \in 1..n : i # more => scaled'[i] = scaled[i]
    BY <1>1, <1>2, <1>5
  <2> QED BY <2>1, <2>2, <1>2
<1>11. /\ probabilities' \in [1..n -> 0..One] /\ aliases' \in [1..n -> 1..n]
       /\ probabilities'[less] = scaled[less] /\ aliases'[less] = more
       /\ \A i \in 1..n : i # less => /\ probabilities'[i] = probabilities[i]
                                      /\ aliases'[i] = aliases[i]
  <2> QED BY <1>1, <1>2, <1>4, <1>5, <1>9
<1>12. /\ small' \in Seq(1..n) /\ large' \in Seq(1..n)
       /\ IsInjective(small') /\ IsInjective(large')
       /\ \A i \in Range(small') : scaled'[i] < One
       /\ \A i \in Range(large') : scaled'[i] >= One
       /\ Range(small') \cup Range(large') = (Range(small) \cup Range(large)) \ {less}
  <2>1. /\ \A i \in Range(Popped(small)) : scaled'[i] < One
        /\ \A i \in Range(Popped(large)) : scaled'[i] >= One
    BY <1>4, <1>5, <1>6, <1>8, <1>10
  <2>0. PICK S, p, q : S = 1..n /\ p = Popped(small) /\ q = Popped(large)
    OBVIOUS
  <2>9. /\ p \in Seq(S) /\ IsInjective(p) /\ q \in Seq(S) /\ IsInjective(q)
         /\ more \in S /\ more \notin Range(p) /\ more \notin Range(q)
    BY <1>4, <1>5, <1>8, <2>0
  <2>2. CASE updated < One
    <3>1. small' = Append(Popped(small), more) /\ large' = Popped(large)
      BY <1>1, <2>2 DEF Pushed
    <3>2. /\ small' \in Seq(1..n) /\ IsInjective(small')
          /\ Range(small') = Range(Popped(small)) \cup {more}
      <4>1. /\ Append(p, more) \in Seq(S) /\ IsInjective(Append(p, more))
            /\ Range(Append(p, more)) = Range(p) \cup {more}
        BY <2>9, PushStack
      <4> QED BY <3>1, <4>1, <2>0
    <3> QED BY <3>1, <3>2, <2>1, <2>2, <1>4, <1>5, <1>8, <1>10
  <2>3. CASE ~(updated < One)
    <3>1. large' = Append(Popped(large), more) /\ small' = Popped(small)
      BY <1>1, <2>3 DEF Pushed
    <3>2. /\ large' \in Seq(1..n) /\ IsInjective(large')
          /\ Range(large') = Range(Popped(large)) \cup {more}
      <4>1. /\ Append(q, more) \in Seq(S) /\ IsInjective(Append(q, more))
            /\ Range(Append(q, more)) = Range(q) \cup {more}
        BY <2>9, PushStack
      <4> QED BY <3>1, <4>1, <2>0
    <3>3. updated >= One
      BY <2>3, <1>9, TableAssumption
    <3> QED BY <3>1, <3>2, <3>3, <2>1, <1>4, <1>5, <1>8, <1>10
  <2> QED BY <2>2, <2>3
<1>13. Shapes'
  <2>1. /\ Len(scaled') = n /\ n = Size' /\ n \in 0..n
    BY <1>1, <1>2, <1>3, <1>10
  <2>2. Position' = 1..n
    BY <1>2, <1>3
  <2>3. weight' \in [Position' -> Nat \ {0}] /\ Size' \in Nat \ {0}
    BY <1>3
  <2> QED BY <2>1, <2>2, <2>3, <1>10, <1>11, <1>12 DEF Shapes
<1>14. /\ less \in Pending /\ more \in Pending /\ Pending' = Pending \ {less}
       /\ Done' = Done \cup {less} /\ less \notin Done /\ more \notin Done
  <2>1. /\ less \in Pending /\ more \in Pending /\ Pending' = Pending \ {less}
        /\ Pending \subseteq 1..n
    BY <1>4, <1>5, <1>6, <1>12 DEF Pending
  <2>2. Done = (1..n) \ Pending /\ Done' = (1..n) \ Pending'
    BY <1>0, <1>10 DEF Done
  <2> QED BY <2>1, <2>2
<1>15. /\ Part(less, less)' = scaled[less] /\ Part(less, more)' = One - scaled[less]
       /\ \A i : i # less /\ i # more => Part(less, i)' = 0
  <2> QED BY <1>8, <1>9, <1>11, TableAssumption DEF Part
<1>16. Dues'
  <2>1. \A b \in Done : probabilities'[b] = probabilities[b] /\ aliases'[b] = aliases[b]
    BY <1>0, <1>11, <1>14 DEF Done
  <2>2. \A i \in Pending' : Part(less, i)' + scaled'[i] = scaled[i]
    <3> TAKE i \in Pending'
    <3>1. i \in 1..n /\ i # less
      BY <1>6, <1>14 DEF Pending
    <3>2. scaled[i] \in Int
      BY <3>1, <1>2
    <3>3. CASE i = more
      <4> QED BY <3>3, <1>9, <1>10, <1>15, TableAssumption
    <3>4. CASE i # more
      <4> QED BY <3>1, <3>2, <3>4, <1>10, <1>15
    <3> QED BY <3>3, <3>4
  <2>3. \A i \in Done : Part(less, i)' = 0
    BY <1>14, <1>15
  <2>4. Near(Received(less) + Part(less, less)', less, Size * TotalWeight)
    <3>1. less \in Position /\ Received(less) \in Int
      BY <1>2, <1>4, ReceivedType DEF IInv
    <3>2. Near(Received(less) + scaled[less], less, TotalWeight - 1)
      BY <1>14 DEF IInv, Dues
    <3> DEFINE a == Received(less) + scaled[less]
    <3>3. a \in Int /\ 0 \in (1 - Size)..(Size - 1)
      BY <3>1, <1>3, <1>9
    <3>4. Near(a + 0, less, Size * TotalWeight)
      <4> HIDE DEF a
      <4>1. Near(a, less, TotalWeight - 1)
        BY <3>2 DEF a
      <4> QED BY <3>1, <3>3, <4>1, NearAfterAll DEF IInv
    <3>5. a + 0 = a
      BY <3>3
    <3> QED BY <3>4, <3>5, <1>15
  <2>5. Len(scaled) = Size /\ weight' = weight
    BY <1>0, <1>1
  <2> QED BY <2>1, <2>2, <2>3, <2>4, <2>5, <1>13, <1>14, SettleDues
<1>17. Excess' = Excess
  <2> DEFINE f == [i \in Position |-> OverOne(i)]
             g == [i \in Position |-> OverOne(i)']
             mid == [f EXCEPT ![less] = 0]
  <2>1. f \in [1..n -> Int]
    BY <1>2, ExcessType DEF IInv
  <2>2. g \in [1..n -> Int]
    <3>1. \A i \in Pending' : scaled'[i] \in Int
      BY <1>6, <1>10, <1>14 DEF Pending
    <3>2. \A i \in Position : OverOne(i)' \in Int
      BY <3>1, TableAssumption DEF OverOne
    <3> HIDE DEF OverOne
    <3>3. g \in [Position -> Int]
      BY <3>2
    <3> HIDE DEF g
    <3> QED BY <3>3, <1>2
  <2>3. /\ mid \in [1..n -> Int] /\ mid[less] = 0
        /\ \A i \in 1..n : i # less => mid[i] = f[i]
        /\ IsUpdate(mid, n, f, less)
    <3> HIDE DEF f
    <3> QED BY <2>1, <1>4 DEF IsUpdate
  <2>4. /\ f[less] = scaled[less] - One /\ f[more] = scaled[more] - One
        /\ g[less] = 0 /\ g[more] = updated - One
    BY <1>2, <1>4, <1>5, <1>8, <1>10, <1>14 DEF OverOne
  <2>5. IsUpdate(g, n, mid, more)
    <3> SUFFICES ASSUME NEW i \in 1..n, i # more PROVE g[i] = mid[i]
      BY DEF IsUpdate
    <3>1. CASE i = less
      BY <3>1, <2>3, <2>4
    <3>2. CASE i # less /\ i # more
      <4>1. i \in Pending' <=> i \in Pending
        BY <3>2, <1>14
      <4>2. scaled'[i] = scaled[i]
        BY <3>2, <1>10
      <4>3. g[i] = f[i]
        BY <4>1, <4>2, <1>2 DEF OverOne
      <4> QED BY <3>2, <4>3, <2>3
    <3> QED BY <3>1, <3>2
  <2>6. Excess = Total(f) /\ Excess' = Total(g)
    BY <1>3 DEF Excess
  <2> HIDE DEF f, g, mid
  <2>7. Total(mid) = Total(f) - f[less] + mid[less]
    <3>1. /\ n \in Nat /\ f \in [1..n -> Int] /\ mid \in [1..n -> Int]
          /\ less \in 1..n /\ IsUpdate(mid, n, f, less)
      BY <1>2, <1>4, <2>1, <2>3
    <3> QED BY <3>1, TotalUpdate
  <2>8. Total(g) = Total(mid) - mid[more] + g[more]
    <3>1. /\ n \in Nat /\ mid \in [1..n -> Int] /\ g \in [1..n -> Int]
          /\ more \in 1..n /\ IsUpdate(g, n, mid, more)
      BY <1>2, <1>5, <2>2, <2>3, <2>5
    <3> QED BY <3>1, TotalUpdate
  <2>9. Total(f) \in Int /\ mid[more] = f[more]
    BY <1>2, <1>5, <1>8, <2>1, <2>3, TotalType
  <2> QED BY <2>3, <2>4, <2>6, <2>7, <2>8, <2>9, <1>9, TableAssumption
<1>18. Leftover' /\ Phases'
  BY <1>1, <1>3, <1>10, <1>17 DEF IInv, Leftover, Phases
<1> QED BY <1>13, <1>16, <1>18 DEF IInv

\* One that is left over is settled: its excess is within what all the
\* roundings add up to.
LEMMA SettleStep ==
  ASSUME IInv, Shapes', UNCHANGED <<weight, scaled>>, Len(scaled) = Size,
         NEW d \in Pending, Settled(d), Pending' = Pending \ {d},
         \/ Excess >= 0 /\ Excess' >= 0 /\ scaled[d] >= One
         \/ Excess <= 0 /\ Excess' <= 0 /\ scaled[d] < One
  PROVE  IInv'
<1> DEFINE s == scaled[d]
           e == One - s
<1>1. d \in Position /\ d \in 1..Len(scaled) /\ s \in Nat /\ One \in Nat \ {0}
  <2>1. d \in 1..Len(scaled) /\ d \in Position
    BY PendingScaled DEF IInv
  <2>2. s \in Nat
    BY <2>1 DEF IInv, Shapes
  <2> QED BY <2>1, <2>2, TableAssumption
<1>2. Size' = Size /\ Len(scaled') = Size /\ Size \in Nat \ {0}
  BY DEF Size, IInv, Shapes
<1>3. Done' = Done \cup {d} /\ d \notin Done
  BY <1>1 DEF Done
<1>4. Excess' = Excess - (s - One)
  BY OneLessPending DEF IInv
<1>5. Excess \in Int /\ Excess \in (1 - Size)..(Size - 1)
  BY DEF IInv, Leftover
<1>6. e \in (1 - Size)..(Size - 1) /\ Excess' \in (1 - Size)..(Size - 1)
  <2> DEFINE x == Excess  y == Excess'  n == Size
  <2>1. /\ y = x - (s - One) /\ x \in (1 - n)..(n - 1) /\ n \in Nat
        /\ \/ x >= 0 /\ y >= 0 /\ s >= One
           \/ x <= 0 /\ y <= 0 /\ s < One
    BY <1>2, <1>4, <1>5
  <2> HIDE DEF x, y, n, s
  <2>2. One - s \in (1 - n)..(n - 1) /\ y \in (1 - n)..(n - 1)
    BY <1>1, <2>1
  <2> QED BY <2>2 DEF x, y, n
<1>7. Leftover'
  BY <1>2, <1>6 DEF Leftover
<1>8. /\ probabilities' = [probabilities EXCEPT ![d] = One]
      /\ aliases' = [aliases EXCEPT ![d] = d]
      /\ probabilities \in [Position -> 0..One] /\ aliases \in [Position -> Position]
  BY DEF Settled, IInv, Shapes
<1>9. /\ probabilities'[d] = One /\ aliases'[d] = d
      /\ \A b \in Position : b # d => /\ probabilities'[b] = probabilities[b]
                                      /\ aliases'[b] = aliases[b]
  BY <1>1, <1>8
<1>10. Part(d, d)' = One /\ \A i : i # d => Part(d, i)' = 0
  BY <1>1, <1>9 DEF Part
<1>11. Dues'
  <2>1. \A b \in Done : probabilities'[b] = probabilities[b] /\ aliases'[b] = aliases[b]
    <3>1. Done \subseteq Position
      BY PendingScaled DEF IInv, Done
    <3> QED BY <3>1, <1>3, <1>9
  <2>2. \A i \in Pending' : Part(d, i)' + scaled'[i] = scaled[i]
    <3> TAKE i \in Pending'
    <3>1. i \in 1..Len(scaled) /\ i # d
      BY PendingScaled DEF IInv
    <3>2. scaled[i] \in Int /\ scaled'[i] = scaled[i]
      BY <3>1 DEF IInv, Shapes
    <3> QED BY <3>1, <3>2, <1>10
  <2>3. \A i \in Done : Part(d, i)' = 0
    BY <1>3, <1>10
  <2>4. Near(Received(d) + Part(d, d)', d, Size * TotalWeight)
    <3> DEFINE r == Received(d)
               a == r + s
    <3>1. r \in Int
      BY <1>1, ReceivedType DEF IInv
    <3>2. a \in Int /\ Near(a, d, TotalWeight - 1)
      BY <1>1, <3>1 DEF IInv, Dues
    <3>3. Near(a + e, d, Size * TotalWeight)
      <4> HIDE DEF a, e
      <4> QED BY <1>1, <1>6, <3>2, NearAfterAll DEF IInv
    <3>4. a + e = r + One
      <4> HIDE DEF r, s
      <4> QED BY <1>1, <3>1
    <3> QED BY <3>3, <3>4, <1>10
  <2> QED BY <2>1, <2>2, <2>3, <2>4, <1>3, SettleDues
<1> QED BY <1>2, <1>7, <1>11 DEF IInv, Phases

LEMMA DrainLargeStep ==
  ASSUME IInv, DrainLarge
  PROVE  IInv'
<1> DEFINE d == Top(large)
           n == Len(scaled)
<1>1. /\ n = Size /\ small = <<>> /\ large # <<>> /\ Settled(d)
      /\ large' = Popped(large) /\ UNCHANGED <<weight, scaled, small>>
  BY DEF DrainLarge
<1>2. /\ large \in Seq(1..n) /\ IsInjective(large)
      /\ \A i \in Range(large) : scaled[i] >= One
  BY DEF IInv, Shapes
<1>3. /\ large' \in Seq(1..n) /\ IsInjective(large')
      /\ d \in Range(large) /\ Range(large') = Range(large) \ {d}
  BY <1>1, <1>2, PopStack
<1>4. d \in Pending /\ Pending' = Pending \ {d}
  <2>1. Range(small) = {} /\ Range(small') = {}
    BY <1>1 DEF Range
  <2> QED BY <2>1, <1>3 DEF Pending
<1>5. Shapes'
  <2>1. d \in Position
    BY <1>4, PendingScaled DEF IInv
  <2>2. probabilities' \in [Position -> 0..One] /\ aliases' \in [Position -> Position]
    BY <1>1, <2>1, TableAssumption DEF Settled, IInv, Shapes
  <2> QED BY <1>1, <1>2, <1>3, <2>2 DEF IInv, Shapes, Position, Size
<1>6. Excess >= 0 /\ Excess' >= 0
  <2>1. (Shapes => /\ small = <<>> => Excess >= 0
                   /\ large = <<>> => Excess <= 0)'
    BY ExcessSign, PTL
  <2>2. small' = <<>>
    BY <1>1
  <2> QED BY <1>1, <1>5, <2>1, <2>2, ExcessSign DEF IInv
<1> HIDE DEF d
<1> QED BY <1>1, <1>2, <1>3, <1>4, <1>5, <1>6, SettleStep

LEMMA DrainSmallStep ==
  ASSUME IInv, DrainSmall
  PROVE  IInv'
<1> DEFINE d == Top(small)
           n == Len(scaled)
<1>1. /\ n = Size /\ large = <<>> /\ small # <<>> /\ Settled(d)
      /\ small' = Popped(small) /\ UNCHANGED <<weight, scaled, large>>
  BY DEF DrainSmall
<1>2. /\ small \in Seq(1..n) /\ IsInjective(small)
      /\ \A i \in Range(small) : scaled[i] < One
  BY DEF IInv, Shapes
<1>3. /\ small' \in Seq(1..n) /\ IsInjective(small')
      /\ d \in Range(small) /\ Range(small') = Range(small) \ {d}
  BY <1>1, <1>2, PopStack
<1>4. d \in Pending /\ Pending' = Pending \ {d}
  <2>1. Range(large) = {} /\ Range(large') = {}
    BY <1>1 DEF Range
  <2> QED BY <2>1, <1>3 DEF Pending
<1>5. Shapes'
  <2>1. d \in Position
    BY <1>4, PendingScaled DEF IInv
  <2>2. probabilities' \in [Position -> 0..One] /\ aliases' \in [Position -> Position]
    BY <1>1, <2>1, TableAssumption DEF Settled, IInv, Shapes
  <2> QED BY <1>1, <1>2, <1>3, <2>2 DEF IInv, Shapes, Position, Size
<1>6. Excess <= 0 /\ Excess' <= 0
  <2>1. (Shapes => /\ small = <<>> => Excess >= 0
                   /\ large = <<>> => Excess <= 0)'
    BY ExcessSign, PTL
  <2>2. large' = <<>>
    BY <1>1
  <2> QED BY <1>1, <1>5, <2>1, <2>2, ExcessSign DEF IInv
<1> HIDE DEF d
<1> QED BY <1>1, <1>2, <1>3, <1>4, <1>5, <1>6, SettleStep

LEMMA IInvInductive == IInv /\ [Next]_vars => IInv'
<1> SUFFICES ASSUME IInv, [Next]_vars PROVE IInv'
  OBVIOUS
<1>1. CASE Scale
  BY <1>1, ScaleStep
<1>2. CASE Pair
  BY <1>2, PairStep
<1>3. CASE DrainLarge
  BY <1>3, DrainLargeStep
<1>4. CASE DrainSmall
  BY <1>4, DrainSmallStep
<1>5. CASE UNCHANGED vars
  BY <1>5 DEF vars, IInv, Shapes, Phases, Dues, Leftover, Near, Due, Received, DonePart, Part,
              Done, Pending, Excess, OverOne, Size, Position, TotalWeight
<1> QED BY <1>1, <1>2, <1>3, <1>4, <1>5 DEF Next

\* The invariant that the properties follow from: after each turn of the loops
\* of buildAliasTable (backend.ts:203-252), what a position has been given and
\* what it still has to get make its share, up to the roundings.
THEOREM IInvAlways == Spec => []IInv
BY InitIInv, IInvInductive, PTL DEF Spec

-----------------------------------------------------------------------------
(* The properties *)

\* Probabilities are probabilities, and the stacks of buildAliasTable hold
\* every position at most once, split at 1.
THEOREM TypesCorrect == Spec => []TypeOK
<1>1. IInv => TypeOK
  <2> SUFFICES ASSUME IInv PROVE TypeOK
    OBVIOUS
  <2>1. \A i \in Pending : scaled[i] \in Nat
    BY PendingScaled DEF IInv, Shapes
  <2> QED BY <2>1, PendingScaled, TableAssumption DEF IInv, Shapes, TypeOK, Pending
<1> QED BY <1>1, IInvAlways, PTL

\* However the quotients of buildAliasTable are rounded, sampleAliasTable draws
\* each backend in proportion to its weight, up to one part per candidate.
THEOREM Proportional == Spec => []SharesAreProportional
<1>1. IInv => SharesAreProportional
  <2> SUFFICES ASSUME IInv, Built, NEW i \in Position
               PROVE  Share(i) * TotalWeight - weight[i] * Size * One
                        \in (-Size * TotalWeight)..(Size * TotalWeight)
    BY DEF SharesAreProportional
  <2>1. Done = Position
    BY DEF Built, Done, Position
  <2>2. \A b \in Position : DonePart(b, i) = Part(b, i)
    BY <2>1 DEF DonePart
  <2>3. Received(i) = Share(i)
    BY <2>2 DEF Received, Share
  <2>4. Near(Share(i), i, Size * TotalWeight)
    BY <2>1, <2>3 DEF IInv, Dues
  <2>5. (-Size) * TotalWeight = -(Size * TotalWeight)
    <3>1. Size \in Int /\ TotalWeight \in Int
      BY WeightTotal DEF IInv, Shapes
    <3> QED BY <3>1
  <2> QED BY <2>4, <2>5 DEF Near, Due
<1> QED BY <1>1, IInvAlways, PTL
=============================================================================
