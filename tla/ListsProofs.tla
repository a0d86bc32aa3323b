---------------------------- MODULE ListsProofs ----------------------------
(***************************************************************************)
(* Induction over data, and the laws of Lists.                             *)
(*                                                                         *)
(* The library's induction theorems take a predicate as a parameter, which *)
(* the provers cannot supply.  A set can be supplied: that the naturals    *)
(* are well founded (WFMin, NatLessThanWellFounded) gives induction for    *)
(* the set of the numbers that have a property, and with it the existence  *)
(* of recursively defined functions.                                       *)
(***************************************************************************)
EXTENDS Lists, WellFoundedInduction, TLAPS

\* Induction up to N: a set that has 0 and is closed under + 1 has 0..N.
LEMMA SetInduction ==
  ASSUME NEW N \in Nat, NEW S, 0 \in S,
         \A n \in 0..(N - 1) : n \in S => n + 1 \in S
  PROVE  \A n \in 0..N : n \in S
<1> DEFINE T == (0..N) \ S
<1>1. SUFFICES ASSUME T # {} PROVE FALSE
  OBVIOUS
<1>2. IsWellFoundedOn(OpToRel(<, Nat), Nat)
  BY NatLessThanWellFounded
<1>3. T \subseteq Nat
  OBVIOUS
<1>4. PICK x \in T : \A y \in T : <<y, x>> \notin OpToRel(<, Nat)
  <2> HIDE DEF T
  <2> QED BY <1>1, <1>2, <1>3, WFMin
<1>5. x # 0 /\ x \in Nat
  OBVIOUS
<1>6. x - 1 \in T
  OBVIOUS
<1>7. <<x - 1, x>> \in OpToRel(<, Nat)
  BY <1>5 DEF OpToRel
<1> QED BY <1>4, <1>6, <1>7

\* g holds the values of a loop of N turns: step[n][v] is what turn n makes
\* of v.
IsRun(g, N, start, step) == g[0] = start /\ \A n \in 1..N : g[n] = step[n][g[n - 1]]

\* A loop of N turns over values of S has a run.
LEMMA RecursionExists ==
  ASSUME NEW N \in Nat, NEW S, NEW start \in S, NEW step \in [1..N -> [S -> S]]
  PROVE  \E g \in [0..N -> S] : IsRun(g, N, start, step)
<1> DEFINE Upto(g, n) == g[0] = start /\ \A k \in 1..n : g[k] = step[k][g[k - 1]]
           T == {n \in 0..N : \E g \in [0..N -> S] : Upto(g, n)}
<1>1. 0 \in T
  <2> DEFINE g == [k \in 0..N |-> start]
  <2>1. g \in [0..N -> S] /\ Upto(g, 0)
    OBVIOUS
  <2> HIDE DEF g, Upto
  <2> QED BY <2>1
<1>2. ASSUME NEW n \in 0..(N - 1), n \in T PROVE n + 1 \in T
  <2>1. PICK g \in [0..N -> S] : Upto(g, n)
    BY <1>2
  <2> DEFINE m == n + 1
             f == [g EXCEPT ![m] = step[m][g[n]]]
  <2>2. m \in 1..N /\ m \in 0..N /\ n \in 0..N /\ n \in Nat
    OBVIOUS
  <2>3. step[m][g[n]] \in S
    <3> HIDE DEF m
    <3> QED BY <2>2
  <2>4. f \in [0..N -> S]
    <3> HIDE DEF m
    <3> QED BY <2>2, <2>3
  <2>5. Upto(f, m)
    <3>1. f[0] = start
      BY <2>1
    <3>2. ASSUME NEW k \in 1..m PROVE f[k] = step[k][f[k - 1]]
      <4>1. CASE k = m
        BY <4>1
      <4>2. CASE k # m
        BY <4>2, <2>1
      <4> QED BY <4>1, <4>2
    <3> HIDE DEF f, m
    <3> QED BY <3>1, <3>2
  <2> HIDE DEF f, Upto
  <2> QED BY <2>2, <2>4, <2>5
<1>3. \A n \in 0..N : n \in T
  <2> HIDE DEF T
  <2> QED BY <1>1, <1>2, SetInduction
<1>4. N \in T
  <2> HIDE DEF T
  <2> QED BY <1>3
<1> QED BY <1>4 DEF IsRun

-----------------------------------------------------------------------------
(* Sums *)

IsPartialSums(g, h) ==
  g = [n \in 0..Len(h) |-> IF n = 0 THEN 0 ELSE g[n - 1] + h[n]]

LEMMA PartialSumsExist ==
  ASSUME NEW N \in Nat, NEW h \in [1..N -> Int]
  PROVE  \E g : IsPartialSums(g, h)
<1> DEFINE step == [n \in 1..N |-> [v \in Int |-> v + h[n]]]
<1>1. step \in [1..N -> [Int -> Int]]
  OBVIOUS
<1>2. PICK g \in [0..N -> Int] :
        IsRun(g, N, 0, step)
  <2> DEFINE Z == Int  zero == 0
  <2>1. zero \in Z /\ step \in [1..N -> [Z -> Z]]
    BY <1>1
  <2> HIDE DEF step, Z, zero
  <2>2. \E g \in [0..N -> Z] : IsRun(g, N, zero, step)
    BY <2>1, RecursionExists
  <2> QED BY <2>2 DEF Z, zero
<1>3. \A n \in 1..N : step[n][g[n - 1]] = g[n - 1] + h[n]
  <2> TAKE n \in 1..N
  <2>1. g[n - 1] \in Int
    OBVIOUS
  <2> QED BY <2>1
<1>4. Len(h) = N
  OBVIOUS
<1>5. g = [n \in 0..N |-> IF n = 0 THEN 0 ELSE g[n - 1] + h[n]]
  <2> HIDE DEF step
  <2> QED BY <1>2, <1>3 DEF IsRun
<1> QED BY <1>4, <1>5 DEF IsPartialSums

LEMMA PartialSumsDef ==
  ASSUME NEW N \in Nat, NEW h \in [1..N -> Int]
  PROVE  /\ Len(h) = N
         /\ PartialSums(h) \in [0..N -> Int]
         /\ PartialSums(h)[0] = 0
         /\ \A n \in 1..N : PartialSums(h)[n] = PartialSums(h)[n - 1] + h[n]
         /\ Total(h) = PartialSums(h)[N]
<1> DEFINE s == PartialSums(h)
           S == {n \in 0..N : s[n] \in Int}
<1>1. Len(h) = N
  OBVIOUS
<1>2. s = CHOOSE g : IsPartialSums(g, h)
  BY DEF PartialSums, IsPartialSums
<1>3. s = [n \in 0..N |-> IF n = 0 THEN 0 ELSE s[n - 1] + h[n]]
  <2> HIDE DEF s
  <2>1. IsPartialSums(s, h)
    BY <1>2, PartialSumsExist
  <2> QED BY <2>1, <1>1 DEF IsPartialSums
<1>4. Total(h) = s[N]
  BY <1>1 DEF Total
<1> HIDE DEF s
<1>5. s[0] = 0 /\ \A n \in 1..N : s[n] = s[n - 1] + h[n]
  BY <1>3
<1>6. \A n \in 0..N : n \in S
  <2>1. 0 \in S
    BY <1>5
  <2>2. ASSUME NEW n \in 0..(N - 1), n \in S PROVE n + 1 \in S
    <3>1. s[n + 1] = s[n] + h[n + 1]
      BY <1>5
    <3> QED BY <3>1, <2>2
  <2> HIDE DEF S
  <2> QED BY <2>1, <2>2, SetInduction
<1>7. s \in [0..N -> Int]
  BY <1>3, <1>6
<1> QED BY <1>1, <1>4, <1>5, <1>7 DEF s

LEMMA TotalType ==
  ASSUME NEW N \in Nat, NEW h \in [1..N -> Int]
  PROVE  Total(h) \in Int
<1>1. PartialSums(h)[N] \in Int
  BY PartialSumsDef
<1> QED BY <1>1, PartialSumsDef

LEMMA Distributes ==
  \A a, x, y \in Int : a * (x + y) = a * x + a * y /\ a * x \in Int
OBVIOUS

LEMMA LinearStep ==
  \A a, b, x, y, u, v \in Int :
    (a * x + b * y) + (a * u + b * v) = a * (x + u) + b * (y + v)
<1> TAKE a, b, x, y, u, v \in Int
<1>1. a * (x + u) = a * x + a * u /\ b * (y + v) = b * y + b * v
  BY Distributes
<1>2. a * x \in Int /\ a * u \in Int /\ b * y \in Int /\ b * v \in Int
  BY Distributes
<1> DEFINE ax == a * x  au == a * u  by == b * y  bv == b * v
<1>3. (ax + by) + (au + bv) = (ax + au) + (by + bv)
  <2>1. ax \in Int /\ au \in Int /\ by \in Int /\ bv \in Int
    BY <1>2
  <2> HIDE DEF ax, au, by, bv
  <2> QED BY <2>1
<1> QED BY <1>1, <1>3

IsCombination(h, N, a, f, b, g) == \A i \in 1..N : h[i] = a * f[i] + b * g[i]

\* The sum of a * f[i] + b * g[i].
LEMMA TotalLinear ==
  ASSUME NEW N \in Nat,
         NEW f \in [1..N -> Int], NEW g \in [1..N -> Int], NEW h \in [1..N -> Int],
         NEW a \in Int, NEW b \in Int, IsCombination(h, N, a, f, b, g)
  PROVE  Total(h) = a * Total(f) + b * Total(g)
<1> DEFINE F == PartialSums(f)
           G == PartialSums(g)
           H == PartialSums(h)
           S == {n \in 0..N : H[n] = a * F[n] + b * G[n]}
<1>1. /\ F \in [0..N -> Int] /\ F[0] = 0
      /\ \A n \in 1..N : F[n] = F[n - 1] + f[n]
      /\ Total(f) = F[N]
  BY PartialSumsDef
<1>2. /\ G \in [0..N -> Int] /\ G[0] = 0
      /\ \A n \in 1..N : G[n] = G[n - 1] + g[n]
      /\ Total(g) = G[N]
  BY PartialSumsDef
<1>3. /\ H \in [0..N -> Int] /\ H[0] = 0
      /\ \A n \in 1..N : H[n] = H[n - 1] + h[n]
      /\ Total(h) = H[N]
  BY PartialSumsDef
<1> HIDE DEF F, G, H
<1>4. 0 \in S
  BY <1>1, <1>2, <1>3
<1>5. ASSUME NEW n \in 0..(N - 1), n \in S PROVE n + 1 \in S
  <2> DEFINE m == n + 1
  <2>1. m \in 1..N /\ m \in 0..N /\ n \in 0..N /\ m - 1 = n
    OBVIOUS
  <2> HIDE DEF m
  <2>2. F[m] = F[n] + f[m] /\ G[m] = G[n] + g[m] /\ H[m] = H[n] + h[m]
    BY <1>1, <1>2, <1>3, <2>1
  <2>3. H[n] = a * F[n] + b * G[n] /\ h[m] = a * f[m] + b * g[m]
    BY <1>5, <2>1 DEF IsCombination
  <2>4. F[n] \in Int /\ f[m] \in Int /\ G[n] \in Int /\ g[m] \in Int
    BY <1>1, <1>2, <2>1
  <2>5. (a * F[n] + b * G[n]) + (a * f[m] + b * g[m]) = a * (F[n] + f[m]) + b * (G[n] + g[m])
    <3> DEFINE x == F[n]  y == G[n]  u == f[m]  v == g[m]
    <3>1. x \in Int /\ y \in Int /\ u \in Int /\ v \in Int
      BY <2>4
    <3> HIDE DEF x, y, u, v
    <3>2. (a * x + b * y) + (a * u + b * v) = a * (x + u) + b * (y + v)
      BY <3>1, LinearStep
    <3> QED BY <3>2 DEF x, y, u, v
  <2>6. H[m] = a * F[m] + b * G[m]
    BY <2>2, <2>3, <2>5, Zenon
  <2> QED BY <2>6, <2>1 DEF m
<1>6. \A n \in 0..N : n \in S
  <2> HIDE DEF S
  <2> QED BY <1>4, <1>5, SetInduction
<1>7. N \in S
  <2> HIDE DEF S
  <2> QED BY <1>6
<1>8. H[N] = a * F[N] + b * G[N]
  BY <1>7
<1> QED BY <1>1, <1>2, <1>3, <1>8, Zenon

LEMMA TotalMonotone ==
  ASSUME NEW N \in Nat, NEW f \in [1..N -> Int], NEW g \in [1..N -> Int],
         \A i \in 1..N : f[i] <= g[i]
  PROVE  Total(f) <= Total(g)
<1> DEFINE F == PartialSums(f)
           G == PartialSums(g)
           S == {n \in 0..N : F[n] <= G[n]}
<1>1. /\ F \in [0..N -> Int] /\ F[0] = 0
      /\ \A n \in 1..N : F[n] = F[n - 1] + f[n]
      /\ Total(f) = F[N]
  BY PartialSumsDef
<1>2. /\ G \in [0..N -> Int] /\ G[0] = 0
      /\ \A n \in 1..N : G[n] = G[n - 1] + g[n]
      /\ Total(g) = G[N]
  BY PartialSumsDef
<1> HIDE DEF F, G
<1>3. 0 \in S
  BY <1>1, <1>2
<1>4. ASSUME NEW n \in 0..(N - 1), n \in S PROVE n + 1 \in S
  <2>0. n + 1 \in 1..N /\ (n + 1) - 1 = n
    OBVIOUS
  <2>1. F[n + 1] = F[n] + f[n + 1] /\ G[n + 1] = G[n] + g[n + 1] /\ f[n + 1] <= g[n + 1]
    BY <1>1, <1>2, <2>0, Zenon
  <2>2. /\ F[n] \in Int /\ f[n + 1] \in Int /\ G[n] \in Int /\ g[n + 1] \in Int
        /\ n + 1 \in 0..N
    BY <1>1, <1>2
  <2> QED BY <1>4, <2>1, <2>2
<1>5. \A n \in 0..N : n \in S
  <2> HIDE DEF S
  <2> QED BY <1>3, <1>4, SetInduction
<1> QED BY <1>1, <1>2, <1>5

LEMMA TotalConstant ==
  ASSUME NEW N \in Nat, NEW f \in [1..N -> Int], NEW c \in Int,
         \A i \in 1..N : f[i] = c
  PROVE  Total(f) = N * c
<1> DEFINE F == PartialSums(f)
           S == {n \in 0..N : F[n] = n * c}
<1>1. /\ F \in [0..N -> Int] /\ F[0] = 0
      /\ \A n \in 1..N : F[n] = F[n - 1] + f[n]
      /\ Total(f) = F[N]
  BY PartialSumsDef
<1> HIDE DEF F
<1>2. 0 \in S
  BY <1>1
<1>3. ASSUME NEW n \in 0..(N - 1), n \in S PROVE n + 1 \in S
  <2>1. F[n + 1] = n * c + c
    BY <1>1, <1>3
  <2>2. (n + 1) * c = n * c + c
    OBVIOUS
  <2> QED BY <2>1, <2>2
<1>4. \A n \in 0..N : n \in S
  <2> HIDE DEF S
  <2> QED BY <1>2, <1>3, SetInduction
<1> QED BY <1>1, <1>4

\* Only number j changes.
IsUpdate(g, N, f, j) == \A i \in 1..N : i # j => g[i] = f[i]

LEMMA TotalUpdate ==
  ASSUME NEW N \in Nat, NEW f \in [1..N -> Int], NEW g \in [1..N -> Int],
         NEW j \in 1..N, IsUpdate(g, N, f, j)
  PROVE  Total(g) = Total(f) - f[j] + g[j]
<1> DEFINE F == PartialSums(f)
           G == PartialSums(g)
           Change(n) == IF j <= n THEN g[j] - f[j] ELSE 0
           S == {n \in 0..N : G[n] = F[n] + Change(n)}
<1>1. /\ F \in [0..N -> Int] /\ F[0] = 0
      /\ \A n \in 1..N : F[n] = F[n - 1] + f[n]
      /\ Total(f) = F[N]
  BY PartialSumsDef
<1>2. /\ G \in [0..N -> Int] /\ G[0] = 0
      /\ \A n \in 1..N : G[n] = G[n - 1] + g[n]
      /\ Total(g) = G[N]
  BY PartialSumsDef
<1> HIDE DEF F, G
<1>3. 0 \in S
  BY <1>1, <1>2
<1>4. ASSUME NEW n \in 0..(N - 1), n \in S PROVE n + 1 \in S
  <2> DEFINE m == n + 1
  <2>1. m \in 1..N /\ m \in 0..N /\ n \in 0..N /\ m - 1 = n
    OBVIOUS
  <2>2. F[m] = F[n] + f[m] /\ G[m] = G[n] + g[m]
    <3> HIDE DEF m
    <3> QED BY <1>1, <1>2, <2>1
  <2>3. F[n] \in Int /\ f[m] \in Int /\ f[j] \in Int /\ g[j] \in Int
    <3> HIDE DEF m
    <3> QED BY <1>1, <2>1
  <2>4. G[n] = F[n] + Change(n)
    BY <1>4
  <2>5. G[m] = F[m] + Change(m)
    <3>1. CASE j = m
      <4>1. Change(n) = 0 /\ Change(m) = g[m] - f[m] /\ g[m] \in Int
        BY <3>1
      <4> HIDE DEF m, Change
      <4> QED BY <2>2, <2>3, <2>4, <4>1
    <3>2. CASE j # m
      <4>1. g[m] = f[m]
        BY <2>1, <3>2 DEF IsUpdate
      <4>2. Change(m) = Change(n) /\ Change(n) \in Int
        BY <3>2
      <4> HIDE DEF m, Change
      <4> QED BY <2>2, <2>3, <2>4, <4>1, <4>2
    <3> QED BY <3>1, <3>2
  <2> QED BY <2>5, <2>1
<1>5. \A n \in 0..N : n \in S
  <2> HIDE DEF S
  <2> QED BY <1>3, <1>4, SetInduction
<1>6. G[N] = F[N] + (g[j] - f[j])
  BY <1>5
<1> QED BY <1>1, <1>2, <1>6

LEMMA TotalNat ==
  ASSUME NEW N \in Nat, NEW h \in [1..N -> Nat]
  PROVE  Total(h) \in Nat
<1> DEFINE zero == [i \in 1..N |-> 0]
<1>1. h \in [1..N -> Int] /\ zero \in [1..N -> Int] /\ \A i \in 1..N : zero[i] = 0 /\ zero[i] <= h[i]
  OBVIOUS
<1> HIDE DEF zero
<1>2. Total(zero) = N * 0
  <2> DEFINE c == 0
  <2>1. c \in Int /\ \A i \in 1..N : zero[i] = c
    BY <1>1
  <2> HIDE DEF c
  <2>2. Total(zero) = N * c
    BY <1>1, <2>1, TotalConstant
  <2> QED BY <2>2 DEF c
<1>3. Total(zero) <= Total(h)
  BY <1>1, TotalMonotone
<1> QED BY <1>1, <1>2, <1>3, TotalType

\* g is f without its number j.
IsCut(g, N, f, j) == \A i \in 1..N : g[i] = IF i < j THEN f[i] ELSE f[i + 1]

LEMMA TotalCut ==
  ASSUME NEW N \in Nat, NEW M \in Nat, M = N + 1,
         NEW f \in [1..M -> Int], NEW g \in [1..N -> Int],
         NEW j \in 1..M, IsCut(g, N, f, j)
  PROVE  Total(f) = Total(g) + f[j]
<1> DEFINE F == PartialSums(f)
           G == PartialSums(g)
           Cut(n) == IF n < j THEN F[n] ELSE F[n + 1] - f[j]
           S == {n \in 0..N : G[n] = Cut(n)}
<1>1. /\ F \in [0..M -> Int] /\ F[0] = 0
      /\ \A n \in 1..M : F[n] = F[n - 1] + f[n]
      /\ Total(f) = F[M]
  BY PartialSumsDef
<1>2. /\ G \in [0..N -> Int] /\ G[0] = 0
      /\ \A n \in 1..N : G[n] = G[n - 1] + g[n]
      /\ Total(g) = G[N]
  BY PartialSumsDef
<1> HIDE DEF F, G
<1>3. 0 \in S
  <2>1. CASE 0 < j - 1
    BY <2>1, <1>1, <1>2
  <2>2. CASE j = 1
    <3>1. F[1] = F[0] + f[1] /\ f[1] \in Int
      BY <1>1
    <3> QED BY <3>1, <2>2, <1>1, <1>2
  <2> QED BY <2>1, <2>2
<1>4. ASSUME NEW n \in 0..(N - 1), n \in S PROVE n + 1 \in S
  <2> DEFINE m == n + 1
  <2>1. /\ m \in 1..N /\ m \in 0..N /\ n \in 0..N /\ m - 1 = n /\ m \in 1..M
        /\ m \in 0..M /\ n \in 0..M /\ m + 1 \in 1..M /\ m + 1 \in 0..M /\ (m + 1) - 1 = m
    OBVIOUS
  <2>2. F[m] = F[n] + f[m] /\ G[m] = G[n] + g[m] /\ F[m + 1] = F[m] + f[m + 1]
    <3> HIDE DEF m
    <3> QED BY <1>1, <1>2, <2>1
  <2>3. /\ F[n] \in Int /\ F[m] \in Int /\ f[m] \in Int /\ f[j] \in Int
        /\ f[m + 1] \in Int
    <3> HIDE DEF m
    <3> QED BY <1>1, <2>1
  <2>4. G[n] = Cut(n)
    BY <1>4
  <2>5. G[m] = Cut(m)
    <3>1. CASE m < j
      <4>1. g[m] = f[m] /\ Cut(n) = F[n] /\ Cut(m) = F[m]
        BY <2>1, <3>1 DEF IsCut
      <4> HIDE DEF m, Cut
      <4> QED BY <2>2, <2>3, <2>4, <4>1
    <3>2. CASE m = j
      <4>1. g[m] = f[m + 1] /\ Cut(n) = F[n] /\ Cut(m) = F[m + 1] - f[m]
        BY <2>1, <3>2 DEF IsCut
      <4> HIDE DEF m, Cut
      <4> QED BY <2>2, <2>3, <2>4, <4>1
    <3>3. CASE m > j
      <4>1. g[m] = f[m + 1] /\ Cut(n) = F[m] - f[j] /\ Cut(m) = F[m + 1] - f[j]
        BY <2>1, <3>3 DEF IsCut
      <4> HIDE DEF m, Cut
      <4> QED BY <2>2, <2>3, <2>4, <4>1
    <3> QED BY <3>1, <3>2, <3>3, <2>1
  <2> QED BY <2>5, <2>1
<1>5. \A n \in 0..N : n \in S
  <2> HIDE DEF S
  <2> QED BY <1>3, <1>4, SetInduction
<1>6. G[N] = F[M] - f[j]
  <2>1. G[N] = Cut(N)
    BY <1>5
  <2>2. CASE N < j
    <3>1. j = M /\ F[M] = F[N] + f[M] /\ F[N] \in Int /\ f[M] \in Int
      BY <2>2, <1>1
    <3> QED BY <2>1, <2>2, <3>1
  <2>3. CASE ~(N < j)
    BY <2>1, <2>3
  <2> QED BY <2>2, <2>3
<1>7. F[M] \in Int /\ f[j] \in Int
  BY <1>1
<1> QED BY <1>1, <1>2, <1>6, <1>7

-----------------------------------------------------------------------------
(* Elements taken out *)

IsPartsWithout(g, s, D) ==
  g = [n \in 0..Len(s) |-> IF n = 0 THEN <<>>
                           ELSE IF s[n] \in D THEN g[n - 1] ELSE Append(g[n - 1], s[n])]

LEMMA PartsWithoutExist ==
  ASSUME NEW N \in Nat, NEW V, NEW s \in [1..N -> V], NEW D
  PROVE  \E g \in [0..N -> Seq(V)] : IsPartsWithout(g, s, D)
<1> DEFINE turn(n) == [v \in Seq(V) |-> IF s[n] \in D THEN v ELSE Append(v, s[n])]
           step == [n \in 1..N |-> turn(n)]
<1>1. step \in [1..N -> [Seq(V) -> Seq(V)]]
  OBVIOUS
<1>2. PICK g \in [0..N -> Seq(V)] : IsRun(g, N, <<>>, step)
  <2> DEFINE Z == Seq(V)  none == <<>>
  <2>1. none \in Z /\ step \in [1..N -> [Z -> Z]]
    BY <1>1
  <2> HIDE DEF step, Z, none
  <2>2. \E g \in [0..N -> Z] : IsRun(g, N, none, step)
    BY <2>1, RecursionExists
  <2> QED BY <2>2 DEF Z, none
<1>3. \A n \in 1..N : step[n][g[n - 1]]
                        = IF s[n] \in D THEN g[n - 1] ELSE Append(g[n - 1], s[n])
  <2> TAKE n \in 1..N
  <2>1. g[n - 1] \in Seq(V)
    OBVIOUS
  <2> QED BY <2>1
<1>4. Len(s) = N
  OBVIOUS
<1>5. \A n \in 0..N : g[n] = IF n = 0 THEN <<>>
                             ELSE IF s[n] \in D THEN g[n - 1] ELSE Append(g[n - 1], s[n])
  <2> TAKE n \in 0..N
  <2>1. CASE n = 0
    BY <2>1, <1>2 DEF IsRun
  <2>2. CASE n # 0
    <3>1. n \in 1..N
      BY <2>2
    <3>2. g[n] = step[n][g[n - 1]]
      <4> HIDE DEF step
      <4> QED BY <1>2, <3>1 DEF IsRun
    <3>3. g[n] = IF s[n] \in D THEN g[n - 1] ELSE Append(g[n - 1], s[n])
      <4> HIDE DEF step
      <4> QED BY <1>3, <3>1, <3>2, Zenon
    <3> QED BY <2>2, <3>3, Zenon
  <2> QED BY <2>1, <2>2
<1>6. g = [n \in 0..N |-> IF n = 0 THEN <<>>
                         ELSE IF s[n] \in D THEN g[n - 1] ELSE Append(g[n - 1], s[n])]
  BY <1>5
<1> QED BY <1>4, <1>6 DEF IsPartsWithout

ArePartsWithout(p, N, V, s, D) ==
  /\ p \in [0..N -> Seq(V)]
  /\ p[0] = <<>>
  /\ \A n \in 1..N : p[n] = IF s[n] \in D THEN p[n - 1] ELSE Append(p[n - 1], s[n])

LEMMA PartsWithoutDef ==
  ASSUME NEW N \in Nat, NEW V, NEW s \in [1..N -> V], NEW D
  PROVE  /\ ArePartsWithout(PartsWithout(s, D), N, V, s, D)
         /\ Without(s, D) = PartsWithout(s, D)[N]
<1> DEFINE p == PartsWithout(s, D)
           S == {n \in 0..N : p[n] \in Seq(V)}
<1>1. Len(s) = N
  OBVIOUS
<1>2. p = CHOOSE g : IsPartsWithout(g, s, D)
  BY DEF PartsWithout, IsPartsWithout
<1>3. p = [n \in 0..N |-> IF n = 0 THEN <<>>
                         ELSE IF s[n] \in D THEN p[n - 1] ELSE Append(p[n - 1], s[n])]
  <2> HIDE DEF p
  <2>1. IsPartsWithout(p, s, D)
    BY <1>2, PartsWithoutExist
  <2> QED BY <2>1, <1>1 DEF IsPartsWithout
<1>4. Without(s, D) = p[N]
  BY <1>1 DEF Without
<1> HIDE DEF p
<1>5. /\ p[0] = <<>>
      /\ \A n \in 1..N : p[n] = IF s[n] \in D THEN p[n - 1] ELSE Append(p[n - 1], s[n])
  <2>1. 0 \in 0..N /\ \A n \in 1..N : n \in 0..N /\ n # 0
    OBVIOUS
  <2> QED BY <1>3, <2>1, Zenon
<1>6. \A n \in 0..N : n \in S
  <2>1. 0 \in S
    <3>1. <<>> \in Seq(V)
      OBVIOUS
    <3>2. p[0] \in Seq(V)
      BY <1>5, <3>1, Zenon
    <3> QED BY <3>2
  <2>2. ASSUME NEW n \in 0..(N - 1), n \in S PROVE n + 1 \in S
    <3>1. p[n + 1] = IF s[n + 1] \in D THEN p[n] ELSE Append(p[n], s[n + 1])
      BY <1>5
    <3>2. s[n + 1] \in V /\ p[n] \in Seq(V)
      BY <2>2
    <3>3. p[n + 1] \in Seq(V)
      BY <3>1, <3>2
    <3> QED BY <3>3
  <2> HIDE DEF S
  <2> QED BY <2>1, <2>2, SetInduction
<1>7. p \in [0..N -> Seq(V)]
  BY <1>3, <1>6
<1>8. ArePartsWithout(p, N, V, s, D)
  BY <1>5, <1>7, Zenon DEF ArePartsWithout
<1> QED BY <1>4, <1>8 DEF p

\* Nothing is taken out where nothing is in D.
LEMMA WithoutNone ==
  ASSUME NEW N \in Nat, NEW V, NEW s \in [1..N -> V], NEW D,
         \A i \in 1..N : s[i] \notin D
  PROVE  Without(s, D) = s
<1> DEFINE p == PartsWithout(s, D)
           S == {n \in 0..N : Len(p[n]) = n /\ \A i \in 1..n : p[n][i] = s[i]}
<1>1. ArePartsWithout(p, N, V, s, D) /\ Without(s, D) = p[N]
  BY PartsWithoutDef
<1> HIDE DEF p
<1>9. p \in [0..N -> Seq(V)] /\ p[0] = <<>>
  BY <1>1, Zenon DEF ArePartsWithout
<1>2. 0 \in S
  BY <1>9
<1>3. ASSUME NEW n \in 0..(N - 1), n \in S PROVE n + 1 \in S
  <2>0. n + 1 \in 1..N /\ (n + 1) - 1 = n /\ n \in 0..N /\ n + 1 \in 0..N
    OBVIOUS
  <2>1. p[n + 1] = Append(p[n], s[n + 1]) /\ p[n] \in Seq(V) /\ s[n + 1] \in V
    <3>1. p[n + 1] = Append(p[(n + 1) - 1], s[n + 1])
      BY <1>1, <2>0, Zenon DEF ArePartsWithout
    <3>2. p[n] \in Seq(V) /\ s[n + 1] \in V
      BY <1>9, <2>0
    <3> QED BY <2>0, <3>1, <3>2, Zenon
  <2>2. Len(p[n]) = n /\ \A i \in 1..n : p[n][i] = s[i]
    BY <1>3
  <2>3. Len(p[n + 1]) = n + 1 /\ p[n + 1][n + 1] = s[n + 1]
    BY <2>1, <2>2
  <2>4. \A i \in 1..n : p[n + 1][i] = s[i]
    BY <2>1, <2>2
  <2>5. \A i \in 1..(n + 1) : i \in 1..n \/ i = n + 1
    OBVIOUS
  <2>6. \A i \in 1..(n + 1) : p[n + 1][i] = s[i]
    BY <2>3, <2>4, <2>5
  <2> QED BY <2>3, <2>6
<1>4. \A n \in 0..N : n \in S
  <2> HIDE DEF S
  <2> QED BY <1>2, <1>3, SetInduction
<1>5. Len(p[N]) = N /\ \A i \in 1..N : p[N][i] = s[i]
  BY <1>4
<1>6. p[N] \in Seq(V)
  BY <1>9
<1>7. p[N] \in [1..N -> V]
  BY <1>5, <1>6
<1>8. p[N] = s
  BY <1>5, <1>7
<1> QED BY <1>1, <1>8

\* An element of D may be cut out before.
\* r is s without its element number j, which is in D.
IsDropped(r, N, s, M, V, j, D) ==
  /\ N \in Nat /\ M \in Nat /\ M = N + 1
  /\ s \in [1..M -> V] /\ r \in [1..N -> V]
  /\ j \in 1..M /\ IsCut(r, N, s, j) /\ s[j] \in D

LEMMA WithoutCut ==
  ASSUME NEW N, NEW M, NEW V, NEW s, NEW r, NEW D, NEW j, IsDropped(r, N, s, M, V, j, D)
  PROVE  Without(r, D) = Without(s, D)
<1> SUFFICES ASSUME N \in Nat, M \in Nat, M = N + 1, s \in [1..M -> V], r \in [1..N -> V],
                    j \in 1..M, IsCut(r, N, s, j), s[j] \in D
             PROVE  Without(r, D) = Without(s, D)
  BY DEF IsDropped
<1> DEFINE p == PartsWithout(s, D)
           q == PartsWithout(r, D)
           S == {n \in 0..N : q[n] = p[IF n < j THEN n ELSE n + 1]}
<1>10. ArePartsWithout(p, M, V, s, D) /\ Without(s, D) = p[M]
  BY PartsWithoutDef
<1>20. ArePartsWithout(q, N, V, r, D) /\ Without(r, D) = q[N]
  BY PartsWithoutDef
<1> HIDE DEF p, q
<1>1. /\ p[0] = <<>> /\ Without(s, D) = p[M]
      /\ \A n \in 1..M : p[n] = IF s[n] \in D THEN p[n - 1] ELSE Append(p[n - 1], s[n])
  BY <1>10, Zenon DEF ArePartsWithout
<1>2. /\ q[0] = <<>> /\ Without(r, D) = q[N]
      /\ \A n \in 1..N : q[n] = IF r[n] \in D THEN q[n - 1] ELSE Append(q[n - 1], r[n])
  BY <1>20, Zenon DEF ArePartsWithout
<1>3. p[j] = p[j - 1]
  BY <1>1
<1>4. 0 \in S
  BY <1>1, <1>2, <1>3
<1>5. ASSUME NEW n \in 0..(N - 1), n \in S PROVE n + 1 \in S
  <2> DEFINE m == n + 1
  <2>1. m \in 1..N /\ m \in 1..M /\ m - 1 = n /\ m + 1 \in 1..M /\ (m + 1) - 1 = m
    OBVIOUS
  <2>2. /\ q[m] = IF r[m] \in D THEN q[n] ELSE Append(q[n], r[m])
        /\ p[m] = IF s[m] \in D THEN p[n] ELSE Append(p[n], s[m])
        /\ p[m + 1] = IF s[m + 1] \in D THEN p[m] ELSE Append(p[m], s[m + 1])
    <3> HIDE DEF m
    <3> QED BY <1>1, <1>2, <2>1
  <2>3. CASE m < j
    <3>1. r[m] = s[m] /\ q[n] = p[n]
      BY <1>5, <2>1, <2>3 DEF IsCut
    <3>2. q[m] = p[m]
      BY <2>2, <3>1
    <3> QED BY <2>1, <2>3, <3>2
  <2>4. CASE m = j
    <3>1. r[m] = s[m + 1] /\ q[n] = p[n]
      BY <1>5, <2>1, <2>4 DEF IsCut
    <3>2. p[m] = p[n]
      BY <2>2, <2>4
    <3>3. q[m] = p[m + 1]
      BY <2>2, <3>1, <3>2
    <3> QED BY <2>1, <2>4, <3>3
  <2>5. CASE m > j
    <3>1. r[m] = s[m + 1] /\ q[n] = p[m]
      <4>1. m \in Int /\ j \in Int /\ ~(m < j) /\ ~(n < j)
        BY <2>1, <2>5
      <4>2. r[m] = s[m + 1]
        BY <2>1, <4>1 DEF IsCut
      <4> QED BY <1>5, <4>1, <4>2
    <3>2. q[m] = p[m + 1]
      BY <2>2, <3>1
    <3> QED BY <2>1, <2>5, <3>2
  <2> QED BY <2>1, <2>3, <2>4, <2>5
<1>6. \A n \in 0..N : n \in S
  <2> HIDE DEF S
  <2> QED BY <1>4, <1>5, SetInduction
<1>7. q[N] = p[IF N < j THEN N ELSE N + 1]
  BY <1>6
<1>8. q[N] = p[M]
  <2>1. CASE N < j
    <3>1. j = M /\ j - 1 = N
      BY <2>1
    <3> QED BY <1>3, <1>7, <3>1, <2>1
  <2>2. CASE ~(N < j)
    BY <1>7, <2>2
  <2> QED BY <2>1, <2>2
<1> QED BY <1>1, <1>2, <1>8
=============================================================================
