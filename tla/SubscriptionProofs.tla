------------------------- MODULE SubscriptionProofs -------------------------
(***************************************************************************)
(* What TLAPS proves of Subscription.                                      *)
(*                                                                         *)
(* The invariant is that the cache is a list of keys: for some sequence s  *)
(* of distinct keys the links are those of s, the map has its keys, and    *)
(* the counter is the sum of their bytes (Represents).  Each method takes  *)
(* a cache that is a list to a cache that is one: a node removed cuts s, a *)
(* node put at the head goes before it, the loop of cleanup leaves s       *)
(* without keys that have expired, the loop of evictIfNeeded leaves the    *)
(* longest stretch of it that fits.  The properties follow, and so does    *)
(* the refinement of LruCache, whose list is that s.                       *)
(*                                                                         *)
(* A loop is a function from turns to states: RecursionExists says that    *)
(* there is one, SetInduction what its last state is.                      *)
(***************************************************************************)
EXTENDS Subscription, ListsProofs, FiniteSetTheorems

-----------------------------------------------------------------------------
(* Lists of keys *)

\* s without its element number i, and s with k put before it.
Cut(s, i) == [j \in 1..(Len(s) - 1) |-> IF j < i THEN s[j] ELSE s[j + 1]]

LEMMA CutList ==
  ASSUME NEW s \in Seq(Key), IsInjective(s), NEW i \in 1..Len(s)
  PROVE  /\ Cut(s, i) \in Seq(Key) /\ Len(Cut(s, i)) = Len(s) - 1
         /\ IsInjective(Cut(s, i))
         /\ Range(Cut(s, i)) = Range(s) \ {s[i]}
         /\ IsCut(Cut(s, i), Len(s) - 1, s, i)
<1> DEFINE n == Len(s)
           m == n - 1
           r == Cut(s, i)
<1>1. n \in Nat \ {0} /\ s \in [1..n -> Key] /\ DOMAIN s = 1..n /\ i \in 1..n /\ m \in Nat
  OBVIOUS
<1>2. r = [j \in 1..m |-> IF j < i THEN s[j] ELSE s[j + 1]]
  BY DEF Cut
<1>3. \A j, k \in 1..n : s[j] = s[k] => j = k
  BY <1>1 DEF IsInjective
<1> HIDE DEF n, r
<1>4. \A j \in 1..m : /\ j \in 1..n /\ j + 1 \in 1..n
                      /\ r[j] = IF j < i THEN s[j] ELSE s[j + 1]
  BY <1>1, <1>2
<1>5. r \in [1..m -> Key]
  BY <1>1, <1>2, <1>4
<1>6. r \in Seq(Key) /\ Len(r) = m /\ DOMAIN r = 1..m
  BY <1>1, <1>5
<1>7. IsCut(r, m, s, i)
  BY <1>4 DEF IsCut
<1>8. IsInjective(r)
  <2> SUFFICES ASSUME NEW j \in 1..m, NEW k \in 1..m, r[j] = r[k] PROVE j = k
    BY <1>6 DEF IsInjective
  <2> DEFINE x == IF j < i THEN j ELSE j + 1
             y == IF k < i THEN k ELSE k + 1
  <2>1. x \in 1..n /\ y \in 1..n /\ s[x] = s[y]
    BY <1>4
  <2>2. x = y
    <3> HIDE DEF x, y
    <3> QED BY <1>3, <2>1
  <2> QED BY <2>2, <1>1
<1>9. Range(r) = Range(s) \ {s[i]}
  <2>1. ASSUME NEW j \in 1..m PROVE r[j] \in Range(s) \ {s[i]}
    <3> DEFINE x == IF j < i THEN j ELSE j + 1
    <3>1. x \in 1..n /\ x # i /\ r[j] = s[x]
      BY <1>1, <1>4
    <3> HIDE DEF x
    <3>2. s[x] # s[i]
      BY <1>1, <1>3, <3>1
    <3> QED BY <1>1, <3>1, <3>2 DEF Range
  <2>2. ASSUME NEW x \in 1..n, s[x] # s[i] PROVE s[x] \in Range(r)
    <3>1. CASE x < i
      <4>1. x \in 1..m
        BY <1>1, <3>1
      <4>2. r[x] = s[x]
        BY <1>4, <3>1, <4>1
      <4> QED BY <4>1, <4>2, <1>6 DEF Range
    <3>2. CASE x > i
      <4> DEFINE j == x - 1
      <4>1. j \in 1..m /\ ~(j < i) /\ j + 1 = x
        BY <1>1, <3>2
      <4> HIDE DEF j
      <4>2. r[j] = s[x]
        BY <1>4, <4>1
      <4> QED BY <4>1, <4>2, <1>6 DEF Range
    <3>3. x # i
      BY <2>2
    <3> QED BY <3>1, <3>2, <3>3, <1>1
  <2>3. Range(r) \subseteq Range(s) \ {s[i]}
    BY <2>1, <1>6 DEF Range
  <2>4. Range(s) \ {s[i]} \subseteq Range(r)
    BY <2>2, <1>1 DEF Range
  <2> QED BY <2>3, <2>4
<1> QED BY <1>6, <1>7, <1>8, <1>9 DEF n, r

LEMMA PrependList ==
  ASSUME NEW s \in Seq(Key), IsInjective(s), NEW k \in Key, k \notin Range(s)
  PROVE  /\ <<k>> \o s \in Seq(Key) /\ Len(<<k>> \o s) = Len(s) + 1
         /\ (<<k>> \o s)[1] = k /\ \A i \in 1..Len(s) : (<<k>> \o s)[i + 1] = s[i]
         /\ IsInjective(<<k>> \o s)
         /\ Range(<<k>> \o s) = Range(s) \cup {k}
<1> DEFINE n == Len(s)
           m == n + 1
           r == <<k>> \o s
<1>1. n \in Nat /\ s \in [1..n -> Key] /\ DOMAIN s = 1..n /\ m \in Nat
  OBVIOUS
<1>2. r \in Seq(Key) /\ Len(r) = m /\ r[1] = k /\ \A i \in 1..n : r[i + 1] = s[i]
  OBVIOUS
<1>3. DOMAIN r = 1..m
  BY <1>2
<1> HIDE DEF n, r
<1>4. \A j \in 1..m : j = 1 \/ (j - 1 \in 1..n /\ r[j] = s[j - 1])
  <2> TAKE j \in 1..m
  <2>1. CASE j # 1
    <3>1. j - 1 \in 1..n /\ (j - 1) + 1 = j
      BY <1>1, <2>1
    <3> QED BY <1>2, <3>1
  <2> QED BY <2>1
<1>5. \A i \in 1..n : s[i] # k
  BY <1>1 DEF Range
<1>6. \A i, j \in 1..n : s[i] = s[j] => i = j
  BY <1>1 DEF IsInjective
<1>7. IsInjective(r)
  <2> SUFFICES ASSUME NEW i \in 1..m, NEW j \in 1..m, r[i] = r[j] PROVE i = j
    BY <1>3 DEF IsInjective
  <2>1. CASE i = 1
    BY <2>1, <1>2, <1>4, <1>5
  <2>2. CASE j = 1
    BY <2>2, <1>2, <1>4, <1>5
  <2>3. CASE i # 1 /\ j # 1
    <3>1. i - 1 \in 1..n /\ j - 1 \in 1..n /\ s[i - 1] = s[j - 1]
      BY <2>3, <1>4
    <3>2. i - 1 = j - 1
      BY <3>1, <1>6
    <3> QED BY <3>2
  <2> QED BY <2>1, <2>2, <2>3
<1>8. Range(r) = Range(s) \cup {k}
  <2>1. \A j \in 1..m : r[j] \in Range(s) \cup {k}
    BY <1>1, <1>2, <1>4 DEF Range
  <2>2. 1 \in 1..m /\ \A i \in 1..n : i + 1 \in 1..m
    BY <1>1
  <2>3. k \in Range(r) /\ \A i \in 1..n : s[i] \in Range(r)
    BY <1>2, <1>3, <2>2 DEF Range
  <2>4. Range(r) \subseteq Range(s) \cup {k}
    BY <2>1, <1>3 DEF Range
  <2>5. Range(s) \cup {k} \subseteq Range(r)
    BY <2>3, <1>1 DEF Range
  <2> QED BY <2>4, <2>5
<1> QED BY <1>2, <1>7, <1>8 DEF n, r

LEMMA ListSize ==
  ASSUME NEW s \in Seq(Key), IsInjective(s)
  PROVE  IsFiniteSet(Range(s)) /\ Cardinality(Range(s)) = Len(s)
<1> DEFINE n == Len(s)
           S == Range(s)
           T == 1..n
<1>1. n \in Nat /\ s \in [T -> S] /\ DOMAIN s = T
  BY DEF Range
<1>2. s \in Bijection(T, S)
  <2>1. s \in Injection(T, S)
    BY <1>1 DEF IsInjective, Injection
  <2>2. s \in Surjection(T, S)
    BY <1>1 DEF Surjection, Range
  <2> QED BY <2>1, <2>2 DEF Bijection
<1>3. IsFiniteSet(T) /\ Cardinality(T) = n
  BY <1>1, FS_Interval
<1>4. IsFiniteSet(S) /\ Cardinality(S) = Cardinality(T)
  <2>1. ExistsBijection(T, S)
    BY <1>2 DEF ExistsBijection
  <2> HIDE DEF S, T
  <2> QED BY <2>1, <1>3, FS_Bijection
<1> QED BY <1>3, <1>4

-----------------------------------------------------------------------------
(* The body reader *)

\* The next capacity after c.
Grown(c, required) ==
  IF c < required /\ c < MaxResponseSize THEN Smaller(MaxResponseSize, 2 * c) ELSE c

LEMMA NextCapacityType ==
  ASSUME NEW capacity \in Nat \ {0}, NEW required \in Nat
  PROVE  NextCapacity(capacity, required) \in Nat \ {0}
<1> DEFINE N == MaxResponseSize
           V == Nat \ {0}
           IsAfter(g) == g = [n \in 0..N |-> IF n = 0 THEN capacity ELSE Grown(g[n - 1], required)]
           step == [n \in 1..N |-> [c \in V |-> Grown(c, required)]]
           after == CHOOSE g : IsAfter(g)
           S == {n \in 0..N : after[n] \in V}
<1>1. N \in Nat
  BY ReaderAssumption
<1>2. \A c \in V : Grown(c, required) \in V
  BY ReaderAssumption DEF Grown, Smaller
<1>3. \E g : IsAfter(g)
  <2>1. step \in [1..N -> [V -> V]] /\ capacity \in V
    BY <1>2
  <2>2. PICK g \in [0..N -> V] : IsRun(g, N, capacity, step)
    <3> HIDE DEF N, V, step
    <3> QED BY <1>1, <2>1, RecursionExists
  <2>3. \A n \in 0..N : g[n] = IF n = 0 THEN capacity ELSE Grown(g[n - 1], required)
    <3> TAKE n \in 0..N
    <3>1. CASE n # 0
      <4>1. n \in 1..N /\ n - 1 \in 0..N
        BY <3>1, <1>1
      <4>2. g[n] = step[n][g[n - 1]] /\ g[n - 1] \in V
        <5> HIDE DEF step, V, N
        <5> QED BY <4>1, <2>2 DEF IsRun
      <4> HIDE DEF V, N
      <4>3. g[n] = Grown(g[n - 1], required)
        BY <4>1, <4>2
      <4> QED BY <3>1, <4>3
    <3> QED BY <3>1, <2>2 DEF IsRun
  <2>4. g \in [0..N -> V]
    OBVIOUS
  <2> HIDE DEF N, V
  <2>5. g = [n \in 0..N |-> IF n = 0 THEN capacity ELSE Grown(g[n - 1], required)]
    BY <2>3, <2>4
  <2> QED BY <2>5
<1>4. NextCapacity(capacity, required) = after[N]
  BY DEF NextCapacity, Grown
<1>5. IsAfter(after)
  <2> HIDE DEF IsAfter
  <2> QED BY <1>3
<1> HIDE DEF after
<1>6. \A n \in 0..N : n \in S
  <2>1. 0 \in S
    BY <1>1, <1>5
  <2>2. ASSUME NEW n \in 0..(N - 1), n \in S PROVE n + 1 \in S
    <3>1. n + 1 \in 0..N /\ n + 1 # 0 /\ (n + 1) - 1 = n
      BY <1>1
    <3>2. after[n + 1] = Grown(after[n], required)
      BY <1>5, <3>1
    <3> QED BY <1>2, <2>2, <3>1, <3>2
  <2> HIDE DEF S, N
  <2> QED BY <1>1, <2>1, <2>2, SetInduction
<1>7. N \in 0..N
  BY <1>1
<1> QED BY <1>4, <1>6, <1>7

\* What has been read: a buffer with room for it.
Reading ==
  {v \in [buffer : Seq(Nat), totalLength : Nat, exceeded : BOOLEAN] :
     v.totalLength <= Len(v.buffer) /\ Len(v.buffer) >= 1}

\* The bytes read so far are b.
HasRead(v, b) ==
  \/ v.exceeded
  \/ /\ v.totalLength = Len(b) /\ Len(b) <= MaxResponseSize
     /\ \A i \in 1..Len(b) : v.buffer[i] = b[i]

LEMMA NewBufferType ==
  ASSUME NEW n \in Nat
  PROVE  NewBuffer(n) \in [1..n -> Nat] /\ NewBuffer(n) \in Seq(Nat) /\ Len(NewBuffer(n)) = n
<1>1. NewBuffer(n) \in [1..n -> Nat]
  BY DEF NewBuffer, Blank
<1> QED BY <1>1

LEMMA WriteBuffer ==
  ASSUME NEW b \in Seq(Nat), NEW bytes \in Seq(Nat), NEW offset \in Nat
  PROVE  /\ Write(b, bytes, offset) \in Seq(Nat) /\ Len(Write(b, bytes, offset)) = Len(b)
         /\ \A i \in 1..Len(b) : Write(b, bytes, offset)[i] =
              IF i - offset \in 1..Len(bytes) THEN bytes[i - offset] ELSE b[i]
<1> DEFINE n == Len(b)
           w == Write(b, bytes, offset)
<1>1. n \in Nat /\ b \in [1..n -> Nat] /\ DOMAIN b = 1..n /\ DOMAIN bytes = 1..Len(bytes)
  OBVIOUS
<1>2. w = [i \in 1..n |-> IF i - offset \in 1..Len(bytes) THEN bytes[i - offset] ELSE b[i]]
  BY <1>1 DEF Write
<1>3. \A i \in 1..n : (IF i - offset \in 1..Len(bytes) THEN bytes[i - offset] ELSE b[i]) \in Nat
  BY <1>1
<1> HIDE DEF n, w
<1>4. w \in [1..n -> Nat]
  BY <1>2, <1>3
<1> QED BY <1>1, <1>2, <1>4 DEF n, w

\* A chunk that is read adds its bytes, or exceeds the limit.
LEMMA ChunkIsRead ==
  ASSUME NEW v \in Reading, NEW chunk \in Seq(Nat)
  PROVE  /\ ReadChunk(v, chunk) \in Reading
         /\ \A b \in Seq(Nat) : HasRead(v, b) => HasRead(ReadChunk(v, chunk), b \o chunk)
<1> DEFINE held  == v.totalLength
           total == held + Len(chunk)
           old   == v.buffer
           cap   == NextCapacity(Len(old), total)
           room  == WithRoomFor(old, total, held)
           new   == ReadChunk(v, chunk)
<1>1. /\ held \in Nat /\ total \in Nat /\ old \in Seq(Nat) /\ held <= Len(old)
      /\ Len(old) \in Nat \ {0} /\ Len(chunk) \in Nat /\ v.exceeded \in BOOLEAN
  BY DEF Reading
<1>2. cap \in Nat \ {0}
  BY <1>1, NextCapacityType
<1>3. /\ room \in Seq(Nat) /\ Len(room) >= 1
      /\ held <= Len(room) => \A i \in 1..held : room[i] = old[i]
  <2>1. CASE total <= Len(old)
    BY <2>1, <1>1 DEF WithRoomFor
  <2>2. CASE ~(total <= Len(old))
    <3> DEFINE kept == SubSeq(old, 1, held)
               blank == NewBuffer(cap)
    <3>1. room = Write(blank, kept, 0)
      BY <2>2 DEF WithRoomFor
    <3>2. kept \in Seq(Nat) /\ Len(kept) = held /\ \A i \in 1..held : kept[i] = old[i]
      BY <1>1
    <3>3. blank \in Seq(Nat) /\ Len(blank) = cap
      BY <1>2, NewBufferType
    <3> HIDE DEF kept, blank, room, cap, held, old
    <3>4. /\ room \in Seq(Nat) /\ Len(room) = cap
          /\ \A i \in 1..cap : room[i] = IF i - 0 \in 1..held THEN kept[i - 0] ELSE blank[i]
      BY <3>1, <3>2, <3>3, WriteBuffer
    <3> QED BY <1>1, <1>2, <3>2, <3>4
  <2> QED BY <2>1, <2>2
<1>4. CASE v.exceeded \/ total > MaxResponseSize \/ Len(room) < total
  <2>1. new = [v EXCEPT !.exceeded = TRUE]
    BY <1>4 DEF ReadChunk
  <2>2. new \in Reading /\ new.exceeded
    BY <2>1 DEF Reading
  <2> QED BY <2>2 DEF HasRead
<1>5. CASE ~(v.exceeded \/ total > MaxResponseSize \/ Len(room) < total)
  <2> DEFINE written == Write(room, chunk, held)
  <2>1. new = [v EXCEPT !.totalLength = total, !.buffer = written]
    BY <1>5 DEF ReadChunk
  <2>2. /\ written \in Seq(Nat) /\ Len(written) = Len(room)
        /\ \A i \in 1..Len(room) : written[i] = IF i - held \in 1..Len(chunk)
                                                THEN chunk[i - held] ELSE room[i]
    <3> HIDE DEF room, held
    <3> QED BY <1>1, <1>3, WriteBuffer
  <2> HIDE DEF written, room, total
  <2>3. total \in Nat /\ total <= Len(written) /\ Len(written) >= 1 /\ total <= MaxResponseSize
    BY <1>1, <1>3, <1>5, <2>2, ReaderAssumption
  <2>4. new \in Reading /\ new.totalLength = total /\ new.buffer = written
    BY <2>1, <2>2, <2>3 DEF Reading
  <2>5. ASSUME NEW b \in Seq(Nat), HasRead(v, b) PROVE HasRead(new, b \o chunk)
    <3>1. /\ held = Len(b) /\ \A i \in 1..held : old[i] = b[i]
      BY <2>5, <1>5 DEF HasRead
    <3> DEFINE c == b \o chunk
    <3>2. /\ Len(c) = total
          /\ \A i \in 1..total : c[i] = IF i <= held THEN b[i] ELSE chunk[i - held]
      BY <3>1, <1>1 DEF total
    <3> HIDE DEF c, held, old
    <3>3. \A i \in 1..total : written[i] = c[i]
      <4> TAKE i \in 1..total
      <4>0. i \in 1..Len(room) /\ held <= Len(room)
        BY <1>1, <1>3, <1>5, <2>2, <2>3 DEF total
      <4>1. CASE i <= held
        <5>1. i \in 1..held /\ ~(i - held \in 1..Len(chunk))
          BY <4>1, <1>1
        <5>2. written[i] = old[i]
          BY <4>0, <5>1, <1>3, <2>2
        <5> QED BY <4>1, <5>1, <5>2, <3>1, <3>2
      <4>2. CASE ~(i <= held)
        <5>1. i - held \in 1..Len(chunk)
          BY <4>2, <1>1 DEF total
        <5> QED BY <4>0, <4>2, <5>1, <2>2, <3>2
      <4> QED BY <4>1, <4>2
    <3> QED BY <2>3, <2>4, <3>2, <3>3 DEF HasRead, c
  <2> QED BY <2>4, <2>5
<1> QED BY <1>4, <1>5

IsFlattened(g, chunks) ==
  g = [i \in 1..Len(chunks) |-> IF i = 1 THEN chunks[i] ELSE g[i - 1] \o chunks[i]]

\* joined[n] is what the first n chunks make.
AreJoined(joined, N, chunks) ==
  /\ joined \in [0..N -> Seq(Nat)]
  /\ joined[0] = <<>>
  /\ \A n \in 1..N : joined[n] = joined[n - 1] \o chunks[n]

LEMMA EmptyJoin == \A c \in Seq(Nat) : <<>> \o c = c
OBVIOUS

LEMMA JoinedExist ==
  ASSUME NEW N \in Nat, NEW chunks \in [1..N -> Seq(Nat)]
  PROVE  \E joined : AreJoined(joined, N, chunks)
<1> DEFINE V == Seq(Nat)
           none == <<>>
           turn(n) == [v \in V |-> v \o chunks[n]]
           step == [n \in 1..N |-> turn(n)]
<1>1. step \in [1..N -> [V -> V]] /\ none \in V
  OBVIOUS
<1>2. \A n \in 1..N : \A v \in V : step[n][v] = v \o chunks[n]
  OBVIOUS
<1> HIDE DEF V, none, step
<1>3. PICK g \in [0..N -> V] : IsRun(g, N, none, step)
  BY <1>1, RecursionExists
<1>4. \A n \in 1..N : g[n] = g[n - 1] \o chunks[n]
  <2> TAKE n \in 1..N
  <2>1. g[n - 1] \in V /\ g[n] = step[n][g[n - 1]]
    BY <1>3 DEF IsRun
  <2> QED BY <2>1, <1>2, Zenon
<1>5. g[0] = <<>> /\ g \in [0..N -> Seq(Nat)]
  BY <1>3 DEF IsRun, V, none
<1> QED BY <1>4, <1>5, Zenon DEF AreJoined

LEMMA FlattenIsJoined ==
  ASSUME NEW N \in Nat, NEW chunks \in [1..N -> Seq(Nat)],
         NEW joined, AreJoined(joined, N, chunks)
  PROVE  FlattenSeq(chunks) = joined[N]
<1> DEFINE flat == CHOOSE g : IsFlattened(g, chunks)
           S == {n \in 0..N : n = 0 \/ flat[n] = joined[n]}
<1>1. Len(chunks) = N /\ DOMAIN chunks = 1..N
  OBVIOUS
<1>2. /\ joined \in [0..N -> Seq(Nat)] /\ joined[0] = <<>>
      /\ \A n \in 1..N : joined[n] = joined[n - 1] \o chunks[n]
  BY Zenon DEF AreJoined
<1>3. CASE N = 0
  <2>1. chunks = <<>>
    BY <1>3, <1>1
  <2> QED BY <2>1, <1>1, <1>2, <1>3 DEF FlattenSeq
<1>4. CASE N # 0
  <2>1. FlattenSeq(chunks) = flat[N]
    BY <1>1, <1>4 DEF FlattenSeq, IsFlattened
  <2>2. \E g : IsFlattened(g, chunks)
    <3> DEFINE g == [i \in 1..N |-> joined[i]]
    <3>1. \A i \in 1..N : g[i] = IF i = 1 THEN chunks[i] ELSE g[i - 1] \o chunks[i]
      <4> TAKE i \in 1..N
      <4>1. g[i] = joined[i - 1] \o chunks[i]
        BY <1>2
      <4>2. CASE i = 1
        <5>1. joined[i - 1] = <<>> /\ chunks[i] \in Seq(Nat)
          BY <4>2, <1>2
        <5> QED BY <4>1, <4>2, <5>1, EmptyJoin
      <4>3. CASE i # 1
        <5>1. i - 1 \in 1..N
          BY <4>3
        <5>2. g[i - 1] = joined[i - 1]
          BY <5>1
        <5> QED BY <4>1, <4>3, <5>2, Zenon
      <4> QED BY <4>2, <4>3
    <3>2. g = [i \in 1..N |-> IF i = 1 THEN chunks[i] ELSE g[i - 1] \o chunks[i]]
      BY <3>1
    <3> HIDE DEF g
    <3> QED BY <3>2, <1>1 DEF IsFlattened
  <2>3. IsFlattened(flat, chunks)
    BY <2>2
  <2> HIDE DEF flat
  <2>4. \A i \in 1..N : flat[i] = IF i = 1 THEN chunks[i] ELSE flat[i - 1] \o chunks[i]
    BY <2>3, <1>1 DEF IsFlattened
  <2>5. 0 \in S
    OBVIOUS
  <2>6. ASSUME NEW n \in 0..(N - 1), n \in S PROVE n + 1 \in S
    <3>1. n + 1 \in 1..N /\ n + 1 \in 0..N /\ (n + 1) - 1 = n
      OBVIOUS
    <3>2. joined[n + 1] = joined[n] \o chunks[n + 1]
      BY <3>1, <1>2
    <3>3. CASE n = 0
      <4>1. joined[n] = <<>> /\ chunks[n + 1] \in Seq(Nat)
        BY <3>1, <3>3, <1>2
      <4>2. joined[n + 1] = chunks[n + 1]
        BY <4>1, <3>2, EmptyJoin
      <4>3. flat[n + 1] = chunks[n + 1]
        BY <2>4, <3>1, <3>3
      <4> QED BY <4>2, <4>3, <3>1
    <3>4. CASE n # 0
      <4>1. n + 1 # 1 /\ flat[n] = joined[n]
        BY <2>6, <3>4
      <4>2. flat[n + 1] = flat[n] \o chunks[n + 1]
        BY <4>1, <2>4, <3>1
      <4> QED BY <4>1, <4>2, <3>1, <3>2
    <3> QED BY <3>3, <3>4
  <2>7. \A n \in 0..N : n \in S
    <3> HIDE DEF S
    <3> QED BY <2>5, <2>6, SetInduction
  <2> QED BY <2>1, <2>7, <1>4
<1> QED BY <1>3, <1>4

LEMMA StartIsReading ==
  ASSUME NEW body \in Bodies
  PROVE  /\ body.declared # 0 => StartOf(body) \in Reading
         /\ StartOf(body).totalLength = 0
         /\ StartOf(body).buffer \in Seq(Nat)
         /\ StartOf(body).exceeded \in BOOLEAN
         /\ HasRead(StartOf(body), <<>>)
<1> DEFINE cap == FirstCapacity(body.declared)
<1>1. cap \in Nat /\ (body.declared # 0 => cap >= 1)
  BY ReaderAssumption, SubscriptionAssumption DEF FirstCapacity, Smaller, NoLength
<1> HIDE DEF cap
<1>2. NewBuffer(cap) \in Seq(Nat) /\ Len(NewBuffer(cap)) = cap
  BY <1>1, NewBufferType
<1>3. (body.declared > MaxResponseSize) \in BOOLEAN
  OBVIOUS
<1>4. /\ StartOf(body).totalLength = 0 /\ StartOf(body).buffer = NewBuffer(cap)
      /\ StartOf(body).exceeded = (body.declared > MaxResponseSize)
      /\ StartOf(body) = [buffer |-> NewBuffer(cap), totalLength |-> 0,
                          exceeded |-> body.declared > MaxResponseSize]
  BY DEF StartOf, cap
<1>5. HasRead(StartOf(body), <<>>)
  BY <1>4, ReaderAssumption DEF HasRead
<1>6. ASSUME body.declared # 0 PROVE StartOf(body) \in Reading
  BY <1>1, <1>2, <1>3, <1>4, <1>6 DEF Reading
<1> QED BY <1>2, <1>3, <1>4, <1>5, <1>6

LEMMA PrefixIs ==
  ASSUME NEW a \in Seq(Nat), NEW b \in Seq(Nat), Len(b) <= Len(a),
         \A i \in 1..Len(b) : a[i] = b[i]
  PROVE  SubSeq(a, 1, Len(b)) = b
<1> DEFINE n == Len(b)
           p == SubSeq(a, 1, n)
<1>1. n \in Nat /\ b \in [1..n -> Nat]
  OBVIOUS
<1>2. p \in [1..n -> Nat] /\ \A i \in 1..n : p[i] = a[i]
  <2>1. n \in Nat /\ n <= Len(a)
    BY <1>1
  <2> HIDE DEF n
  <2>2. p \in Seq(Nat) /\ Len(p) = n
    BY <2>1
  <2>3. \A i \in 1..n : p[i] = a[i]
    BY <2>1
  <2> HIDE DEF p
  <2> QED BY <2>2, <2>3
<1>3. \A i \in 1..n : p[i] = b[i]
  BY <1>2
<1> HIDE DEF n, p
<1>4. p = b
  BY <1>1, <1>2, <1>3
<1> QED BY <1>4 DEF n, p

\* A body that is read is whole, whatever its chunks and its declared length.
LEMMA BodyIsWhole ==
  ASSUME NEW body \in Bodies, IsRead(body)
  PROVE  /\ Text(body) \in Seq(Nat) /\ Len(Text(body)) <= MaxResponseSize
         /\ Text(body) = FlattenSeq(body.chunks)
<1> DEFINE chunks == body.chunks
           N == Len(chunks)
           start == StartOf(body)
           IsAfter(g) == g = [n \in 0..N |-> IF n = 0 THEN start ELSE ReadChunk(g[n - 1], chunks[n])]
           after == CHOOSE g : IsAfter(g)
<1>1. /\ body.declared \in Nat \cup {NoLength}
      /\ chunks \in Seq(Seq(Nat)) /\ (body.declared = 0 => chunks = <<>>)
      /\ N \in Nat /\ chunks \in [1..N -> Seq(Nat)]
  BY SubscriptionAssumption
<1>2. CASE body.declared = 0
  <2>1. ReadBody(body) = start
    BY <1>2 DEF ReadBody
  <2>2. Text(body) = SubSeq(start.buffer, 1, 0)
    BY <2>1, StartIsReading DEF Text
  <2>3. Text(body) = <<>>
    BY <2>2, StartIsReading
  <2>4. FlattenSeq(chunks) = <<>>
    BY <1>1, <1>2 DEF FlattenSeq
  <2> QED BY <2>3, <2>4, ReaderAssumption
<1>3. CASE body.declared # 0
  <2>1. ReadBody(body) = after[N]
    BY <1>3 DEF ReadBody
  <2>2. start \in Reading /\ HasRead(start, <<>>)
    BY <1>3, StartIsReading
  <2>3. PICK joined : AreJoined(joined, N, chunks)
    BY <1>1, JoinedExist
  <2>4. \E g : IsAfter(g)
    <3> DEFINE turn(n) == [v \in Reading |-> ReadChunk(v, chunks[n])]
               step == [n \in 1..N |-> turn(n)]
    <3>1. \A n \in 1..N : \A v \in Reading : ReadChunk(v, chunks[n]) \in Reading
      BY <1>1, ChunkIsRead
    <3>2. step \in [1..N -> [Reading -> Reading]]
      BY <3>1
    <3>3. \A n \in 1..N : \A v \in Reading : step[n][v] = ReadChunk(v, chunks[n])
      OBVIOUS
    <3> HIDE DEF start, step, chunks, N
    <3>4. PICK g \in [0..N -> Reading] : IsRun(g, N, start, step)
      BY <1>1, <2>2, <3>2, RecursionExists
    <3>5. \A n \in 0..N : g[n] = IF n = 0 THEN start ELSE ReadChunk(g[n - 1], chunks[n])
      <4> TAKE n \in 0..N
      <4>1. CASE n = 0
        BY <4>1, <3>4 DEF IsRun
      <4>2. CASE n # 0
        <5>1. n \in 1..N /\ n - 1 \in 0..N
          BY <4>2, <1>1
        <5>2. g[n] = step[n][g[n - 1]] /\ g[n - 1] \in Reading
          BY <5>1, <3>4 DEF IsRun
        <5> QED BY <4>2, <5>1, <5>2, <3>3
      <4> QED BY <4>1, <4>2
    <3>6. g = [n \in 0..N |-> IF n = 0 THEN start ELSE ReadChunk(g[n - 1], chunks[n])]
      BY <3>5
    <3> QED BY <3>6
  <2>5. IsAfter(after)
    <3> HIDE DEF IsAfter
    <3> QED BY <2>4
  <2> HIDE DEF after, start, chunks, N
  <2> DEFINE S == {n \in 0..N : after[n] \in Reading /\ HasRead(after[n], joined[n])}
  <2>6. 0 \in S
    <3>1. after[0] = start /\ joined[0] = <<>> /\ 0 \in 0..N
      BY <1>1, <2>3, <2>5 DEF AreJoined
    <3> QED BY <3>1, <2>2
  <2>7. ASSUME NEW n \in 0..(N - 1), n \in S PROVE n + 1 \in S
    <3>1. n + 1 \in 0..N /\ n + 1 \in 1..N /\ n + 1 # 0 /\ (n + 1) - 1 = n /\ n \in 0..N
      BY <1>1
    <3>2. after[n + 1] = ReadChunk(after[n], chunks[n + 1])
      BY <2>5, <3>1
    <3>3. joined[n + 1] = joined[n] \o chunks[n + 1] /\ joined[n] \in Seq(Nat)
      BY <2>3, <3>1 DEF AreJoined
    <3>4. chunks[n + 1] \in Seq(Nat) /\ after[n] \in Reading /\ HasRead(after[n], joined[n])
      BY <2>7, <3>1, <1>1
    <3>5. ReadChunk(after[n], chunks[n + 1]) \in Reading
      BY <3>4, ChunkIsRead
    <3>6. HasRead(ReadChunk(after[n], chunks[n + 1]), joined[n] \o chunks[n + 1])
      BY <3>3, <3>4, ChunkIsRead
    <3> QED BY <3>1, <3>2, <3>3, <3>5, <3>6
  <2>8. \A n \in 0..N : n \in S
    <3> HIDE DEF S
    <3> QED BY <1>1, <2>6, <2>7, SetInduction
  <2>9. N \in 0..N
    BY <1>1
  <2> DEFINE v == after[N]
             b == joined[N]
  <2>10. v \in Reading /\ HasRead(v, b) /\ ~v.exceeded /\ b \in Seq(Nat)
    <3>1. ~v.exceeded
      BY <2>1 DEF IsRead
    <3> QED BY <3>1, <2>3, <2>8, <2>9 DEF AreJoined
  <2>11. Text(body) = SubSeq(v.buffer, 1, v.totalLength)
    BY <2>1 DEF Text
  <2> HIDE DEF v, b
  <2>12. /\ v.totalLength = Len(b) /\ Len(b) <= MaxResponseSize
         /\ \A i \in 1..Len(b) : v.buffer[i] = b[i]
         /\ v.buffer \in Seq(Nat) /\ v.totalLength <= Len(v.buffer)
    BY <2>10 DEF HasRead, Reading
  <2>13. SubSeq(v.buffer, 1, Len(b)) = b
    <3> DEFINE a == v.buffer
    <3>1. /\ a \in Seq(Nat) /\ b \in Seq(Nat) /\ Len(b) <= Len(a)
          /\ \A i \in 1..Len(b) : a[i] = b[i]
      BY <2>10, <2>12
    <3> HIDE DEF a
    <3>2. SubSeq(a, 1, Len(b)) = b
      BY <3>1, PrefixIs
    <3> QED BY <3>2 DEF a
  <2>14. FlattenSeq(chunks) = b
    BY <1>1, <2>3, FlattenIsJoined DEF b
  <2> QED BY <2>10, <2>11, <2>12, <2>13, <2>14 DEF chunks
<1> QED BY <1>2, <1>3

LEMMA SizesType == Sizes \subseteq Nat
<1> SUFFICES ASSUME NEW body \in Bodies, IsRead(body), NEW more \in Growth
             PROVE  Len(Text(body)) + more \in Nat
  BY DEF Sizes, Texts
<1> QED BY BodyIsWhole, SubscriptionAssumption

-----------------------------------------------------------------------------
(* Nodes and links *)

Node  == Key \cup {Null}
Entry == [expiresAt : Nat, response : Response, sizeBytes : Sizes]
Nodes == UNION {[D -> Entry] : D \in SUBSET Key}

CacheType ==
  [nodesByKey : Nodes, head : Node, tail : Node, prev : [Key -> Node], next : [Key -> Node],
   totalBytes : Nat, nextCleanupAt : Nat]

\* Element number i of s, and the null at both ends.
At(s, i) == IF i \in 1..Len(s) THEN s[i] ELSE Null

\* The links of c are those of the list s.
IsList(s, c) ==
  /\ c.head = At(s, 1)
  /\ c.tail = At(s, Len(s))
  /\ \A i \in 1..Len(s) : c.next[s[i]] = At(s, i + 1) /\ c.prev[s[i]] = At(s, i - 1)

SameNodes(c, d) ==
  /\ d.nodesByKey = c.nodesByKey
  /\ d.totalBytes = c.totalBytes
  /\ d.nextCleanupAt = c.nextCleanupAt

LEMMA DetachFields ==
  ASSUME NEW c \in CacheType, NEW k \in Key
  PROVE  /\ Detach(c, k) \in CacheType
         /\ SameNodes(c, Detach(c, k))
         /\ Detach(c, k).head = IF c.prev[k] = Null THEN c.next[k] ELSE c.head
         /\ Detach(c, k).tail = IF c.next[k] = Null THEN c.prev[k] ELSE c.tail
         /\ \A j \in Key :
              /\ Detach(c, k).next[j] = IF j = k THEN Null
                                        ELSE IF j = c.prev[k] THEN c.next[k] ELSE c.next[j]
              /\ Detach(c, k).prev[j] = IF j = k THEN Null
                                        ELSE IF j = c.next[k] THEN c.prev[k] ELSE c.prev[j]
<1>1. /\ c.prev \in [Key -> Node] /\ c.next \in [Key -> Node] /\ c.head \in Node
      /\ c.tail \in Node /\ Null \in Node
  BY DEF CacheType, Node
<1> DEFINE p == c.prev[k]
           n == c.next[k]
           nx == [j \in Key |-> IF j = k THEN Null ELSE IF j = p THEN n ELSE c.next[j]]
           pv == [j \in Key |-> IF j = k THEN Null ELSE IF j = n THEN p ELSE c.prev[j]]
           d == [c EXCEPT !.head = IF p = Null THEN n ELSE @,
                          !.tail = IF n = Null THEN p ELSE @,
                          !.next = nx, !.prev = pv]
<1>2. Detach(c, k) = d
  BY DEF Detach
<1>3. p \in Node /\ n \in Node
  BY <1>1
<1>4. nx \in [Key -> Node] /\ pv \in [Key -> Node]
  BY <1>1, <1>3
<1>5. \A j \in Key : /\ nx[j] = IF j = k THEN Null ELSE IF j = p THEN n ELSE c.next[j]
                     /\ pv[j] = IF j = k THEN Null ELSE IF j = n THEN p ELSE c.prev[j]
  OBVIOUS
<1> HIDE DEF nx, pv
<1>6. /\ d \in CacheType /\ SameNodes(c, d)
      /\ d.head = IF p = Null THEN n ELSE c.head
      /\ d.tail = IF n = Null THEN p ELSE c.tail
      /\ d.next = nx /\ d.prev = pv
  <2> HIDE DEF p, n
  <2> QED BY <1>1, <1>3, <1>4 DEF CacheType, SameNodes
<1> QED BY <1>2, <1>5, <1>6

LEMMA DetachList ==
  ASSUME NEW c \in CacheType, NEW s \in Seq(Key), IsInjective(s), IsList(s, c),
         NEW i \in 1..Len(s)
  PROVE  IsList(Cut(s, i), Detach(c, s[i]))
<1> DEFINE n == Len(s)
           m == n - 1
           k == s[i]
           r == Cut(s, i)
           d == Detach(c, k)
<1>1. /\ n \in Nat \ {0} /\ s \in [1..n -> Key] /\ i \in 1..n /\ k \in Key /\ m \in Nat
      /\ DOMAIN s = 1..n /\ Null \notin Key
  BY CacheAssumption
<1>2. \A x, y \in 1..n : s[x] = s[y] => x = y
  BY <1>1 DEF IsInjective
<1>3. /\ r \in [1..m -> Key] /\ Len(r) = m
      /\ \A j \in 1..m : r[j] = IF j < i THEN s[j] ELSE s[j + 1]
  BY CutList DEF IsCut
<1>4. /\ c.head = At(s, 1) /\ c.tail = At(s, n)
      /\ \A x \in 1..n : c.next[s[x]] = At(s, x + 1) /\ c.prev[s[x]] = At(s, x - 1)
  BY DEF IsList
<1>5. /\ d.head = IF c.prev[k] = Null THEN c.next[k] ELSE c.head
      /\ d.tail = IF c.next[k] = Null THEN c.prev[k] ELSE c.tail
      /\ \A j \in Key : /\ d.next[j] = IF j = k THEN Null
                                       ELSE IF j = c.prev[k] THEN c.next[k] ELSE c.next[j]
                        /\ d.prev[j] = IF j = k THEN Null
                                       ELSE IF j = c.next[k] THEN c.prev[k] ELSE c.prev[j]
  BY <1>1, DetachFields
<1>6. \A x \in Int : At(s, x) = IF x \in 1..n THEN s[x] ELSE Null
  BY DEF At
<1>7. \A x \in Int : At(r, x) = IF x \in 1..m THEN r[x] ELSE Null
  BY <1>3 DEF At
<1> HIDE DEF n, r, d, k
<1>8. k = s[i] /\ c.prev[k] = At(s, i - 1) /\ c.next[k] = At(s, i + 1)
  BY <1>1, <1>4 DEF k
<1>9. d.head = At(r, 1)
  <2>1. CASE i = 1
    <3>1. c.prev[k] = Null /\ d.head = At(s, 2)
      BY <2>1, <1>1, <1>5, <1>6, <1>8
    <3>2. At(r, 1) = At(s, 2)
      BY <2>1, <1>1, <1>3, <1>6, <1>7
    <3> QED BY <3>1, <3>2
  <2>2. CASE i # 1
    <3>1. i - 1 \in 1..n /\ 1 \in 1..n /\ 1 \in 1..m /\ 1 < i
      BY <2>2, <1>1
    <3>2. c.prev[k] # Null /\ d.head = s[1]
      BY <3>1, <1>1, <1>4, <1>5, <1>6, <1>8
    <3>3. At(r, 1) = s[1]
      BY <3>1, <1>3, <1>7
    <3> QED BY <3>2, <3>3
  <2> QED BY <2>1, <2>2
<1>10. d.tail = At(r, m)
  <2>1. CASE i = n
    <3>1. c.next[k] = Null /\ d.tail = At(s, m)
      BY <2>1, <1>1, <1>5, <1>6, <1>8
    <3>2. At(r, m) = At(s, m)
      BY <2>1, <1>1, <1>3, <1>6, <1>7
    <3> QED BY <3>1, <3>2
  <2>2. CASE i # n
    <3>1. i + 1 \in 1..n /\ n \in 1..n /\ m \in 1..m /\ ~(m < i) /\ m + 1 = n
      BY <2>2, <1>1
    <3>2. c.next[k] # Null /\ d.tail = s[n]
      BY <3>1, <1>1, <1>4, <1>5, <1>6, <1>8
    <3>3. At(r, m) = s[n]
      BY <3>1, <1>3, <1>7
    <3> QED BY <3>2, <3>3
  <2> QED BY <2>1, <2>2
<1>11. ASSUME NEW j \in 1..m
       PROVE  d.next[r[j]] = At(r, j + 1) /\ d.prev[r[j]] = At(r, j - 1)
  <2> DEFINE x == IF j < i THEN j ELSE j + 1
  <2>1. x \in 1..n /\ x # i /\ r[j] = s[x] /\ s[x] \in Key
    BY <1>1, <1>3
  <2>2. s[x] # k
    BY <2>1, <1>1, <1>2, <1>8
  <2>3. c.next[s[x]] = At(s, x + 1) /\ c.prev[s[x]] = At(s, x - 1)
    BY <2>1, <1>4
  <2>4. /\ d.next[r[j]] = IF s[x] = At(s, i - 1) THEN At(s, i + 1) ELSE At(s, x + 1)
        /\ d.prev[r[j]] = IF s[x] = At(s, i + 1) THEN At(s, i - 1) ELSE At(s, x - 1)
    BY <2>1, <2>2, <2>3, <1>5, <1>8
  <2>5. s[x] = At(s, i - 1) <=> x = i - 1
    <3>1. CASE i - 1 \in 1..n
      BY <3>1, <2>1, <1>2, <1>6
    <3>2. CASE i - 1 \notin 1..n
      <4>1. i - 1 \in Int
        BY <1>1
      <4>2. At(s, i - 1) = Null
        BY <4>1, <3>2, <1>6
      <4> QED BY <4>2, <3>2, <2>1, <1>1
    <3> QED BY <3>1, <3>2
  <2>6. s[x] = At(s, i + 1) <=> x = i + 1
    <3>1. CASE i + 1 \in 1..n
      BY <3>1, <2>1, <1>2, <1>6
    <3>2. CASE i + 1 \notin 1..n
      <4>1. i + 1 \in Int
        BY <1>1
      <4>2. At(s, i + 1) = Null
        BY <4>1, <3>2, <1>6
      <4> QED BY <4>2, <3>2, <2>1, <1>1
    <3> QED BY <3>1, <3>2
  <2>7. At(r, j + 1) = IF x = i - 1 THEN At(s, i + 1) ELSE At(s, x + 1)
    <3>1. At(r, j + 1) = IF j + 1 \in 1..m THEN r[j + 1] ELSE Null
      BY <1>7
    <3>2. CASE j + 1 \in 1..m
      <4>1. r[j + 1] = IF j + 1 < i THEN s[j + 1] ELSE s[j + 2]
        BY <3>2, <1>3
      <4> QED BY <3>1, <3>2, <4>1, <1>1, <1>6
    <3>3. CASE j + 1 \notin 1..m
      BY <3>1, <3>3, <1>1, <1>6
    <3> QED BY <3>2, <3>3
  <2>8. At(r, j - 1) = IF x = i + 1 THEN At(s, i - 1) ELSE At(s, x - 1)
    <3>1. At(r, j - 1) = IF j - 1 \in 1..m THEN r[j - 1] ELSE Null
      BY <1>7
    <3>2. CASE j - 1 \in 1..m
      <4>1. r[j - 1] = IF j - 1 < i THEN s[j - 1] ELSE s[j]
        BY <3>2, <1>3
      <4> QED BY <3>1, <3>2, <4>1, <1>1, <1>6
    <3>3. CASE j - 1 \notin 1..m
      BY <3>1, <3>3, <1>1, <1>6
    <3> QED BY <3>2, <3>3
  <2> QED BY <2>4, <2>5, <2>6, <2>7, <2>8
<1>12. IsList(r, d)
  BY <1>3, <1>9, <1>10, <1>11 DEF IsList
<1> QED BY <1>12 DEF r, d, k

LEMMA InsertFields ==
  ASSUME NEW c \in CacheType, NEW k \in Key
  PROVE  /\ InsertAtHead(c, k) \in CacheType
         /\ SameNodes(c, InsertAtHead(c, k))
         /\ InsertAtHead(c, k).head = k
         /\ InsertAtHead(c, k).tail = IF c.tail = Null THEN k ELSE c.tail
         /\ \A j \in Key :
              /\ InsertAtHead(c, k).next[j] = IF j = k THEN c.head ELSE c.next[j]
              /\ InsertAtHead(c, k).prev[j] = IF j = k THEN Null
                                              ELSE IF j = c.head THEN k ELSE c.prev[j]
<1>1. /\ c.prev \in [Key -> Node] /\ c.next \in [Key -> Node] /\ c.head \in Node
      /\ c.tail \in Node /\ Null \in Node /\ k \in Node
  BY DEF CacheType, Node
<1> DEFINE nx == [c.next EXCEPT ![k] = c.head]
           pv == [j \in Key |-> IF j = k THEN Null ELSE IF j = c.head THEN k ELSE c.prev[j]]
           d == [c EXCEPT !.head = k,
                          !.tail = IF @ = Null THEN k ELSE @,
                          !.next = nx, !.prev = pv]
<1>2. InsertAtHead(c, k) = d
  BY DEF InsertAtHead
<1>4. nx \in [Key -> Node] /\ pv \in [Key -> Node]
  BY <1>1
<1>5. \A j \in Key : /\ nx[j] = IF j = k THEN c.head ELSE c.next[j]
                     /\ pv[j] = IF j = k THEN Null ELSE IF j = c.head THEN k ELSE c.prev[j]
  BY <1>1
<1> HIDE DEF nx, pv
<1>6. /\ d \in CacheType /\ SameNodes(c, d)
      /\ d.head = k
      /\ d.tail = IF c.tail = Null THEN k ELSE c.tail
      /\ d.next = nx /\ d.prev = pv
  BY <1>1, <1>4 DEF CacheType, SameNodes
<1> QED BY <1>2, <1>5, <1>6

LEMMA InsertList ==
  ASSUME NEW c \in CacheType, NEW s \in Seq(Key), IsInjective(s), IsList(s, c),
         NEW k \in Key, k \notin Range(s)
  PROVE  IsList(<<k>> \o s, InsertAtHead(c, k))
<1> DEFINE n == Len(s)
           m == n + 1
           r == <<k>> \o s
           d == InsertAtHead(c, k)
<1>1. n \in Nat /\ s \in [1..n -> Key] /\ DOMAIN s = 1..n /\ Null \notin Key
  BY CacheAssumption
<1>2. \A x, y \in 1..n : s[x] = s[y] => x = y
  BY <1>1 DEF IsInjective
<1>3. Len(r) = m /\ r[1] = k /\ \A i \in 1..n : r[i + 1] = s[i]
  BY PrependList
<1>4. /\ c.head = At(s, 1) /\ c.tail = At(s, n)
      /\ \A x \in 1..n : c.next[s[x]] = At(s, x + 1) /\ c.prev[s[x]] = At(s, x - 1)
  BY DEF IsList
<1>5. /\ d.head = k
      /\ d.tail = IF c.tail = Null THEN k ELSE c.tail
      /\ \A j \in Key : /\ d.next[j] = IF j = k THEN c.head ELSE c.next[j]
                        /\ d.prev[j] = IF j = k THEN Null
                                       ELSE IF j = c.head THEN k ELSE c.prev[j]
  BY InsertFields
<1>6. \A x \in Int : At(s, x) = IF x \in 1..n THEN s[x] ELSE Null
  BY DEF At
<1>7. \A x \in Int : At(r, x) = IF x \in 1..m THEN r[x] ELSE Null
  BY <1>3 DEF At
<1>8. \A i \in 1..n : s[i] # k
  BY <1>1 DEF Range
<1> HIDE DEF n, r, d
<1>9. d.head = At(r, 1)
  BY <1>1, <1>3, <1>5, <1>7
<1>10. d.tail = At(r, m)
  <2>1. CASE n = 0
    BY <2>1, <1>1, <1>3, <1>4, <1>5, <1>6, <1>7
  <2>2. CASE n # 0
    <3>1. n \in 1..n /\ m \in 1..m
      BY <2>2, <1>1
    <3>2. c.tail = s[n] /\ s[n] \in Key
      BY <3>1, <1>1, <1>4, <1>6
    <3>3. At(r, m) = s[n]
      BY <3>1, <1>3, <1>7
    <3> QED BY <3>2, <3>3, <1>1, <1>5
  <2> QED BY <2>1, <2>2
<1>11. \A x \in Int : x >= 1 => At(r, x + 1) = At(s, x)
  <2> TAKE x \in Int
  <2> HAVE x >= 1
  <2>1. x \in 1..n <=> x + 1 \in 1..m
    BY <1>1
  <2> QED BY <2>1, <1>3, <1>6, <1>7
<1>12. ASSUME NEW i \in 1..m
       PROVE  d.next[r[i]] = At(r, i + 1) /\ d.prev[r[i]] = At(r, i - 1)
  <2>1. CASE i = 1
    <3>1. At(r, i + 1) = At(s, 1) /\ At(r, i - 1) = Null
      BY <2>1, <1>7, <1>11
    <3> QED BY <3>1, <2>1, <1>3, <1>4, <1>5
  <2>2. CASE i # 1
    <3> DEFINE x == i - 1
    <3>1. x \in 1..n /\ i = x + 1 /\ x \in Int /\ x + 1 \in Int
      BY <2>2, <1>1
    <3> HIDE DEF x
    <3>2. r[i] = s[x] /\ s[x] \in Key /\ s[x] # k
      BY <3>1, <1>1, <1>3, <1>8
    <3>3. d.next[s[x]] = At(s, x + 1) /\ At(r, i + 1) = At(s, x + 1)
      <4>1. x + 1 >= 1
        BY <3>1
      <4> QED BY <3>1, <3>2, <4>1, <1>4, <1>5, <1>11
    <3>4. d.prev[s[x]] = At(r, x)
      <4>1. CASE x = 1
        <5>1. s[x] = c.head /\ At(r, 1) = k
          BY <4>1, <3>1, <1>1, <1>3, <1>4, <1>6, <1>7
        <5> QED BY <4>1, <5>1, <3>2, <1>5
      <4>2. CASE x # 1
        <5>1. x - 1 \in Int /\ x - 1 >= 1 /\ (x - 1) + 1 = x /\ 1 \in 1..n
          BY <4>2, <3>1, <1>1
        <5>2. s[x] # c.head
          BY <4>2, <5>1, <3>1, <1>2, <1>4, <1>6
        <5>3. d.prev[s[x]] = At(s, x - 1)
          BY <5>2, <3>1, <3>2, <1>4, <1>5
        <5>4. At(r, (x - 1) + 1) = At(s, x - 1)
          BY <5>1, <1>11
        <5> QED BY <5>1, <5>3, <5>4
      <4> QED BY <4>1, <4>2
    <3>5. i - 1 = x
      BY <3>1
    <3> QED BY <3>2, <3>3, <3>4, <3>5
  <2> QED BY <2>1, <2>2
<1>13. IsList(r, d)
  BY <1>3, <1>9, <1>10, <1>12 DEF IsList
<1> QED BY <1>13 DEF r, d

-----------------------------------------------------------------------------
(* A cache as a list of keys *)

SizesOf(s, e) == [i \in 1..Len(s) |-> e[s[i]].sizeBytes]

\* The cache c is the list s: its links are those of s, its nodes are there,
\* and the bytes counted by hand are those of the nodes.
Represents(s, c) ==
  /\ c \in CacheType
  /\ s \in Seq(Key) /\ IsInjective(s)
  /\ IsList(s, c)
  /\ DOMAIN c.nodesByKey = Range(s)
  /\ c.totalBytes = Total(SizesOf(s, c.nodesByKey))

\* The nodes of d are nodes of c, with the same entries.
Keeps(c, d) ==
  /\ DOMAIN d.nodesByKey \subseteq DOMAIN c.nodesByKey
  /\ \A k \in DOMAIN d.nodesByKey : d.nodesByKey[k] = c.nodesByKey[k]

LEMMA NodesType ==
  ASSUME NEW c \in CacheType
  PROVE  /\ DOMAIN c.nodesByKey \subseteq Key
         /\ c.nodesByKey \in [DOMAIN c.nodesByKey -> Entry]
         /\ \A k \in DOMAIN c.nodesByKey :
              c.nodesByKey[k] \in Entry /\ c.nodesByKey[k].sizeBytes \in Nat
<1>1. c.nodesByKey \in Nodes
  BY DEF CacheType
<1>2. PICK D \in SUBSET Key : c.nodesByKey \in [D -> Entry]
  BY <1>1 DEF Nodes
<1>3. DOMAIN c.nodesByKey = D
  BY <1>2
<1>4. \A k \in D : c.nodesByKey[k] \in Entry
  BY <1>2
<1>5. \A x \in Entry : x.sizeBytes \in Nat
  BY SizesType DEF Entry
<1> QED BY <1>2, <1>3, <1>4, <1>5

LEMMA SizesOfType ==
  ASSUME NEW s, NEW c, Represents(s, c)
  PROVE  /\ SizesOf(s, c.nodesByKey) \in [1..Len(s) -> Int]
         /\ SizesOf(s, c.nodesByKey) \in [1..Len(s) -> Nat]
         /\ \A i \in 1..Len(s) : s[i] \in DOMAIN c.nodesByKey
<1> DEFINE n == Len(s)
           e == c.nodesByKey
<1>1. s \in Seq(Key) /\ n \in Nat /\ DOMAIN s = 1..n /\ DOMAIN e = Range(s) /\ c \in CacheType
  BY DEF Represents
<1>2. \A i \in 1..n : s[i] \in DOMAIN e
  BY <1>1 DEF Range
<1>3. \A i \in 1..n : e[s[i]].sizeBytes \in Nat
  BY <1>1, <1>2, NodesType
<1>4. SizesOf(s, e) \in [1..n -> Nat]
  BY <1>3 DEF SizesOf
<1> HIDE DEF n, e
<1>5. SizesOf(s, e) \in [1..n -> Int]
  BY <1>4
<1> QED BY <1>2, <1>4, <1>5 DEF n, e

\* Without one of its nodes the cache is the list without that key.
LEMMA RemoveRepresents ==
  ASSUME NEW s, NEW c, Represents(s, c), NEW i \in 1..Len(s)
  PROVE  /\ Represents(Cut(s, i), RemoveNode(c, s[i]))
         /\ Keeps(c, RemoveNode(c, s[i]))
         /\ c.totalBytes = RemoveNode(c, s[i]).totalBytes + c.nodesByKey[s[i]].sizeBytes
         /\ RemoveNode(c, s[i]).totalBytes <= c.totalBytes
         /\ \A k \in Range(s) \ {s[i]} : k \in DOMAIN RemoveNode(c, s[i]).nodesByKey
<1> DEFINE n == Len(s)
           m == n - 1
           k == s[i]
           r == Cut(s, i)
           e == c.nodesByKey
           b == Detach(c, k)
           f == Restrict(b.nodesByKey, DOMAIN b.nodesByKey \ {k})
           left == c.totalBytes - e[k].sizeBytes
           rest == IF left >= 0 THEN left ELSE 0
           d == RemoveNode(c, k)
<1>1. /\ s \in Seq(Key) /\ IsInjective(s) /\ IsList(s, c) /\ DOMAIN e = Range(s)
      /\ c \in CacheType /\ c.totalBytes = Total(SizesOf(s, e))
      /\ n \in Nat \ {0} /\ m \in Nat /\ n = m + 1 /\ k \in Key /\ DOMAIN s = 1..n
  BY DEF Represents
<1>2. b \in CacheType /\ SameNodes(c, b) /\ IsList(r, b)
  BY <1>1, DetachFields, DetachList
<1>3. /\ r \in Seq(Key) /\ Len(r) = m /\ IsInjective(r) /\ Range(r) = Range(s) \ {k}
      /\ IsCut(r, m, s, i)
  BY <1>1, CutList
<1>4. /\ f = [j \in Range(r) |-> e[j]] /\ e \in [Range(s) -> Entry] /\ Range(s) \subseteq Key
  BY <1>1, <1>2, <1>3, NodesType DEF SameNodes, Restrict
<1>5. f \in Nodes /\ DOMAIN f = Range(r) /\ \A j \in Range(r) : f[j] = e[j]
  <2> DEFINE R == Range(r)
  <2>1. R \subseteq Range(s) /\ R \in SUBSET Key /\ f = [j \in R |-> e[j]]
    BY <1>3, <1>4
  <2> HIDE DEF R, f, e
  <2>2. f \in [R -> Entry] /\ DOMAIN f = R /\ \A j \in R : f[j] = e[j]
    BY <2>1, <1>4
  <2>3. f \in Nodes
    BY <2>1, <2>2 DEF Nodes
  <2> QED BY <2>2, <2>3 DEF R
<1>6. Total(SizesOf(s, e)) = Total(SizesOf(r, f)) + e[k].sizeBytes
  <2> DEFINE g == SizesOf(s, e)  h == SizesOf(r, f)
  <2>1. g \in [1..n -> Int] /\ \A j \in 1..n : s[j] \in Range(s)
    BY SizesOfType, <1>1
  <2>2. \A j \in 1..m : /\ h[j] = f[r[j]].sizeBytes /\ r[j] \in Range(r)
                        /\ r[j] = IF j < i THEN s[j] ELSE s[j + 1]
    BY <1>3 DEF SizesOf, IsCut, Range
  <2>3. \A j \in 1..n : g[j] = e[s[j]].sizeBytes
    BY DEF SizesOf
  <2>4. \A j \in 1..m : h[j] = IF j < i THEN g[j] ELSE g[j + 1]
    <3> TAKE j \in 1..m
    <3>1. j \in 1..n /\ j + 1 \in 1..n
      BY <1>1
    <3>2. h[j] = e[r[j]].sizeBytes
      BY <2>2, <1>5
    <3> QED BY <3>1, <3>2, <2>2, <2>3
  <2>5. h \in [1..m -> Int]
    <3>1. \A j \in 1..m : h[j] \in Int
      <4> TAKE j \in 1..m
      <4>1. j \in 1..n /\ j + 1 \in 1..n
        BY <1>1
      <4> HIDE DEF g, h
      <4> QED BY <4>1, <2>1, <2>4
    <3>2. h = [j \in 1..m |-> h[j]]
      BY <1>3 DEF SizesOf
    <3> HIDE DEF h
    <3> QED BY <3>1, <3>2
  <2>6. g[i] = e[k].sizeBytes
    BY <2>3
  <2> HIDE DEF g, h, n, m
  <2>7. IsCut(h, m, g, i)
    BY <2>4 DEF IsCut
  <2>8. Total(g) = Total(h) + g[i]
    <3>1. /\ m \in Nat /\ n \in Nat /\ n = m + 1 /\ g \in [1..n -> Int]
          /\ h \in [1..m -> Int] /\ i \in 1..n /\ IsCut(h, m, g, i)
      BY <1>1, <2>1, <2>5, <2>7 DEF n
    <3> HIDE DEF k
    <3> QED BY <3>1, TotalCut
  <2> QED BY <2>6, <2>8 DEF g, h
<1>7. Total(SizesOf(r, f)) \in Nat /\ e[k].sizeBytes \in Nat /\ c.totalBytes \in Nat
  <2>1. e[k].sizeBytes \in Nat
    BY <1>1, NodesType DEF Range
  <2>2. c.totalBytes \in Nat
    BY <1>1 DEF CacheType
  <2>3. SizesOf(r, f) \in [1..m -> Nat]
    <3>1. \A j \in 1..m : r[j] \in Range(r) /\ Range(r) \subseteq Range(s)
      BY <1>3 DEF Range
    <3>2. \A j \in 1..m : f[r[j]].sizeBytes \in Nat
      <4> TAKE j \in 1..m
      <4>1. r[j] \in Range(s) /\ f[r[j]] = e[r[j]]
        BY <3>1, <1>5
      <4> QED BY <4>1, <1>1, NodesType
    <3> HIDE DEF r, f, m
    <3>3. SizesOf(r, f) = [j \in 1..m |-> f[r[j]].sizeBytes]
      BY <1>3 DEF SizesOf
    <3> QED BY <3>2, <3>3
  <2>4. Total(SizesOf(r, f)) \in Nat
    <3> HIDE DEF m
    <3> QED BY <2>3, <1>1, TotalNat
  <2> QED BY <2>1, <2>2, <2>4
<1>8. rest = Total(SizesOf(r, f)) /\ rest \in Nat /\ rest <= c.totalBytes
  <2> DEFINE x == Total(SizesOf(r, f))  y == e[k].sizeBytes  z == c.totalBytes
  <2>1. x \in Nat /\ y \in Nat /\ z = x + y
    BY <1>1, <1>6, <1>7
  <2> HIDE DEF x, y
  <2>2. (IF z - y >= 0 THEN z - y ELSE 0) = x /\ x <= z
    <3> HIDE DEF z
    <3> QED BY <2>1
  <2> QED BY <2>1, <2>2 DEF x, y
<1>9. d = [b EXCEPT !.nodesByKey = f, !.totalBytes = rest]
  BY <1>2 DEF RemoveNode, SameNodes
<1> HIDE DEF f, rest, b, r
<1>10. /\ d \in CacheType /\ d.nodesByKey = f /\ d.totalBytes = rest
       /\ d.head = b.head /\ d.tail = b.tail /\ d.prev = b.prev /\ d.next = b.next
  BY <1>2, <1>5, <1>8, <1>9 DEF CacheType
<1> HIDE DEF d
<1>11. IsList(r, d)
  BY <1>2, <1>10 DEF IsList
<1>14. c.totalBytes = d.totalBytes + e[k].sizeBytes
  BY <1>1, <1>6, <1>8, <1>10
<1>12. Represents(r, d)
  BY <1>3, <1>5, <1>8, <1>10, <1>11 DEF Represents
<1>13. Keeps(c, d)
  BY <1>1, <1>3, <1>5, <1>10 DEF Keeps
<1> QED BY <1>3, <1>5, <1>8, <1>10, <1>12, <1>13, <1>14 DEF d, r, k

LEMMA TotalFirst ==
  ASSUME NEW m \in Nat, NEW n, n = m + 1, NEW h \in [1..m -> Int], NEW g \in [1..n -> Int],
         IsCut(h, m, g, 1)
  PROVE  Total(g) = Total(h) + g[1]
<1>1. PICK i \in 1..n : i = 1
  OBVIOUS
<1>2. m \in Nat /\ n \in Nat /\ n = m + 1 /\ i \in 1..n /\ IsCut(h, m, g, i)
  BY <1>1
<1>3. Total(g) = Total(h) + g[i]
  BY <1>2, TotalCut
<1> QED BY <1>1, <1>3

LEMMA SizesPrepend ==
  ASSUME NEW s \in Seq(Key), IsInjective(s), NEW k \in Key, k \notin Range(s),
         NEW e, NEW f, f[k].sizeBytes \in Int,
         \A j \in Range(s) : e[j].sizeBytes \in Int /\ f[j].sizeBytes = e[j].sizeBytes
  PROVE  Total(SizesOf(<<k>> \o s, f)) = Total(SizesOf(s, e)) + f[k].sizeBytes
<1> DEFINE m == Len(s)
           n == m + 1
           r == <<k>> \o s
           h == SizesOf(s, e)
           g == SizesOf(r, f)
<1>1. /\ m \in Nat /\ DOMAIN s = 1..m /\ Len(r) = n /\ r[1] = k
      /\ \A j \in 1..m : r[j + 1] = s[j] /\ s[j] \in Range(s)
  BY PrependList DEF Range
<1>2. h = [j \in 1..m |-> e[s[j]].sizeBytes] /\ g = [j \in 1..n |-> f[r[j]].sizeBytes]
  BY <1>1 DEF SizesOf
<1>3. \A j \in 1..m : g[j + 1] = h[j] /\ h[j] \in Int /\ j + 1 \in 1..n
  <2> TAKE j \in 1..m
  <2>1. j + 1 \in 1..n
    BY <1>1
  <2>2. g[j + 1] = f[s[j]].sizeBytes /\ h[j] = e[s[j]].sizeBytes
    BY <2>1, <1>1, <1>2
  <2> QED BY <2>1, <2>2, <1>1
<1>4. g[1] = f[k].sizeBytes /\ 1 \in 1..n
  BY <1>1, <1>2
<1> HIDE DEF g, h, r, m
<1>5. \A j \in 1..n : j = 1 \/ (j - 1 \in 1..m /\ (j - 1) + 1 = j)
  BY <1>1
<1>6. \A j \in 1..n : g[j] \in Int
  BY <1>3, <1>4, <1>5
<1>7. g \in [1..n -> Int] /\ h \in [1..m -> Int] /\ n \in Nat
  BY <1>1, <1>2, <1>3, <1>6
<1>8. IsCut(h, m, g, 1)
  BY <1>1, <1>3 DEF IsCut
<1> HIDE DEF n
<1>9. Total(g) = Total(h) + g[1]
  <2>1. m \in Nat /\ n = m + 1 /\ g \in [1..n -> Int] /\ h \in [1..m -> Int] /\ IsCut(h, m, g, 1)
    BY <1>1, <1>7, <1>8 DEF n
  <2> QED BY <2>1, TotalFirst
<1> QED BY <1>4, <1>9 DEF g, h, r

\* A node that is moved to the head is the first of the list.
LEMMA MoveRepresents ==
  ASSUME NEW s, NEW c, Represents(s, c), NEW i \in 1..Len(s)
  PROVE  /\ Represents(<<s[i]>> \o Cut(s, i), MoveToHead(c, s[i]))
         /\ SameNodes(c, MoveToHead(c, s[i]))
<1> DEFINE k == s[i]
           r == Cut(s, i)
           e == c.nodesByKey
           w == <<k>> \o r
           b == Detach(c, k)
           x == RemoveNode(c, k)
<1>1. /\ s \in Seq(Key) /\ IsInjective(s) /\ IsList(s, c) /\ DOMAIN e = Range(s)
      /\ c \in CacheType /\ c.totalBytes = Total(SizesOf(s, e)) /\ Len(s) \in Nat
      /\ k \in Key /\ k \in Range(s)
  BY DEF Represents, Range
<1>2. /\ r \in Seq(Key) /\ IsInjective(r) /\ Range(r) = Range(s) \ {k} /\ Len(r) = Len(s) - 1
      /\ \A j \in 1..(Len(s) - 1) : r[j] = IF j < i THEN s[j] ELSE s[j + 1]
  BY <1>1, CutList DEF IsCut
<1>3. k \notin Range(r)
  BY <1>2
<1>4. /\ w \in Seq(Key) /\ IsInjective(w) /\ Range(w) = Range(r) \cup {k} /\ Len(w) = Len(s)
      /\ w[1] = k /\ \A j \in 1..Len(r) : w[j + 1] = r[j]
  BY <1>1, <1>2, <1>3, PrependList
<1>5. Range(w) = Range(s)
  BY <1>1, <1>2, <1>4
<1>6. Total(SizesOf(w, e)) = c.totalBytes
  <2>1. /\ Represents(r, x) /\ Keeps(c, x)
        /\ c.totalBytes = x.totalBytes + e[k].sizeBytes
    BY RemoveRepresents
  <2>2. x.totalBytes = Total(SizesOf(r, x.nodesByKey)) /\ DOMAIN x.nodesByKey = Range(r)
    BY <2>1 DEF Represents
  <2>3. \A j \in Range(s) : e[j].sizeBytes \in Int
    BY <1>1, NodesType
  <2>4. \A j \in Range(r) : /\ x.nodesByKey[j].sizeBytes \in Int
                            /\ e[j].sizeBytes = x.nodesByKey[j].sizeBytes
    BY <2>1, <2>2, <2>3, <1>2 DEF Keeps
  <2> DEFINE y == x.nodesByKey
  <2> HIDE DEF y, e, x, r, k
  <2>5. Total(SizesOf(<<k>> \o r, e)) = Total(SizesOf(r, y)) + e[k].sizeBytes
    <3>1. \A j \in Range(r) : y[j].sizeBytes \in Int /\ e[j].sizeBytes = y[j].sizeBytes
      BY <2>4 DEF y
    <3>2. e[k].sizeBytes \in Int
      BY <2>3, <1>1
    <3> QED BY <3>1, <3>2, <1>1, <1>2, <1>3, SizesPrepend
  <2> QED BY <2>1, <2>2, <2>5 DEF y
<1>7. CASE c.head = k
  <2>1. MoveToHead(c, k) = c
    BY <1>7 DEF MoveToHead
  <2>2. i = 1
    <3>1. c.head = s[1] /\ 1 \in 1..Len(s) /\ DOMAIN s = 1..Len(s)
      BY <1>1 DEF IsList, At
    <3> QED BY <3>1, <1>1, <1>7 DEF IsInjective
  <2>3. w = s
    <3> DEFINE n == Len(s)
    <3>1. s \in [1..n -> Key] /\ n \in Nat
      BY <1>1
    <3>3. w \in [1..n -> Key]
      <4> HIDE DEF w
      <4>1. w \in Seq(Key) /\ Len(w) = n
        BY <1>4
      <4> QED BY <4>1
    <3>2. \A j \in 1..n : w[j] = s[j]
      <4> TAKE j \in 1..n
      <4>1. CASE j # 1
        <5>1. j - 1 \in 1..Len(r) /\ (j - 1) + 1 = j /\ ~(j - 1 < 1)
          BY <4>1, <1>1, <1>2
        <5>2. w[j] = r[j - 1] /\ r[j - 1] = s[j]
          BY <5>1, <2>2, <1>2, <1>4
        <5> QED BY <5>2
      <4> QED BY <4>1, <2>2, <1>4
    <3> HIDE DEF w, n
    <3> QED BY <3>1, <3>2, <3>3
  <2> QED BY <2>1, <2>3 DEF SameNodes
<1>8. CASE c.head # k
  <2> DEFINE d == InsertAtHead(b, k)
  <2>1. MoveToHead(c, k) = d
    BY <1>8 DEF MoveToHead
  <2>2. b \in CacheType /\ SameNodes(c, b) /\ IsList(r, b)
    BY <1>1, DetachFields, DetachList
  <2>3. d \in CacheType /\ SameNodes(b, d) /\ IsList(w, d)
    <3> HIDE DEF b, r, k
    <3> QED BY <2>2, <1>1, <1>2, <1>3, InsertFields, InsertList
  <2> HIDE DEF d, b, w
  <2>4. SameNodes(c, d)
    BY <2>2, <2>3 DEF SameNodes
  <2>5. Represents(w, d)
    BY <2>3, <2>4, <1>1, <1>4, <1>5, <1>6 DEF Represents, SameNodes
  <2> QED BY <2>1, <2>4, <2>5 DEF w
<1> QED BY <1>7, <1>8

\* What set does when there is room for k.
Put(c, k, entry) ==
  [InsertAtHead(c, k) EXCEPT
     !.nodesByKey = [j \in DOMAIN @ \cup {k} |-> IF j = k THEN entry ELSE @[j]],
     !.totalBytes = @ + entry.sizeBytes]

\* The nodes e of the keys in q, and entry for k.
With(e, q, k, entry) == [j \in Range(q) \cup {k} |-> IF j = k THEN entry ELSE e[j]]

LEMMA PutRepresents ==
  ASSUME NEW s, NEW c, Represents(s, c), NEW k \in Key, k \notin Range(s), NEW entry \in Entry
  PROVE  /\ Represents(<<k>> \o s, Put(c, k, entry))
         /\ Put(c, k, entry).nodesByKey = With(c.nodesByKey, s, k, entry)
<1> DEFINE r == <<k>> \o s
           e == c.nodesByKey
           b == InsertAtHead(c, k)
           f == [j \in Range(s) \cup {k} |-> IF j = k THEN entry ELSE e[j]]
           d == Put(c, k, entry)
<1>1. /\ s \in Seq(Key) /\ IsInjective(s) /\ IsList(s, c) /\ DOMAIN e = Range(s)
      /\ c \in CacheType /\ c.totalBytes = Total(SizesOf(s, e)) /\ c.totalBytes \in Nat
  BY DEF Represents, CacheType
<1>2. b \in CacheType /\ SameNodes(c, b) /\ IsList(r, b)
  BY <1>1, InsertFields, InsertList
<1>3. r \in Seq(Key) /\ IsInjective(r) /\ Range(r) = Range(s) \cup {k}
  BY <1>1, PrependList
<1>4. entry.sizeBytes \in Nat
  BY SizesType DEF Entry
<1>5. e \in [Range(s) -> Entry] /\ Range(s) \subseteq Key
  BY <1>1, NodesType
<1>6. f \in Nodes /\ DOMAIN f = Range(r) /\ f[k] = entry /\ \A j \in Range(s) : f[j] = e[j]
  <2> DEFINE R == Range(s) \cup {k}
  <2>1. R \in SUBSET Key
    BY <1>5
  <2>2. f \in [R -> Entry] /\ DOMAIN f = R
    BY <1>5
  <2>3. f[k] = entry /\ \A j \in Range(s) : f[j] = e[j]
    OBVIOUS
  <2> HIDE DEF f, R
  <2>4. f \in Nodes
    BY <2>1, <2>2 DEF Nodes
  <2> QED BY <2>2, <2>3, <2>4, <1>3 DEF R
<1>7. d = [b EXCEPT !.nodesByKey = f, !.totalBytes = c.totalBytes + entry.sizeBytes]
  BY <1>1, <1>2 DEF Put, SameNodes
<1>8. Total(SizesOf(r, f)) = c.totalBytes + entry.sizeBytes
  <2>1. \A j \in Range(s) : e[j].sizeBytes \in Int /\ f[j].sizeBytes = e[j].sizeBytes
    BY <1>1, <1>6, NodesType
  <2>2. f[k].sizeBytes \in Int
    BY <1>4, <1>6
  <2> HIDE DEF f, e
  <2>3. Total(SizesOf(<<k>> \o s, f)) = Total(SizesOf(s, e)) + f[k].sizeBytes
    BY <2>1, <2>2, <1>1, SizesPrepend
  <2> QED BY <2>3, <1>1, <1>6
<1> HIDE DEF f, b, r
<1>9. /\ d \in CacheType /\ d.nodesByKey = f /\ d.totalBytes = c.totalBytes + entry.sizeBytes
      /\ d.head = b.head /\ d.tail = b.tail /\ d.prev = b.prev /\ d.next = b.next
  <2>1. c.totalBytes + entry.sizeBytes \in Nat
    BY <1>1, <1>4
  <2> QED BY <2>1, <1>2, <1>6, <1>7 DEF CacheType
<1> HIDE DEF d
<1>10. IsList(r, d)
  BY <1>2, <1>9 DEF IsList
<1>11. Represents(r, d)
  BY <1>3, <1>6, <1>8, <1>9, <1>10 DEF Represents
<1> QED BY <1>9, <1>11 DEF d, f, r, With
-----------------------------------------------------------------------------
(* The loop of cleanup *)

\* r is what is left of s: past the keys that have gone, the same list.
LeavesOrder(s, r) ==
  \A F \in SUBSET Key : Range(s) \ Range(r) \subseteq F => Without(r, F) = Without(s, F)

LEMMA CutLeavesOrder ==
  ASSUME NEW s \in Seq(Key), IsInjective(s), NEW i \in 1..Len(s)
  PROVE  LeavesOrder(s, Cut(s, i))
<1> SUFFICES ASSUME NEW F \in SUBSET Key, Range(s) \ Range(Cut(s, i)) \subseteq F
             PROVE  Without(Cut(s, i), F) = Without(s, F)
  BY DEF LeavesOrder
<1> DEFINE m == Len(s) - 1
           n == Len(s)
           r == Cut(s, i)
<1>1. /\ r \in Seq(Key) /\ Len(r) = m /\ IsCut(r, m, s, i) /\ Range(r) = Range(s) \ {s[i]}
      /\ n \in Nat \ {0} /\ DOMAIN s = 1..n
  BY CutList
<1> HIDE DEF r, m, n
<1>2. s[i] \in F
  <2>1. i \in 1..n
    BY DEF n
  <2>2. s[i] \in Range(s)
    BY <1>1, <2>1 DEF Range
  <2> QED BY <1>1, <2>2 DEF r
<1>3. IsDropped(r, m, s, n, Key, i, F)
  BY <1>1, <1>2 DEF IsDropped, m, n
<1>4. Without(r, F) = Without(s, F)
  BY <1>3, WithoutCut
<1> QED BY <1>4 DEF r

LEMMA OrderIsTransitive ==
  ASSUME NEW s, NEW r, NEW q, Range(r) \subseteq Range(s), Range(q) \subseteq Range(r),
         LeavesOrder(s, r), LeavesOrder(r, q)
  PROVE  LeavesOrder(s, q)
BY DEF LeavesOrder

\* d, which is the list r, is c, which is s, without entries that have
\* expired at t.
Expires(s, c, r, d, t) ==
  /\ Represents(r, d) /\ Keeps(c, d)
  /\ Range(r) \subseteq Range(s) /\ LeavesOrder(s, r)
  /\ \A k \in Range(s) \ Range(r) : IsExpired(c, k, t)
  /\ d.totalBytes <= c.totalBytes
  /\ Len(r) <= Len(s)

LEMMA NothingExpires ==
  ASSUME NEW s, NEW c, NEW t, Represents(s, c)
  PROVE  Expires(s, c, s, c, t)
BY DEF Expires, Keeps, LeavesOrder, Represents, CacheType

\* One more entry that has expired is removed.
LEMMA OneExpires ==
  ASSUME NEW s, NEW c, NEW r, NEW d, NEW t, Represents(s, c), Expires(s, c, r, d, t),
         NEW i \in 1..Len(r), IsExpired(d, r[i], t)
  PROVE  Expires(s, c, Cut(r, i), RemoveNode(d, r[i]), t)
<1> DEFINE k == r[i]
           q == Cut(r, i)
           b == RemoveNode(d, k)
<1>1. /\ Represents(r, d) /\ Keeps(c, d)
      /\ Range(r) \subseteq Range(s) /\ LeavesOrder(s, r)
      /\ \A j \in Range(s) \ Range(r) : IsExpired(c, j, t)
      /\ d.totalBytes <= c.totalBytes
      /\ Len(r) <= Len(s)
  BY DEF Expires
<1>2. /\ r \in Seq(Key) /\ IsInjective(r) /\ k \in Range(r)
      /\ DOMAIN d.nodesByKey = Range(r) /\ d.totalBytes \in Nat
  BY <1>1 DEF Represents, CacheType, Range
<1>3. Represents(q, b) /\ Keeps(d, b) /\ b.totalBytes <= d.totalBytes
  BY <1>1, RemoveRepresents
<1>4. Range(q) = Range(r) \ {k} /\ Len(q) = Len(r) - 1 /\ LeavesOrder(r, q)
  BY <1>2, CutList, CutLeavesOrder
<1>5. c.totalBytes \in Nat /\ b.totalBytes \in Nat /\ Len(r) \in Nat /\ Len(s) \in Nat
  BY <1>2, <1>3 DEF Represents, CacheType
<1>6. IsExpired(c, k, t)
  BY <1>1, <1>2 DEF Keeps, IsExpired
<1> HIDE DEF k, q, b
<1>7. LeavesOrder(s, q)
  BY <1>1, <1>4, OrderIsTransitive
<1>8. Keeps(c, b)
  BY <1>1, <1>3 DEF Keeps
<1>9. \A j \in Range(s) \ Range(q) : IsExpired(c, j, t)
  BY <1>1, <1>4, <1>6
<1>10. b.totalBytes <= c.totalBytes /\ Len(q) <= Len(s)
  BY <1>1, <1>2, <1>3, <1>4, <1>5
<1>11. Range(q) \subseteq Range(s)
  BY <1>1, <1>4
<1>12. Expires(s, c, q, b, t)
  BY <1>3, <1>7, <1>8, <1>9, <1>10, <1>11 DEF Expires
<1> QED BY <1>12 DEF k, q, b

\* The states of the loop over c, which is the list s.
Loops(s, c, t) ==
  {loop \in [cache : CacheType, current : Node] :
     \E r : Expires(s, c, r, loop.cache, t) /\ loop.current \in Range(r) \cup {Null}}

LEMMA LoopStarts ==
  ASSUME NEW s, NEW c, NEW t, Represents(s, c)
  PROVE  [cache |-> c, current |-> c.tail] \in Loops(s, c, t)
<1> DEFINE loop == [cache |-> c, current |-> c.tail]
<1>1. c \in CacheType /\ c.tail \in Node /\ c.tail = At(s, Len(s)) /\ s \in Seq(Key)
  BY DEF Represents, IsList, CacheType
<1>2. c.tail \in Range(s) \cup {Null}
  BY <1>1 DEF At, Range
<1>3. loop \in [cache : CacheType, current : Node] /\ loop.cache = c /\ loop.current = c.tail
  BY <1>1
<1> HIDE DEF loop
<1>4. loop \in Loops(s, c, t)
  BY <1>2, <1>3, NothingExpires DEF Loops
<1> QED BY <1>4 DEF loop

LEMMA LookAtLoops ==
  ASSUME NEW s, NEW c, NEW t, Represents(s, c), NEW loop \in Loops(s, c, t)
  PROVE  LookAt(loop, t) \in Loops(s, c, t)
<1> DEFINE d == loop.cache
           k == loop.current
           next == LookAt(loop, t)
<1>1. PICK r : Expires(s, c, r, d, t) /\ k \in Range(r) \cup {Null}
  BY DEF Loops
<1>2. loop \in [cache : CacheType, current : Node]
  BY DEF Loops
<1>3. CASE k = Null
  BY <1>3 DEF LookAt
<1>4. CASE k # Null
  <2>1. Represents(r, d)
    BY <1>1 DEF Expires
  <2>2. r \in Seq(Key) /\ IsInjective(r) /\ IsList(r, d) /\ DOMAIN r = 1..Len(r) /\ Len(r) \in Nat
    BY <2>1 DEF Represents
  <2>3. PICK i \in 1..Len(r) : r[i] = k
    BY <1>1, <1>4, <2>2 DEF Range
  <2> DEFINE p == d.prev[k]
             b == IF IsExpired(d, k, t) THEN RemoveNode(d, k) ELSE d
  <2>4. p = At(r, i - 1)
    BY <2>2, <2>3 DEF IsList
  <2>5. p = Null \/ (p \in Range(r) \ {k})
    <3>1. CASE i - 1 \in 1..Len(r)
      <4>1. r[i - 1] # r[i]
        BY <2>2, <2>3, <3>1 DEF IsInjective
      <4>2. r[i - 1] \in Range(r)
        BY <2>2, <3>1 DEF Range
      <4> QED BY <2>3, <2>4, <3>1, <4>1, <4>2 DEF At
    <3>2. CASE i - 1 \notin 1..Len(r)
      BY <2>4, <3>2 DEF At
    <3> QED BY <3>1, <3>2
  <2>6. p \in Node
    BY <2>5, <2>2 DEF Node, Range
  <2>7. next = [cache |-> b, current |-> p]
    BY <1>4 DEF LookAt
  <2> HIDE DEF p, d, k, next
  <2>8. \E q : Expires(s, c, q, b, t) /\ p \in Range(q) \cup {Null}
    <3>1. CASE IsExpired(d, k, t)
      <4>1. Expires(s, c, Cut(r, i), RemoveNode(d, k), t)
        BY <1>1, <2>3, <3>1, OneExpires
      <4>2. Range(Cut(r, i)) = Range(r) \ {k}
        BY <2>2, <2>3, CutList
      <4> QED BY <3>1, <4>1, <4>2, <2>5
    <3>2. CASE ~IsExpired(d, k, t)
      BY <1>1, <2>5, <3>2
    <3> QED BY <3>1, <3>2
  <2> HIDE DEF b
  <2>9. b \in CacheType
    BY <2>8 DEF Expires, Represents
  <2>10. next \in [cache : CacheType, current : Node] /\ next.cache = b /\ next.current = p
    BY <2>6, <2>7, <2>9
  <2>11. next \in Loops(s, c, t)
    BY <2>8, <2>10 DEF Loops
  <2> QED BY <2>11 DEF next
<1> QED BY <1>3, <1>4

\* A loop of N turns that does the same at each.
IsRepeated(g, N, start, f) == g[0] = start /\ \A n \in 1..N : g[n] = f[g[n - 1]]

LEMMA RepeatExists ==
  ASSUME NEW N \in Nat, NEW S, NEW start \in S, NEW f \in [S -> S]
  PROVE  \E g \in [0..N -> S] : IsRepeated(g, N, start, f)
<1> DEFINE step == [n \in 1..N |-> f]
<1>1. step \in [1..N -> [S -> S]] /\ \A n \in 1..N : step[n] = f
  OBVIOUS
<1> HIDE DEF step
<1>2. PICK g \in [0..N -> S] : IsRun(g, N, start, step)
  BY <1>1, RecursionExists
<1>3. \A n \in 1..N : g[n] = f[g[n - 1]]
  BY <1>1, <1>2 DEF IsRun
<1> QED BY <1>2, <1>3 DEF IsRun, IsRepeated

\* The first loop of cleanup removes nothing but entries that have expired.
LEMMA RemoveExpiredExpires ==
  ASSUME NEW s, NEW c, NEW t, Represents(s, c)
  PROVE  \E r : Expires(s, c, r, RemoveExpired(c, t), t)
<1> DEFINE N == Cardinality(DOMAIN c.nodesByKey)
           S == Loops(s, c, t)
           start == [cache |-> c, current |-> c.tail]
           IsAfter(g) == g = [n \in 0..N |-> IF n = 0 THEN start ELSE LookAt(g[n - 1], t)]
           after == CHOOSE g : IsAfter(g)
           f == [loop \in S |-> LookAt(loop, t)]
<1>1. N \in Nat /\ start \in S /\ f \in [S -> S] /\ \A loop \in S : f[loop] = LookAt(loop, t)
  BY ListSize, LoopStarts, LookAtLoops DEF Represents
<1>2. RemoveExpired(c, t) = after[N].cache
  BY DEF RemoveExpired
<1> HIDE DEF N, S, start, f
<1>3. PICK g \in [0..N -> S] : IsRepeated(g, N, start, f)
  BY <1>1, RepeatExists
<1>4. \A n \in 1..N : n - 1 \in 0..N
  BY <1>1
<1>5. \A n \in 0..N : g[n] = IF n = 0 THEN start ELSE LookAt(g[n - 1], t)
  <2> TAKE n \in 0..N
  <2>1. CASE n # 0
    <3>1. n \in 1..N
      BY <1>1, <2>1
    <3>2. g[n - 1] \in S /\ g[n] = f[g[n - 1]]
      BY <1>3, <1>4, <3>1 DEF IsRepeated
    <3> QED BY <2>1, <3>2, <1>1
  <2>2. CASE n = 0
    BY <1>3, <2>2 DEF IsRepeated
  <2> QED BY <2>1, <2>2
<1>6. IsAfter(g)
  BY <1>5
<1>7. IsAfter(after)
  <2> HIDE DEF IsAfter
  <2> QED BY <1>6
<1> HIDE DEF after
<1> DEFINE T == {n \in 0..N : after[n] \in S}
<1>8. 0 \in T
  BY <1>1, <1>7
<1>9. ASSUME NEW n \in 0..(N - 1), n \in T PROVE n + 1 \in T
  <2>1. n + 1 \in 0..N /\ n + 1 # 0 /\ (n + 1) - 1 = n /\ after[n] \in S
    BY <1>1, <1>9
  <2>2. after[n + 1] = LookAt(after[n], t)
    BY <1>7, <2>1
  <2>3. LookAt(after[n], t) \in S
    BY <2>1, LookAtLoops DEF S
  <2> QED BY <2>1, <2>2, <2>3
<1>10. \A n \in 0..N : n \in T
  <2> HIDE DEF T
  <2> QED BY <1>1, <1>8, <1>9, SetInduction
<1>11. after[N] \in S
  BY <1>1, <1>10
<1> QED BY <1>2, <1>11 DEF S, Loops
-----------------------------------------------------------------------------
(* The eviction *)

LEMMA FirstList ==
  ASSUME NEW s \in Seq(Key), IsInjective(s), NEW m \in 0..Len(s)
  PROVE  /\ SubSeq(s, 1, m) \in Seq(Key) /\ Len(SubSeq(s, 1, m)) = m
         /\ \A i \in 1..m : SubSeq(s, 1, m)[i] = s[i] /\ i \in 1..Len(s)
         /\ IsInjective(SubSeq(s, 1, m))
         /\ Range(SubSeq(s, 1, m)) \subseteq Range(s)
<1> DEFINE n == Len(s)
           r == SubSeq(s, 1, m)
<1>1. n \in Nat /\ DOMAIN s = 1..n /\ m \in 0..n
  OBVIOUS
<1>2. r \in Seq(Key) /\ Len(r) = m /\ \A i \in 1..m : r[i] = s[i] /\ i \in 1..n
  OBVIOUS
<1> HIDE DEF r, n
<1>3. DOMAIN r = 1..m
  BY <1>2
<1>4. IsInjective(r)
  BY <1>1, <1>2, <1>3 DEF IsInjective
<1>5. Range(r) \subseteq Range(s)
  BY <1>1, <1>2, <1>3 DEF Range
<1> QED BY <1>2, <1>4, <1>5 DEF r, n

LEMMA WholeList == ASSUME NEW s \in Seq(Key) PROVE SubSeq(s, 1, Len(s)) = s
<1> DEFINE n == Len(s)
           r == SubSeq(s, 1, n)
<1>1. n \in Nat /\ s \in [1..n -> Key]
  OBVIOUS
<1>2. r \in Seq(Key) /\ Len(r) = n /\ \A i \in 1..n : r[i] = s[i]
  OBVIOUS
<1> HIDE DEF r, n
<1>3. r \in [1..n -> Key]
  BY <1>2
<1>4. r = s
  BY <1>1, <1>2, <1>3
<1> QED BY <1>4 DEF r, n

\* Cutting the last key off.
LEMMA CutLast ==
  ASSUME NEW s \in Seq(Key), IsInjective(s), NEW m \in 1..Len(s)
  PROVE  Cut(SubSeq(s, 1, m), m) = SubSeq(s, 1, m - 1)
<1> DEFINE l == m - 1
           r == SubSeq(s, 1, m)
           q == SubSeq(s, 1, l)
           p == Cut(r, m)
<1>1. m \in 0..Len(s) /\ l \in 0..Len(s) /\ l \in Nat /\ m \in Nat /\ m \in 1..m
  OBVIOUS
<1>2. /\ r \in Seq(Key) /\ Len(r) = m /\ IsInjective(r)
      /\ \A i \in 1..m : r[i] = s[i]
  BY <1>1, FirstList
<1>3. q \in Seq(Key) /\ Len(q) = l /\ \A i \in 1..l : q[i] = s[i]
  <2> HIDE DEF l
  <2> QED BY <1>1, FirstList
<1> HIDE DEF r, q
<1>4. p \in Seq(Key) /\ Len(p) = l /\ IsCut(p, l, r, m)
  BY <1>1, <1>2, CutList
<1>5. \A i \in 1..l : i \in 1..m /\ i < m
  OBVIOUS
<1> HIDE DEF p
<1>6. \A i \in 1..l : p[i] = q[i]
  BY <1>2, <1>3, <1>4, <1>5 DEF IsCut
<1> HIDE DEF l
<1>7. p \in [1..l -> Key] /\ q \in [1..l -> Key]
  BY <1>3, <1>4
<1>8. p = [i \in 1..l |-> p[i]] /\ q = [i \in 1..l |-> q[i]]
  BY <1>7
<1>9. p = q
  BY <1>6, <1>8, Zenon
<1> QED BY <1>9 DEF p, q, r, l

\* The first n keys of s, with the entries e, are within the limits.
Fitting(s, e, n) ==
  n <= MaxEntries /\ Total([i \in 1..n |-> e[s[i]].sizeBytes]) <= MaxBytes

\* d is c, which is the list s, with its first m keys; more would not fit.
Shrinks(s, c, m, d) ==
  /\ m \in 0..Len(s)
  /\ Represents(SubSeq(s, 1, m), d)
  /\ Keeps(c, d)
  /\ \A n \in (m + 1)..Len(s) : ~Fitting(s, c.nodesByKey, n)

LEMMA OverLimitIs ==
  ASSUME NEW s, NEW c, NEW m \in 0..Len(s), NEW d, Represents(s, c),
         Represents(SubSeq(s, 1, m), d), Keeps(c, d)
  PROVE  OverLimit(d) <=> ~Fitting(s, c.nodesByKey, m)
<1> DEFINE r == SubSeq(s, 1, m)
           e == c.nodesByKey
           f == d.nodesByKey
           g == [i \in 1..m |-> e[s[i]].sizeBytes]
<1>1. s \in Seq(Key) /\ IsInjective(s)
  BY DEF Represents
<1>2. /\ r \in Seq(Key) /\ Len(r) = m /\ IsInjective(r)
      /\ \A i \in 1..m : r[i] = s[i]
  BY <1>1, FirstList
<1> HIDE DEF r
<1>3. DOMAIN f = Range(r) /\ d.totalBytes = Total(SizesOf(r, f))
  BY DEF Represents, r
<1>4. Cardinality(DOMAIN f) = m
  BY <1>2, <1>3, ListSize
<1>5. \A i \in 1..m : f[r[i]] = e[s[i]]
  <2> TAKE i \in 1..m
  <2>1. r[i] \in DOMAIN f
    BY <1>2, <1>3 DEF Range
  <2> QED BY <2>1, <1>2 DEF Keeps
<1>6. SizesOf(r, f) = g
  BY <1>2, <1>5 DEF SizesOf
<1>7. d.totalBytes = Total(g) /\ d.totalBytes \in Int /\ m \in Int
  BY <1>3, <1>6 DEF Represents, CacheType
<1> HIDE DEF g
<1>8. OverLimit(d) <=> (m > MaxEntries \/ Total(g) > MaxBytes)
  BY <1>4, <1>7 DEF OverLimit
<1>9. Fitting(s, e, m) <=> (m <= MaxEntries /\ Total(g) <= MaxBytes)
  BY DEF Fitting, g
<1> QED BY <1>7, <1>8, <1>9, CacheAssumption

LEMMA NothingShrinks ==
  ASSUME NEW s, NEW c, Represents(s, c)
  PROVE  Shrinks(s, c, Len(s), c)
<1>1. s \in Seq(Key) /\ Len(s) \in 0..Len(s) /\ (Len(s) + 1)..Len(s) = {}
  BY DEF Represents
<1>2. SubSeq(s, 1, Len(s)) = s
  BY <1>1, WholeList
<1> QED BY <1>1, <1>2 DEF Shrinks, Keeps

\* A turn of the loop removes the last node, if there is one too many.
LEMMA EvictShrinks ==
  ASSUME NEW s, NEW c, NEW m, NEW d, Represents(s, c), Shrinks(s, c, m, d)
  PROVE  IF OverLimit(d) THEN Shrinks(s, c, m - 1, Evict(d)) ELSE Evict(d) = d
<1>1. CASE ~OverLimit(d)
  BY <1>1 DEF Evict
<1>2. CASE OverLimit(d)
  <2> DEFINE r == SubSeq(s, 1, m)
             l == m - 1
  <2>1. /\ m \in 0..Len(s) /\ Represents(r, d) /\ Keeps(c, d)
        /\ \A n \in (m + 1)..Len(s) : ~Fitting(s, c.nodesByKey, n)
    BY DEF Shrinks
  <2>2. s \in Seq(Key) /\ IsInjective(s) /\ Len(s) \in Nat
    BY DEF Represents
  <2>3. r \in Seq(Key) /\ Len(r) = m /\ IsInjective(r)
    BY <2>1, <2>2, FirstList
  <2>4. ~Fitting(s, c.nodesByKey, m)
    BY <1>2, <2>1, OverLimitIs
  <2>5. m # 0
    <3> SUFFICES ASSUME m = 0 PROVE FALSE
      OBVIOUS
    <3> DEFINE e == c.nodesByKey
               g == [i \in 1..m |-> e[s[i]].sizeBytes]
    <3>1. g \in [1..m -> Int] /\ \A i \in 1..m : g[i] = 0
      OBVIOUS
    <3> HIDE DEF g
    <3>2. Total(g) = 0
      <4> DEFINE zero == 0
      <4>1. m \in Nat /\ zero \in Int /\ g \in [1..m -> Int] /\ \A i \in 1..m : g[i] = zero
        BY <3>1
      <4> HIDE DEF zero
      <4>2. Total(g) = m * zero
        BY <4>1, TotalConstant
      <4> QED BY <4>2 DEF zero
    <3>3. Fitting(s, e, m)
      BY <3>2, CacheAssumption DEF Fitting, g
    <3> QED BY <2>4, <3>3
  <2>6. m \in 1..Len(s) /\ m \in 1..m /\ l \in 0..Len(s)
    BY <2>1, <2>2, <2>5
  <2>7. d.tail = r[m] /\ r[m] \in Key /\ r[m] # Null
    <3>1. d.tail = At(r, Len(r))
      BY <2>1 DEF Represents, IsList
    <3>2. r[m] \in Key
      BY <2>3, <2>6
    <3> QED BY <2>3, <2>6, <3>1, <3>2, CacheAssumption DEF At
  <2> DEFINE b == RemoveNode(d, r[m])
  <2>8. Evict(d) = b
    BY <1>2, <2>7 DEF Evict
  <2>9. Represents(Cut(r, m), b) /\ Keeps(d, b)
    <3> HIDE DEF r
    <3>1. m \in 1..Len(r) /\ Represents(r, d)
      BY <2>1, <2>3, <2>6
    <3> QED BY <3>1, RemoveRepresents
  <2>10. Cut(r, m) = SubSeq(s, 1, l)
    BY <2>2, <2>6, CutLast
  <2> HIDE DEF b, r
  <2>11. Keeps(c, b)
    BY <2>1, <2>9 DEF Keeps
  <2>12. \A n \in (l + 1)..Len(s) : ~Fitting(s, c.nodesByKey, n)
    <3> TAKE n \in (l + 1)..Len(s)
    <3>1. n = m \/ n \in (m + 1)..Len(s)
      BY <2>2, <2>6
    <3> QED BY <2>1, <2>4, <3>1
  <2> HIDE DEF l
  <2>13. Shrinks(s, c, l, b)
    BY <2>6, <2>9, <2>10, <2>11, <2>12 DEF Shrinks
  <2> QED BY <1>2, <2>8, <2>13 DEF l
<1> QED BY <1>1, <1>2

\* What is left after the eviction is the longest stretch that fits.
LEMMA EvictRepresents ==
  ASSUME NEW s, NEW c, Represents(s, c)
  PROVE  \E m : /\ Shrinks(s, c, m, EvictIfNeeded(c))
                /\ Fitting(s, c.nodesByKey, m)
                /\ ~OverLimit(EvictIfNeeded(c))
                /\ ~OverLimit(c) => m = Len(s)
<1> DEFINE N == Cardinality(DOMAIN c.nodesByKey)
           S == {d \in CacheType : \E m : Shrinks(s, c, m, d)}
           IsAfter(g) == g = [n \in 0..N |-> IF n = 0 THEN c ELSE Evict(g[n - 1])]
           after == CHOOSE g : IsAfter(g)
           f == [d \in S |-> Evict(d)]
<1>1. s \in Seq(Key) /\ IsInjective(s) /\ N = Len(s) /\ N \in Nat
  BY ListSize DEF Represents
<1>2. EvictIfNeeded(c) = after[N]
  BY DEF EvictIfNeeded
<1>3. c \in S
  BY NothingShrinks DEF Represents
<1>4. ASSUME NEW d \in S PROVE Evict(d) \in S
  <2>1. PICK m : Shrinks(s, c, m, d)
    OBVIOUS
  <2>2. PICK p : Shrinks(s, c, p, Evict(d))
    BY <2>1, EvictShrinks
  <2>3. Evict(d) \in CacheType
    BY <2>2 DEF Shrinks, Represents
  <2> QED BY <2>2, <2>3
<1>5. f \in [S -> S] /\ \A d \in S : f[d] = Evict(d)
  BY <1>4
<1> HIDE DEF N, S, f
<1>6. PICK g \in [0..N -> S] : IsRepeated(g, N, c, f)
  BY <1>1, <1>3, <1>5, RepeatExists
<1>7. \A n \in 0..N : g[n] = IF n = 0 THEN c ELSE Evict(g[n - 1])
  <2> TAKE n \in 0..N
  <2>1. CASE n # 0
    <3>1. n \in 1..N /\ n - 1 \in 0..N
      BY <1>1, <2>1
    <3>2. g[n - 1] \in S /\ g[n] = f[g[n - 1]]
      BY <1>6, <3>1 DEF IsRepeated
    <3> QED BY <2>1, <3>2, <1>5
  <2>2. CASE n = 0
    BY <1>6, <2>2 DEF IsRepeated
  <2> QED BY <2>1, <2>2
<1>8. IsAfter(g)
  BY <1>7
<1>9. IsAfter(after)
  <2> HIDE DEF IsAfter
  <2> QED BY <1>8
<1> HIDE DEF after
<1> DEFINE Done(n, d) == \E m : Shrinks(s, c, m, d) /\ (m + n <= N \/ ~OverLimit(d))
           T == {n \in 0..N : Done(n, after[n])}
<1>10. 0 \in T
  <2>1. after[0] = c /\ 0 \in 0..N /\ N + 0 <= N
    BY <1>1, <1>9
  <2> QED BY <2>1, <1>1, NothingShrinks
<1>11. ASSUME NEW n \in 0..(N - 1), n \in T PROVE n + 1 \in T
  <2> DEFINE d == after[n]
  <2>1. n + 1 \in 0..N /\ n + 1 # 0 /\ (n + 1) - 1 = n
    BY <1>1, <1>11
  <2>2. after[n + 1] = Evict(d)
    BY <1>9, <2>1
  <2>3. PICK m : Shrinks(s, c, m, d) /\ (m + n <= N \/ ~OverLimit(d))
    BY <1>11
  <2> HIDE DEF d
  <2>4. CASE OverLimit(d)
    <3>1. Shrinks(s, c, m - 1, Evict(d)) /\ m + n <= N
      BY <2>3, <2>4, EvictShrinks
    <3>2. m \in Int /\ (m - 1) + (n + 1) <= N
      BY <3>1, <1>1, <2>3 DEF Shrinks
    <3> QED BY <2>1, <2>2, <3>1, <3>2
  <2>5. CASE ~OverLimit(d)
    <3>1. Evict(d) = d
      BY <2>3, <2>5, EvictShrinks
    <3> QED BY <2>1, <2>2, <2>3, <2>5, <3>1
  <2> QED BY <2>4, <2>5
<1>12. \A n \in 0..N : n \in T
  <2> HIDE DEF T
  <2> QED BY <1>1, <1>10, <1>11, SetInduction
<1>13. N \in 0..N
  BY <1>1
<1> DEFINE d == after[N]
<1>14. PICK m : Shrinks(s, c, m, d) /\ (m + N <= N \/ ~OverLimit(d))
  BY <1>12, <1>13
<1> HIDE DEF d
<1>15. ~OverLimit(d)
  <2>1. CASE OverLimit(d)
    <3>1. Shrinks(s, c, m - 1, Evict(d)) /\ m + N <= N
      BY <1>14, <2>1, EvictShrinks
    <3>2. m \in Int /\ m - 1 \in 0..Len(s)
      BY <3>1, <1>14 DEF Shrinks
    <3> QED BY <3>1, <3>2, <1>1
  <2> QED BY <2>1
<1>16. m \in 0..Len(s) /\ Represents(SubSeq(s, 1, m), d) /\ Keeps(c, d)
  BY <1>14 DEF Shrinks
<1>17. Fitting(s, c.nodesByKey, m)
  BY <1>15, <1>16, OverLimitIs
<1>18. ASSUME ~OverLimit(c) PROVE m = Len(s)
  <2>1. Len(s) \in 0..Len(s) /\ Represents(SubSeq(s, 1, Len(s)), c) /\ Keeps(c, c)
    BY <1>1, WholeList DEF Keeps
  <2>2. Fitting(s, c.nodesByKey, Len(s))
    BY <2>1, <1>18, OverLimitIs
  <2>3. Len(s) \notin (m + 1)..Len(s)
    BY <2>2, <1>14 DEF Shrinks
  <2> QED BY <2>3, <1>1, <1>16
<1> QED BY <1>2, <1>14, <1>15, <1>17, <1>18 DEF d
-----------------------------------------------------------------------------
(* The methods *)

LEMMA OverLimitOf ==
  ASSUME NEW s, NEW c, Represents(s, c)
  PROVE  /\ OverLimit(c) <=> (Len(s) > MaxEntries \/ c.totalBytes > MaxBytes)
         /\ Len(s) \in Nat /\ c.totalBytes \in Nat
<1>1. s \in Seq(Key) /\ IsInjective(s) /\ DOMAIN c.nodesByKey = Range(s) /\ c.totalBytes \in Nat
  BY DEF Represents, CacheType
<1>2. Cardinality(DOMAIN c.nodesByKey) = Len(s) /\ Len(s) \in Nat
  BY <1>1, ListSize
<1> QED BY <1>1, <1>2 DEF OverLimit

\* d, which is the list r, is c, which is s, within the limits and without
\* entries that have expired at t.
Cleans(s, c, r, d, t) ==
  /\ Represents(r, d) /\ Keeps(c, d) /\ ~OverLimit(d)
  /\ Range(r) \subseteq Range(s) /\ LeavesOrder(s, r)
  /\ \A k \in Range(s) \ Range(r) : IsExpired(c, k, t)

LEMMA MaybeCleanupCleans ==
  ASSUME NEW s, NEW c, NEW t \in Nat, Represents(s, c), ~OverLimit(c)
  PROVE  \E r : Cleans(s, c, r, MaybeCleanup(c, t), t)
<1>1. CASE t < c.nextCleanupAt
  BY <1>1, NothingExpires DEF MaybeCleanup, Expires, Cleans
<1>2. CASE ~(t < c.nextCleanupAt)
  <2> DEFINE a == RemoveExpired(c, t)
             b == EvictIfNeeded(a)
             d == [b EXCEPT !.nextCleanupAt = t + CleanupPeriod]
  <2>1. MaybeCleanup(c, t) = d
    BY <1>2 DEF MaybeCleanup
  <2>2. PICK r : Expires(s, c, r, a, t)
    BY RemoveExpiredExpires
  <2> HIDE DEF a
  <2>3. Represents(r, a) /\ a.totalBytes <= c.totalBytes /\ Len(r) <= Len(s)
    BY <2>2 DEF Expires
  <2>4. ~OverLimit(a)
    BY <2>3, OverLimitOf, CacheAssumption
  <2>5. PICK m : Shrinks(r, a, m, b) /\ ~OverLimit(b) /\ m = Len(r)
    BY <2>3, <2>4, EvictRepresents
  <2> HIDE DEF b
  <2>6. SubSeq(r, 1, m) = r
    BY <2>3, <2>5, WholeList DEF Represents
  <2>7. Represents(r, b) /\ Keeps(a, b)
    BY <2>5, <2>6 DEF Shrinks
  <2>8. t + CleanupPeriod \in Nat
    BY CacheAssumption DEF CleanupPeriod
  <2>9. /\ d \in CacheType /\ d.nodesByKey = b.nodesByKey /\ d.totalBytes = b.totalBytes
        /\ d.head = b.head /\ d.tail = b.tail /\ d.prev = b.prev /\ d.next = b.next
    BY <2>7, <2>8 DEF CacheType, Represents
  <2> HIDE DEF d
  <2>10. Represents(r, d) /\ Keeps(a, d) /\ ~OverLimit(d)
    BY <2>5, <2>7, <2>9 DEF Represents, Keeps, IsList, OverLimit
  <2>11. Keeps(c, d)
    BY <2>2, <2>10 DEF Expires, Keeps
  <2>12. Cleans(s, c, r, d, t)
    BY <2>2, <2>10, <2>11 DEF Cleans, Expires
  <2> QED BY <2>1, <2>12
<1> QED BY <1>1, <1>2

LEMMA ForgetLeaves ==
  ASSUME NEW s, NEW c, NEW k \in Key, Represents(s, c), ~OverLimit(c)
  PROVE  \E q : /\ Represents(q, Forget(c, k)) /\ Keeps(c, Forget(c, k))
                /\ ~OverLimit(Forget(c, k))
                /\ Range(q) = Range(s) \ {k} /\ LeavesOrder(s, q)
<1>1. /\ s \in Seq(Key) /\ IsInjective(s) /\ DOMAIN s = 1..Len(s) /\ Len(s) \in Nat
      /\ DOMAIN c.nodesByKey = Range(s)
  BY DEF Represents
<1>2. CASE ~Has(c, k)
  <2>1. Forget(c, k) = c /\ Range(s) = Range(s) \ {k}
    BY <1>1, <1>2 DEF Forget, Has
  <2> QED BY <2>1 DEF Keeps, LeavesOrder
<1>3. CASE Has(c, k)
  <2>1. PICK i \in 1..Len(s) : s[i] = k
    BY <1>1, <1>3 DEF Has, Range
  <2> DEFINE q == Cut(s, i)
             d == RemoveNode(c, k)
  <2>2. Forget(c, k) = d
    BY <1>3 DEF Forget
  <2>3. Represents(q, d) /\ Keeps(c, d) /\ d.totalBytes <= c.totalBytes
    BY <2>1, RemoveRepresents
  <2>4. Range(q) = Range(s) \ {k} /\ Len(q) = Len(s) - 1 /\ LeavesOrder(s, q)
    BY <1>1, <2>1, CutList, CutLeavesOrder
  <2> HIDE DEF d, q
  <2>5. ~OverLimit(d)
    <3>1. Len(s) <= MaxEntries /\ c.totalBytes <= MaxBytes /\ c.totalBytes \in Nat
      BY OverLimitOf, CacheAssumption
    <3>2. /\ OverLimit(d) <=> (Len(q) > MaxEntries \/ d.totalBytes > MaxBytes)
          /\ Len(q) \in Nat /\ d.totalBytes \in Nat
      BY <2>3, OverLimitOf
    <3> QED BY <1>1, <2>3, <2>4, <3>1, <3>2, CacheAssumption
  <2> QED BY <2>2, <2>3, <2>4, <2>5
<1> QED BY <1>2, <1>3

\* What is left of s, when the keys that have gone are known.
LEMMA LeftIs ==
  ASSUME NEW s, NEW q \in Seq(Key), LeavesOrder(s, q),
         NEW F \in SUBSET Key, Range(s) \ Range(q) \subseteq F, Range(q) \cap F = {}
  PROVE  q = Without(s, F)
<1> DEFINE n == Len(q)
<1>1. n \in Nat /\ q \in [1..n -> Key] /\ DOMAIN q = 1..n
  OBVIOUS
<1>2. \A i \in 1..n : q[i] \notin F
  BY <1>1 DEF Range
<1> HIDE DEF n
<1>3. Without(q, F) = q
  BY <1>1, <1>2, WithoutNone
<1>4. Without(q, F) = Without(s, F)
  BY DEF LeavesOrder
<1> QED BY <1>3, <1>4

\* Entries that have expired at t.
Gone(s, c, D, t) == D \subseteq Range(s) /\ \A j \in D : IsExpired(c, j, t)

\* The cache without k, after maybeCleanup.
LEMMA RoomIs ==
  ASSUME NEW s, NEW c, NEW t \in Nat, NEW k \in Key, Represents(s, c), ~OverLimit(c)
  PROVE  \E D, q : /\ Gone(s, c, D, t)
                   /\ q = Without(s, D \cup {k})
                   /\ Represents(q, Forget(MaybeCleanup(c, t), k))
                   /\ Keeps(c, Forget(MaybeCleanup(c, t), k))
                   /\ ~OverLimit(Forget(MaybeCleanup(c, t), k))
                   /\ k \notin Range(q)
<1> DEFINE d == MaybeCleanup(c, t)
           b == Forget(d, k)
<1>1. PICK r : Cleans(s, c, r, d, t)
  BY MaybeCleanupCleans
<1> HIDE DEF d
<1>2. PICK q : /\ Represents(q, b) /\ Keeps(d, b) /\ ~OverLimit(b)
               /\ Range(q) = Range(r) \ {k} /\ LeavesOrder(r, q)
  BY <1>1, ForgetLeaves DEF Cleans
<1> HIDE DEF b
<1> DEFINE D == Range(s) \ Range(r)
<1>3. Gone(s, c, D, t)
  BY <1>1 DEF Cleans, Gone
<1>4. q = Without(s, D \cup {k})
  <2> DEFINE F == D \cup {k}
  <2>1. LeavesOrder(s, q)
    BY <1>1, <1>2, OrderIsTransitive DEF Cleans
  <2>2. F \in SUBSET Key
    BY DEF Represents, Range
  <2>3. Range(s) \ Range(q) \subseteq F /\ Range(q) \cap F = {}
    BY <1>2
  <2>4. q \in Seq(Key)
    BY <1>2 DEF Represents
  <2> HIDE DEF F
  <2>5. q = Without(s, F)
    BY <2>1, <2>2, <2>3, <2>4, LeftIs
  <2> QED BY <2>5 DEF F
<1>5. Keeps(c, b)
  BY <1>1, <1>2 DEF Cleans, Keeps
<1>6. k \notin Range(q)
  BY <1>2
<1> HIDE DEF D
<1> QED BY <1>2, <1>3, <1>4, <1>5, <1>6 DEF b, d

\* A cleanup does not make a key found, or not found.
LEMMA HitIs ==
  ASSUME NEW s, NEW c, NEW t \in Nat, NEW k \in Key, Represents(s, c), ~OverLimit(c)
  PROVE  /\ Hit(MaybeCleanup(c, t), k, t) <=> (k \in Range(s) /\ ~IsExpired(c, k, t))
         /\ Hit(MaybeCleanup(c, t), k, t)
              => MaybeCleanup(c, t).nodesByKey[k] = c.nodesByKey[k]
<1> DEFINE d == MaybeCleanup(c, t)
<1>1. PICK r : Cleans(s, c, r, d, t)
  BY MaybeCleanupCleans
<1> HIDE DEF d
<1>2. /\ DOMAIN d.nodesByKey = Range(r) /\ Keeps(c, d) /\ Range(r) \subseteq Range(s)
      /\ \A j \in Range(s) \ Range(r) : IsExpired(c, j, t)
  BY <1>1 DEF Cleans, Represents
<1>3. k \in Range(r) => d.nodesByKey[k] = c.nodesByKey[k]
  BY <1>2 DEF Keeps
<1>4. Hit(d, k, t) <=> (k \in Range(r) /\ ~IsExpired(d, k, t))
  BY <1>2 DEF Hit, Has
<1>5. k \in Range(r) => (IsExpired(d, k, t) <=> IsExpired(c, k, t))
  BY <1>3 DEF IsExpired
<1> QED BY <1>2, <1>3, <1>4, <1>5 DEF d
LEMMA GetIs ==
  ASSUME NEW s, NEW c, NEW t \in Nat, NEW k \in Key, Represents(s, c), ~OverLimit(c)
  PROVE  \E D, q : /\ Gone(s, c, D, t)
                   /\ q = Without(s, D \cup {k})
                   /\ Represents(IF Hit(MaybeCleanup(c, t), k, t) THEN <<k>> \o q ELSE q,
                                 Get(c, k, t))
                   /\ Keeps(c, Get(c, k, t))
                   /\ ~OverLimit(Get(c, k, t))
<1> DEFINE d == MaybeCleanup(c, t)
<1>1. CASE ~Hit(d, k, t)
  <2>1. Get(c, k, t) = Forget(d, k)
    BY <1>1 DEF Get
  <2> QED BY <1>1, <2>1, RoomIs
<1>2. CASE Hit(d, k, t)
  <2> DEFINE b == MoveToHead(d, k)
  <2>1. Get(c, k, t) = b
    BY <1>2 DEF Get
  <2>2. PICK r : Cleans(s, c, r, d, t)
    BY MaybeCleanupCleans
  <2>3. Represents(r, d) /\ k \in Range(r)
    BY <1>2, <2>2 DEF Cleans, Represents, Hit, Has
  <2>4. r \in Seq(Key) /\ IsInjective(r) /\ DOMAIN r = 1..Len(r) /\ Len(r) \in Nat
    BY <2>3 DEF Represents
  <2>5. PICK i \in 1..Len(r) : r[i] = k
    BY <2>3, <2>4 DEF Range
  <2> DEFINE q == Cut(r, i)
             D == Range(s) \ Range(r)
             F == D \cup {k}
  <2>6. Represents(<<k>> \o q, b) /\ SameNodes(d, b)
    BY <2>3, <2>5, MoveRepresents
  <2>7. q \in Seq(Key) /\ Range(q) = Range(r) \ {k} /\ LeavesOrder(r, q)
    BY <2>4, <2>5, CutList, CutLeavesOrder
  <2> HIDE DEF q, b, d
  <2>8. LeavesOrder(s, q)
    BY <2>2, <2>7, OrderIsTransitive DEF Cleans
  <2>9. F \in SUBSET Key
    BY DEF Represents, Range
  <2>10. Range(s) \ Range(q) \subseteq F /\ Range(q) \cap F = {}
    BY <2>7
  <2>11. Gone(s, c, D, t)
    BY <2>2 DEF Cleans, Gone
  <2>12. q = Without(s, F)
    <3> HIDE DEF F
    <3> QED BY <2>7, <2>8, <2>9, <2>10, LeftIs
  <2>13. Keeps(c, b) /\ ~OverLimit(b)
    BY <2>2, <2>6 DEF Cleans, Keeps, SameNodes, OverLimit
  <2>14. Represents(IF Hit(d, k, t) THEN <<k>> \o q ELSE q, b)
    BY <1>2, <2>6
  <2> HIDE DEF D
  <2> QED BY <2>1, <2>11, <2>12, <2>13, <2>14 DEF d
<1> QED BY <1>1, <1>2

\* d, which is c with an entry for k, is the longest stretch that fits of k
\* and, after it, q.
Stores(q, c, k, entry, m, d) ==
  /\ m \in 0..Len(<<k>> \o q)
  /\ Represents(SubSeq(<<k>> \o q, 1, m), d)
  /\ \A j \in DOMAIN d.nodesByKey : /\ j \in Range(q) \cup {k}
                                    /\ d.nodesByKey[j] = With(c.nodesByKey, q, k, entry)[j]
  /\ Fitting(<<k>> \o q, With(c.nodesByKey, q, k, entry), m)
  /\ \A n \in (m + 1)..Len(<<k>> \o q) :
       ~Fitting(<<k>> \o q, With(c.nodesByKey, q, k, entry), n)

\* What set stores.
NewEntry(t, response, size) ==
  [expiresAt |-> t + Ttl, response |-> response, sizeBytes |-> size]

LEMMA SetIs ==
  ASSUME NEW s, NEW c, NEW t \in Nat, NEW k \in Key, Represents(s, c), ~OverLimit(c),
         NEW response \in Response, NEW size \in Sizes,
         NEW entry, entry = NewEntry(t, response, size)
  PROVE  \E D, q : /\ Gone(s, c, D, t)
                   /\ q = Without(s, D \cup {k})
                   /\ Range(q) \subseteq Range(s) /\ k \notin Range(q)
                   /\ q \in Seq(Key) /\ IsInjective(q)
                   /\ ~OverLimit(Set(c, k, response, size, t))
                   /\ IF size > MaxBytes
                      THEN /\ Represents(q, Set(c, k, response, size, t))
                           /\ Keeps(c, Set(c, k, response, size, t))
                      ELSE \E m : Stores(q, c, k, entry, m, Set(c, k, response, size, t))
<1> DEFINE room == Forget(MaybeCleanup(c, t), k)
           d == Set(c, k, response, size, t)
<1>1. PICK D, q : /\ Gone(s, c, D, t)
                  /\ q = Without(s, D \cup {k})
                  /\ Represents(q, room) /\ Keeps(c, room) /\ ~OverLimit(room)
                  /\ k \notin Range(q)
  BY RoomIs
<1>2. Range(q) \subseteq Range(s) /\ q \in Seq(Key) /\ IsInjective(q)
  BY <1>1 DEF Represents, Keeps
<1>3. CASE size > MaxBytes
  <2>1. d = room
    BY <1>3 DEF Set
  <2> HIDE DEF room, d
  <2>2. Represents(q, d) /\ Keeps(c, d) /\ ~OverLimit(d)
    BY <1>1, <2>1
  <2> QED BY <1>1, <1>2, <1>3, <2>2 DEF d
<1>4. CASE ~(size > MaxBytes)
  <2> DEFINE added == Put(room, k, entry)
             w == <<k>> \o q
             f == With(c.nodesByKey, q, k, entry)
  <2>1. d = EvictIfNeeded(added)
    <3>1. entry.sizeBytes = size
      BY DEF NewEntry
    <3> QED BY <1>4, <3>1 DEF Set, Put, NewEntry
  <2> HIDE DEF room, d
  <2>2. entry \in Entry
    BY CacheAssumption DEF Entry, NewEntry
  <2>3. /\ Represents(w, added)
        /\ added.nodesByKey = With(room.nodesByKey, q, k, entry)
    <3>1. Represents(q, room) /\ k \notin Range(q) /\ k \in Key /\ entry \in Entry
      BY <1>1, <2>2
    <3>2. Represents(w, added)
      BY <3>1, PutRepresents
    <3>3. added.nodesByKey = With(room.nodesByKey, q, k, entry)
      BY <3>1, PutRepresents
    <3> QED BY <3>2, <3>3
  <2>4. \A j \in Range(q) : room.nodesByKey[j] = c.nodesByKey[j]
    BY <1>1 DEF Represents, Keeps
  <2>5. added.nodesByKey = f
    BY <2>3, <2>4 DEF With
  <2> HIDE DEF added, w, f
  <2>6. PICK m : /\ Shrinks(w, added, m, d) /\ Fitting(w, added.nodesByKey, m) /\ ~OverLimit(d)
    BY <2>1, <2>3, EvictRepresents
  <2>7. DOMAIN f = Range(q) \cup {k}
    BY DEF f, With
  <2>8. \A j \in DOMAIN d.nodesByKey : j \in Range(q) \cup {k} /\ d.nodesByKey[j] = f[j]
    BY <2>5, <2>6, <2>7 DEF Shrinks, Keeps
  <2>9. Stores(q, c, k, entry, m, d)
    BY <2>5, <2>6, <2>8 DEF Stores, Shrinks, w, f
  <2> QED BY <1>1, <1>2, <1>4, <2>6, <2>9 DEF d
<1> QED BY <1>3, <1>4
-----------------------------------------------------------------------------
(* The list that the links make *)

\* The links `by` lead along s from `start`.
Links(s, by, start) ==
  start = At(s, 1) /\ \A i \in 1..Len(s) : by[s[i]] = At(s, i + 1)

LEMMA ChainIs ==
  ASSUME NEW s \in Seq(Key), NEW by, NEW start, Links(s, by, start),
         Len(s) = Cardinality(DOMAIN cache.nodesByKey)
  PROVE  Chain(by, start) = s
<1> DEFINE N == Cardinality(DOMAIN cache.nodesByKey)
           M == N + 1
           Next1(k) == IF k = Null THEN Null ELSE by[k]
           IsAt(g) == g = [n \in 0..N |-> IF n = 0 THEN start ELSE Next1(g[n - 1])]
           at == CHOOSE g : IsAt(g)
           h == [n \in 1..M |-> at[n - 1]]
           T == {n \in 0..N : at[n] = At(s, n + 1)}
<1>1. /\ N = Len(s) /\ N \in Nat /\ s \in [1..N -> Key] /\ M \in Nat /\ M = N + 1
      /\ start = At(s, 1) /\ \A i \in 1..N : by[s[i]] = At(s, i + 1)
  BY DEF Links
<1>2. Chain(by, start) = Without(h, {Null})
  BY DEF Chain
<1> HIDE DEF N
<1>3. \A n \in 1..N : At(s, n) = s[n] /\ s[n] # Null /\ Next1(At(s, n)) = At(s, n + 1)
  <2> TAKE n \in 1..N
  <2>1. At(s, n) = s[n] /\ s[n] \in Key
    BY <1>1 DEF At
  <2> QED BY <1>1, <2>1, CacheAssumption
<1>4. At(s, M) = Null
  BY <1>1 DEF At
<1> HIDE DEF Next1
<1>5. \E g : IsAt(g)
  <2> DEFINE g == [n \in 0..N |-> At(s, n + 1)]
  <2>1. \A n \in 0..N : g[n] = IF n = 0 THEN start ELSE Next1(g[n - 1])
    <3> TAKE n \in 0..N
    <3>1. CASE n = 0
      BY <1>1, <3>1
    <3>2. CASE n # 0
      <4>1. n \in 1..N /\ n - 1 \in 0..N /\ (n - 1) + 1 = n
        BY <1>1, <3>2
      <4>2. g[n - 1] = At(s, n) /\ g[n] = At(s, n + 1)
        BY <4>1
      <4> QED BY <1>3, <3>2, <4>1, <4>2
    <3> QED BY <3>1, <3>2
  <2>2. g = [n \in 0..N |-> g[n]]
    OBVIOUS
  <2> HIDE DEF g
  <2>3. g = [n \in 0..N |-> IF n = 0 THEN start ELSE Next1(g[n - 1])]
    BY <2>1, <2>2, Zenon
  <2> QED BY <2>3
<1>6. IsAt(at)
  <2> HIDE DEF IsAt
  <2> QED BY <1>5
<1> HIDE DEF at
<1>7. 0 \in T
  BY <1>1, <1>6
<1>8. ASSUME NEW n \in 0..(N - 1), n \in T PROVE n + 1 \in T
  <2>1. n + 1 \in 0..N /\ n + 1 \in 1..N /\ n + 1 # 0 /\ (n + 1) - 1 = n
    BY <1>1
  <2>2. at[n + 1] = Next1(at[n])
    BY <1>6, <2>1
  <2>3. at[n] = At(s, n + 1)
    BY <1>8
  <2> QED BY <1>3, <2>1, <2>2, <2>3
<1>9. \A n \in 0..N : n \in T
  <2> HIDE DEF T
  <2> QED BY <1>1, <1>7, <1>8, SetInduction
<1>10. \A n \in 1..M : h[n] = At(s, n)
  <2> TAKE n \in 1..M
  <2>1. n - 1 \in 0..N /\ (n - 1) + 1 = n
    BY <1>1
  <2> QED BY <1>9, <2>1
<1>11. \A n \in 1..M : h[n] \in Node
  <2> TAKE n \in 1..M
  <2>1. n \in 1..N \/ n = M
    BY <1>1
  <2>2. n \in 1..N => s[n] \in Key
    BY <1>1
  <2> QED BY <1>3, <1>4, <1>10, <2>1, <2>2 DEF Node
<1>12. h = [n \in 1..M |-> h[n]]
  OBVIOUS
<1> HIDE DEF h
<1>13. h \in [1..M -> Node]
  BY <1>11, <1>12
<1>14. \A n \in 1..N : n \in 1..M /\ n < M /\ s[n] = h[n]
  BY <1>1, <1>3, <1>10
<1>15. IsDropped(s, N, h, M, Node, M, {Null})
  <2>1. IsCut(s, N, h, M)
    BY <1>14 DEF IsCut
  <2>2. s \in [1..N -> Node] /\ M \in 1..M
    BY <1>1 DEF Node
  <2>3. h[M] \in {Null}
    BY <1>4, <1>10, <2>2
  <2> QED BY <1>1, <1>13, <2>1, <2>2, <2>3 DEF IsDropped
<1>16. Without(s, {Null}) = Without(h, {Null})
  BY <1>15, WithoutCut
<1>17. Without(s, {Null}) = s
  <2>1. \A n \in 1..N : s[n] \notin {Null}
    BY <1>3
  <2> QED BY <1>1, <2>1, WithoutNone
<1> QED BY <1>2, <1>16, <1>17

LEMMA ReverseIs ==
  ASSUME NEW s \in Seq(Key)
  PROVE  /\ Reverse(s) \in Seq(Key) /\ Len(Reverse(s)) = Len(s)
         /\ \A i \in 1..Len(s) : /\ Reverse(s)[i] = s[(Len(s) - i) + 1]
                                 /\ (Len(s) - i) + 1 \in 1..Len(s)
<1> DEFINE n == Len(s)
           r == Reverse(s)
<1>1. n \in Nat /\ s \in [1..n -> Key]
  OBVIOUS
<1>2. r = [i \in 1..n |-> s[(n - i) + 1]]
  BY DEF Reverse
<1> HIDE DEF n
<1>3. \A i \in 1..n : (n - i) + 1 \in 1..n
  BY <1>1
<1>4. r \in [1..n -> Key]
  BY <1>1, <1>2, <1>3
<1> HIDE DEF r
<1>5. r \in Seq(Key) /\ Len(r) = n
  BY <1>1, <1>4
<1> QED BY <1>2, <1>3, <1>5 DEF r, n

\* Read from either end, the links of a cache are its list.
LEMMA ByUseIs ==
  ASSUME NEW s, Represents(s, cache)
  PROVE  ByUse = s /\ Chain(cache.prev, cache.tail) = Reverse(s)
<1> DEFINE N == Len(s)
           r == Reverse(s)
<1>1. /\ s \in Seq(Key) /\ IsInjective(s) /\ N \in Nat
      /\ cache.head = At(s, 1) /\ cache.tail = At(s, N)
      /\ \A i \in 1..N : /\ cache.next[s[i]] = At(s, i + 1)
                         /\ cache.prev[s[i]] = At(s, i - 1)
  BY DEF Represents, IsList
<1>2. Cardinality(DOMAIN cache.nodesByKey) = N
  BY <1>1, ListSize DEF Represents
<1>3. ByUse = s
  <2>1. Links(s, cache.next, cache.head)
    BY <1>1 DEF Links
  <2> QED BY <1>1, <1>2, <2>1, ChainIs DEF ByUse
<1>4. /\ r \in Seq(Key) /\ Len(r) = N
      /\ \A i \in 1..N : r[i] = s[(N - i) + 1] /\ (N - i) + 1 \in 1..N
  BY <1>1, ReverseIs
<1> HIDE DEF r, N
<1>5. \A i \in Int : At(r, i) = At(s, (N - i) + 1)
  <2> TAKE i \in Int
  <2>1. CASE i \in 1..N
    BY <1>4, <2>1 DEF At, N
  <2>2. CASE i \notin 1..N
    <3>1. (N - i) + 1 \notin 1..N
      BY <1>1, <2>2
    <3> QED BY <1>4, <2>2, <3>1 DEF At, N
  <2> QED BY <2>1, <2>2
<1>6. Links(r, cache.prev, cache.tail)
  <2>1. cache.tail = At(r, 1)
    <3>1. (N - 1) + 1 = N
      BY <1>1
    <3> QED BY <1>1, <1>5, <3>1
  <2>2. ASSUME NEW i \in 1..N PROVE cache.prev[r[i]] = At(r, i + 1)
    <3> DEFINE j == (N - i) + 1
    <3>1. j \in 1..N /\ j - 1 = (N - (i + 1)) + 1 /\ i + 1 \in Int /\ r[i] = s[j]
      BY <1>1, <1>4
    <3> HIDE DEF j
    <3>2. cache.prev[s[j]] = At(s, j - 1)
      BY <1>1, <3>1
    <3> QED BY <1>5, <3>1, <3>2
  <2> QED BY <1>4, <2>1, <2>2 DEF Links
<1>7. Chain(cache.prev, cache.tail) = r
  BY <1>2, <1>4, <1>6, ChainIs
<1> QED BY <1>3, <1>7 DEF r
-----------------------------------------------------------------------------
(* The inductive invariant *)

\* No request waits for longer than its timeout.
RequestsAreInTime ==
  /\ now \in 0..MaxTime
  /\ wanted \in [Request -> Node]
  /\ sentAt \in [Request -> 0..MaxTime]
  /\ \A r \in Request : wanted[r] # Null => sentAt[r] <= now /\ now <= sentAt[r] + Timeout

CacheIsList == (\E s : Represents(s, cache)) /\ ~OverLimit(cache)

\* An entry expires no later than a timeout and a time to live after the origin
\* gave its answer, and no answer is from the future.
IsTimely(entry, t) ==
  /\ entry.response.asOf <= t
  /\ entry.expiresAt <= entry.response.asOf + Timeout + Ttl

EntriesAreTimely == \A k \in DOMAIN cache.nodesByKey : IsTimely(cache.nodesByKey[k], now)

AnswerIsRecent ==
  answer # Null => answer \in Response /\ now - answer.asOf < Ttl + Timeout

IInv == RequestsAreInTime /\ CacheIsList /\ EntriesAreTimely /\ AnswerIsRecent

LEMMA EmptyRepresents == Represents(<<>>, EmptyCache(0)) /\ ~OverLimit(EmptyCache(0))
<1> DEFINE c == EmptyCache(0)
           e == c.nodesByKey
           none == <<>>
           g == SizesOf(none, e)
<1>1. e \in [{} -> Entry] /\ DOMAIN e = {}
  BY DEF EmptyCache
<1>2. e \in Nodes
  <2> DEFINE D == {}
  <2>1. D \in SUBSET Key /\ e \in [D -> Entry]
    BY <1>1
  <2> HIDE DEF D, e
  <2> QED BY <2>1 DEF Nodes
<1>3. CleanupPeriod \in Nat
  BY CacheAssumption DEF CleanupPeriod
<1>4. c \in CacheType
  <2> HIDE DEF e
  <2>1. /\ c = [nodesByKey |-> e, head |-> Null, tail |-> Null,
                prev |-> [k \in Key |-> Null], next |-> [k \in Key |-> Null],
                totalBytes |-> 0, nextCleanupAt |-> 0 + CleanupPeriod]
    BY DEF EmptyCache, e
  <2> QED BY <1>2, <1>3, <2>1 DEF CacheType, Node
<1>5. none \in Seq(Key) /\ Len(none) = 0 /\ IsInjective(none) /\ Range(none) = {}
  BY DEF IsInjective, Range
<1>6. IsList(none, c)
  BY <1>5 DEF IsList, At, EmptyCache
<1>7. Total(g) = 0
  <2> DEFINE N == 0  zero == 0
  <2>1. g \in [1..N -> Int] /\ \A i \in 1..N : g[i] = zero
    BY <1>5 DEF SizesOf
  <2>2. N \in Nat /\ zero \in Int /\ N * zero = 0
    OBVIOUS
  <2> HIDE DEF N, zero, g
  <2> QED BY <2>1, <2>2, TotalConstant
<1>8. c.totalBytes = 0
  BY DEF EmptyCache
<1> HIDE DEF c
<1>9. Represents(none, c)
  BY <1>1, <1>4, <1>5, <1>6, <1>7, <1>8 DEF Represents
<1>10. ~OverLimit(c)
  BY <1>5, <1>8, <1>9, OverLimitOf, CacheAssumption
<1> QED BY <1>9, <1>10 DEF c

LEMMA InitIInv == Init => IInv
<1> SUFFICES ASSUME Init PROVE IInv
  OBVIOUS
<1>1. RequestsAreInTime
  BY SubscriptionAssumption DEF Init, RequestsAreInTime, Node
<1>2. CacheIsList
  BY EmptyRepresents DEF Init, CacheIsList
<1>3. EntriesAreTimely
  BY DEF Init, EntriesAreTimely, EmptyCache
<1>4. AnswerIsRecent
  BY DEF Init, AnswerIsRecent
<1> QED BY <1>1, <1>2, <1>3, <1>4 DEF IInv

\* What set does to the times of the entries.
LEMMA SetKeeps ==
  ASSUME NEW s, NEW c, NEW t \in Nat, NEW k \in Key, Represents(s, c), ~OverLimit(c),
         NEW response \in Response, NEW size \in Sizes
  PROVE  \A j \in DOMAIN Set(c, k, response, size, t).nodesByKey :
           LET d == Set(c, k, response, size, t)
           IN  \/ j = k /\ d.nodesByKey[j] = NewEntry(t, response, size)
               \/ j \in DOMAIN c.nodesByKey /\ d.nodesByKey[j] = c.nodesByKey[j]
<1> DEFINE d == Set(c, k, response, size, t)
           entry == NewEntry(t, response, size)
<1> HIDE DEF entry
<1>1. PICK D, q : /\ Range(q) \subseteq Range(s)
                  /\ IF size > MaxBytes THEN Keeps(c, d)
                     ELSE \E m : Stores(q, c, k, entry, m, d)
  BY SetIs DEF entry
<1>2. DOMAIN c.nodesByKey = Range(s)
  BY DEF Represents
<1> HIDE DEF d
<1>3. CASE size > MaxBytes
  BY <1>1, <1>3 DEF Keeps, d
<1>4. CASE ~(size > MaxBytes)
  <2>1. PICK m : Stores(q, c, k, entry, m, d)
    BY <1>1, <1>4
  <2>2. ASSUME NEW j \in DOMAIN d.nodesByKey
        PROVE  IF j = k THEN d.nodesByKey[j] = entry
               ELSE j \in DOMAIN c.nodesByKey /\ d.nodesByKey[j] = c.nodesByKey[j]
    <3>1. j \in Range(q) \cup {k} /\ d.nodesByKey[j] = With(c.nodesByKey, q, k, entry)[j]
      BY <2>1, <2>2 DEF Stores
    <3>2. With(c.nodesByKey, q, k, entry)[j] = IF j = k THEN entry ELSE c.nodesByKey[j]
      BY <3>1 DEF With
    <3> QED BY <1>1, <1>2, <3>1, <3>2
  <2> QED BY <2>2 DEF d, entry
<1> QED BY <1>3, <1>4

LEMMA SetRepresents ==
  ASSUME NEW s, NEW c, NEW t \in Nat, NEW k \in Key, Represents(s, c), ~OverLimit(c),
         NEW response \in Response, NEW size \in Sizes
  PROVE  /\ \E w : Represents(w, Set(c, k, response, size, t))
         /\ ~OverLimit(Set(c, k, response, size, t))
<1> DEFINE d == Set(c, k, response, size, t)
           entry == NewEntry(t, response, size)
<1> HIDE DEF entry
<1>1. PICK D, q : /\ ~OverLimit(d)
                  /\ IF size > MaxBytes THEN Represents(q, d)
                     ELSE \E m : Stores(q, c, k, entry, m, d)
  BY SetIs DEF entry
<1> HIDE DEF d
<1> QED BY <1>1 DEF Stores, d
LEMMA ArriveIInv ==
  ASSUME IInv, NEW r \in Request, NEW k \in Key, Arrive(r, k)
  PROVE  IInv'
<1> DEFINE d == Get(cache, k, now)
           m == MaybeCleanup(cache, now)
<1>1. PICK s : Represents(s, cache)
  BY DEF IInv, CacheIsList
<1>2. /\ now \in Nat /\ now \in 0..MaxTime /\ ~OverLimit(cache) /\ cache' = d /\ now' = now
      /\ Timeout \in Nat /\ Ttl \in Nat \ {0} /\ MaxTime \in Nat
  BY CacheAssumption, SubscriptionAssumption DEF IInv, RequestsAreInTime, CacheIsList, Arrive
<1>3. PICK D, q : /\ Represents(IF Hit(m, k, now) THEN <<k>> \o q ELSE q, d)
                  /\ Keeps(cache, d) /\ ~OverLimit(d)
  BY <1>1, <1>2, GetIs
<1>4. /\ Hit(m, k, now) <=> (k \in Range(s) /\ ~IsExpired(cache, k, now))
      /\ Hit(m, k, now) => m.nodesByKey[k] = cache.nodesByKey[k]
  BY <1>1, <1>2, HitIs
<1> HIDE DEF d, m
<1>5. RequestsAreInTime'
  <2>1. CASE Hit(m, k, now)
    <3>1. UNCHANGED <<wanted, sentAt, now>>
      BY <1>2, <2>1 DEF Arrive, m
    <3> QED BY <3>1 DEF IInv, RequestsAreInTime
  <2>2. CASE ~Hit(m, k, now)
    <3>1. wanted' = [wanted EXCEPT ![r] = k] /\ sentAt' = [sentAt EXCEPT ![r] = now] /\ now' = now
      BY <1>2, <2>2 DEF Arrive, m
    <3> QED BY <1>2, <3>1 DEF IInv, RequestsAreInTime, Node
  <2> QED BY <2>1, <2>2
<1>6. CacheIsList'
  BY <1>2, <1>3 DEF CacheIsList
<1>7. EntriesAreTimely'
  BY <1>2, <1>3 DEF IInv, EntriesAreTimely, Keeps
<1>8. AnswerIsRecent'
  <2>1. CASE Hit(m, k, now)
    <3> DEFINE entry == cache.nodesByKey[k]
    <3>1. answer' = entry.response
      BY <1>4, <2>1 DEF Arrive, m
    <3>2. k \in DOMAIN cache.nodesByKey /\ entry \in Entry
      BY <1>1, <1>4, <2>1, NodesType DEF Represents
    <3>3. now < entry.expiresAt
      BY <1>2, <1>4, <2>1, <3>2 DEF IsExpired, Entry
    <3>4. IsTimely(entry, now)
      BY <3>2 DEF IInv, EntriesAreTimely
    <3>5. entry.response \in Response /\ entry.expiresAt \in Nat
      BY <3>2 DEF Entry
    <3>6. entry.response.asOf \in Nat
      BY <1>2, <3>5 DEF Response
    <3> HIDE DEF entry
    <3>7. now - entry.response.asOf < Ttl + Timeout
      <4> DEFINE a == entry.response.asOf  x == entry.expiresAt
      <4>1. a \in Nat /\ x \in Nat /\ now < x /\ x <= a + Timeout + Ttl
        BY <3>3, <3>4, <3>5, <3>6 DEF IsTimely
      <4> HIDE DEF a, x
      <4>2. now - a < Ttl + Timeout
        BY <1>2, <4>1
      <4> QED BY <4>2 DEF a
    <3> QED BY <1>2, <3>1, <3>5, <3>7 DEF AnswerIsRecent
  <2>2. CASE ~Hit(m, k, now)
    BY <2>2 DEF Arrive, AnswerIsRecent, m
  <2> QED BY <2>1, <2>2
<1> QED BY <1>5, <1>6, <1>7, <1>8 DEF IInv

\* The answer that a request stores is one that it can have.
LEMMA StoredIsTimely ==
  ASSUME IInv, NEW r \in Request, wanted[r] # Null, NEW asOf \in sentAt[r]..now,
         NEW text \in Texts, NEW more \in Growth
  PROVE  /\ wanted[r] \in Key /\ now \in Nat
         /\ [asOf |-> asOf, text |-> text] \in Response
         /\ Len(text) + more \in Sizes
         /\ now - Timeout <= asOf /\ asOf <= now
         /\ IsTimely(NewEntry(now, [asOf |-> asOf, text |-> text], Len(text) + more), now)
<1>1. /\ now \in 0..MaxTime /\ MaxTime \in Nat /\ wanted[r] \in Key /\ sentAt[r] \in 0..MaxTime
      /\ sentAt[r] <= now /\ now <= sentAt[r] + Timeout /\ Timeout \in Nat /\ Ttl \in Nat
  BY CacheAssumption, SubscriptionAssumption DEF IInv, RequestsAreInTime, Node
<1>2. asOf \in 0..MaxTime /\ asOf <= now /\ now <= asOf + Timeout
  BY <1>1
<1>3. [asOf |-> asOf, text |-> text] \in Response
  BY <1>2 DEF Response
<1>4. Len(text) + more \in Sizes
  BY DEF Sizes
<1>5. IsTimely(NewEntry(now, [asOf |-> asOf, text |-> text], Len(text) + more), now)
  BY <1>1, <1>2 DEF IsTimely, NewEntry
<1> QED BY <1>1, <1>2, <1>3, <1>4, <1>5

LEMMA FinishInTime ==
  ASSUME RequestsAreInTime, NEW r \in Request, Finish(r)
  PROVE  RequestsAreInTime' /\ AnswerIsRecent'
<1>1. /\ wanted' = [wanted EXCEPT ![r] = Null] /\ sentAt' = [sentAt EXCEPT ![r] = 0]
      /\ now' = now /\ answer' = Null /\ MaxTime \in Nat
  BY SubscriptionAssumption DEF Finish
<1> QED BY <1>1 DEF RequestsAreInTime, AnswerIsRecent, Node

LEMMA SucceedIInv ==
  ASSUME IInv, NEW r \in Request, Succeed(r)
  PROVE  IInv'
<1>1. PICK s : Represents(s, cache)
  BY DEF IInv, CacheIsList
<1> DEFINE k == wanted[r]
<1>2. PICK asOf \in sentAt[r]..now, text \in Texts, more \in Growth :
        cache' = Set(cache, k, [asOf |-> asOf, text |-> text], Len(text) + more, now)
  BY DEF Succeed
<1> DEFINE response == [asOf |-> asOf, text |-> text]
           size == Len(text) + more
           d == Set(cache, k, response, size, now)
<1>3. /\ k \in Key /\ now \in Nat /\ response \in Response /\ size \in Sizes
      /\ IsTimely(NewEntry(now, response, size), now)
      /\ ~OverLimit(cache)
  BY StoredIsTimely DEF Succeed, IInv, CacheIsList
<1>4. cache' = d /\ now' = now /\ Finish(r)
  BY <1>2 DEF Succeed, Finish
<1> HIDE DEF k, response, size
<1>5. (\E w : Represents(w, d)) /\ ~OverLimit(d)
  BY <1>1, <1>3, SetRepresents
<1>6. \A j \in DOMAIN d.nodesByKey :
        \/ j = k /\ d.nodesByKey[j] = NewEntry(now, response, size)
        \/ j \in DOMAIN cache.nodesByKey /\ d.nodesByKey[j] = cache.nodesByKey[j]
  BY <1>1, <1>3, SetKeeps
<1> HIDE DEF d
<1>7. CacheIsList'
  BY <1>4, <1>5 DEF CacheIsList
<1>8. EntriesAreTimely'
  BY <1>3, <1>4, <1>6 DEF IInv, EntriesAreTimely
<1>9. RequestsAreInTime' /\ AnswerIsRecent'
  BY <1>4, FinishInTime DEF IInv
<1> QED BY <1>7, <1>8, <1>9 DEF IInv

LEMMA FailIInv ==
  ASSUME IInv, NEW r \in Request, Fail(r)
  PROVE  IInv'
<1>1. Finish(r) /\ cache' = cache /\ now' = now
  BY DEF Fail, Finish
<1>2. RequestsAreInTime' /\ AnswerIsRecent'
  BY <1>1, FinishInTime DEF IInv
<1>3. CacheIsList' /\ EntriesAreTimely'
  BY <1>1 DEF IInv, CacheIsList, EntriesAreTimely
<1> QED BY <1>2, <1>3 DEF IInv

LEMMA TickIInv ==
  ASSUME IInv, Tick
  PROVE  IInv'
<1>1. /\ now < MaxTime /\ now' = now + 1 /\ now \in 0..MaxTime /\ MaxTime \in Nat
      /\ Timeout \in Nat /\ answer' = Null /\ cache' = cache /\ wanted' = wanted /\ sentAt' = sentAt
  BY SubscriptionAssumption DEF Tick, IInv, RequestsAreInTime
<1>2. RequestsAreInTime'
  <2>1. now' \in 0..MaxTime /\ wanted' \in [Request -> Node] /\ sentAt' \in [Request -> 0..MaxTime]
    BY <1>1 DEF IInv, RequestsAreInTime
  <2>2. ASSUME NEW r \in Request, wanted'[r] # Null
        PROVE  sentAt'[r] <= now' /\ now' <= sentAt'[r] + Timeout
    <3>1. now < sentAt[r] + Timeout /\ sentAt[r] <= now /\ sentAt[r] \in 0..MaxTime
      BY <1>1, <2>2 DEF Tick, InTime, IInv, RequestsAreInTime
    <3> QED BY <1>1, <3>1
  <2> QED BY <2>1, <2>2 DEF RequestsAreInTime
<1>3. CacheIsList'
  BY <1>1 DEF IInv, CacheIsList
<1>4. EntriesAreTimely'
  <2>1. PICK s : Represents(s, cache)
    BY DEF IInv, CacheIsList
  <2>2. ASSUME NEW k \in DOMAIN cache.nodesByKey PROVE IsTimely(cache.nodesByKey[k], now + 1)
    <3> DEFINE entry == cache.nodesByKey[k]
    <3>1. IsTimely(entry, now) /\ entry \in Entry
      BY <2>1, NodesType DEF IInv, EntriesAreTimely, Represents
    <3> HIDE DEF entry
    <3>2. entry.response.asOf \in Nat
      BY <1>1, <3>1 DEF Entry, Response
    <3>3. IsTimely(entry, now + 1)
      BY <1>1, <3>1, <3>2 DEF IsTimely
    <3> QED BY <3>3 DEF entry
  <2> QED BY <1>1, <2>2 DEF EntriesAreTimely
<1>5. AnswerIsRecent'
  BY <1>1 DEF AnswerIsRecent
<1> QED BY <1>2, <1>3, <1>4, <1>5 DEF IInv

LEMMA StepIInv == IInv /\ [Next]_vars => IInv'
<1> SUFFICES ASSUME IInv, [Next]_vars PROVE IInv'
  OBVIOUS
<1>1. CASE \E r \in Request, k \in Key : Arrive(r, k)
  BY <1>1, ArriveIInv
<1>2. CASE \E r \in Request : Succeed(r)
  BY <1>2, SucceedIInv
<1>3. CASE \E r \in Request : Fail(r)
  BY <1>3, FailIInv
<1>4. CASE Tick
  BY <1>4, TickIInv
<1>5. CASE UNCHANGED vars
  BY <1>5 DEF vars, IInv, RequestsAreInTime, CacheIsList, EntriesAreTimely, AnswerIsRecent
<1> QED BY <1>1, <1>2, <1>3, <1>4, <1>5 DEF Next

-----------------------------------------------------------------------------
(* The theorems *)

\* The invariant that the properties follow from: the pointers, the map and
\* the counter of cache.ts:58-236 are always those of some list of keys.
THEOREM IInvAlways == Spec => []IInv
<1>1. Init => IInv
  BY InitIInv
<1>2. IInv /\ [Next]_vars => IInv'
  BY StepIInv
<1> QED BY <1>1, <1>2, PTL DEF Spec

LEMMA TypesFollow == IInv => TypeOK
<1> SUFFICES ASSUME IInv PROVE TypeOK
  OBVIOUS
<1>1. PICK s : Represents(s, cache)
  BY DEF IInv, CacheIsList
<1>2. /\ cache \in CacheType /\ ~(cache.totalBytes > MaxBytes)
      /\ MaxBytes \in Nat
  BY <1>1, CacheAssumption DEF IInv, CacheIsList, OverLimit, Represents
<1>3. /\ DOMAIN cache.nodesByKey \subseteq Key
      /\ \A k \in DOMAIN cache.nodesByKey : cache.nodesByKey[k] \in Entry
  BY <1>2, NodesType
<1>4. /\ {cache.head, cache.tail} \subseteq Key \cup {Null}
      /\ cache.prev \in [Key -> Key \cup {Null}]
      /\ cache.next \in [Key -> Key \cup {Null}]
      /\ cache.nextCleanupAt \in Nat
  BY <1>2 DEF CacheType, Node
<1>5. cache.totalBytes \in 0..MaxBytes
  BY <1>2 DEF CacheType
<1>6. /\ now \in 0..MaxTime
      /\ wanted \in [Request -> Key \cup {Null}]
      /\ sentAt \in [Request -> 0..MaxTime]
      /\ answer \in Response \cup {Null}
  BY DEF IInv, RequestsAreInTime, AnswerIsRecent, Node
<1> QED BY <1>3, <1>4, <1>5, <1>6 DEF TypeOK, Entry

\* The fields of the cache, its requests and the answers it serves have the
\* types that cache.ts:59-67 declares, and the counter stays within the limit.
THEOREM TypesCorrect == Spec => []TypeOK
BY IInvAlways, TypesFollow, PTL

LEMMA ListFollows == IInv => ListIsSound
<1> SUFFICES ASSUME IInv PROVE ListIsSound
  OBVIOUS
<1>1. PICK s : Represents(s, cache)
  BY DEF IInv, CacheIsList
<1>2. ByUse = s /\ Chain(cache.prev, cache.tail) = Reverse(s)
  BY <1>1, ByUseIs
<1>3. s \in Seq(Key) /\ IsInjective(s) /\ DOMAIN cache.nodesByKey = Range(s)
  BY <1>1 DEF Represents
<1>4. ToSet(s) = Range(s)
  BY <1>3 DEF ToSet, Range
<1> QED BY <1>2, <1>3, <1>4 DEF ListIsSound

\* detach, insertAtHead, moveToHead and removeNode (cache.ts:188-236) keep the
\* map and the two directions of the list in step, whatever the order of hits,
\* overwrites, expiries and evictions.
THEOREM ListAlwaysSound == Spec => []ListIsSound
BY IInvAlways, ListFollows, PTL

LEMMA BytesFollow == IInv => BytesAreExact
<1> SUFFICES ASSUME IInv PROVE BytesAreExact
  OBVIOUS
<1>1. PICK s : Represents(s, cache)
  BY DEF IInv, CacheIsList
<1>2. ByUse = s
  BY <1>1, ByUseIs
<1>3. BytesHeld = Total(SizesOf(s, cache.nodesByKey))
  BY <1>2 DEF BytesHeld, SizesOf
<1> QED BY <1>1, <1>3 DEF Represents, BytesAreExact

\* totalBytes, which set and removeNode keep by hand (cache.ts:142 and
\* 212-216), never drifts from the bytes of the entries held.
THEOREM BytesAlwaysExact == Spec => []BytesAreExact
BY IInvAlways, BytesFollow, PTL

LEMMA WholeFollows == IInv => CachedAreWhole
<1> SUFFICES ASSUME IInv, NEW k \in DOMAIN cache.nodesByKey
             PROVE  LET text == cache.nodesByKey[k].response.text
                    IN  /\ Len(text) <= MaxResponseSize
                        /\ \E body \in Bodies : text = FlattenSeq(body.chunks)
  BY DEF CachedAreWhole
<1> DEFINE text == cache.nodesByKey[k].response.text
<1>1. PICK s : Represents(s, cache)
  BY DEF IInv, CacheIsList
<1>2. cache.nodesByKey[k] \in Entry
  BY <1>1, NodesType DEF Represents
<1>3. text \in Texts
  BY <1>2 DEF Entry, Response
<1> HIDE DEF text
<1>4. PICK body \in Bodies : IsRead(body) /\ text = Text(body)
  BY <1>3 DEF Texts
<1>5. Len(Text(body)) <= MaxResponseSize /\ Text(body) = FlattenSeq(body.chunks)
  BY <1>4, BodyIsWhole
<1>6. Len(text) <= MaxResponseSize /\ \E b \in Bodies : text = FlattenSeq(b.chunks)
  BY <1>4, <1>5
<1> QED BY <1>6 DEF text

\* For every set of bodies, chunked in any way and declaring any length: what
\* readResponseBodyWithLimit (proxy.ts:167-233) returns, and so what the cache
\* holds, is the whole body and within the limit.
THEOREM CachedAlwaysWhole == Spec => []CachedAreWhole
BY IInvAlways, WholeFollows, PTL

\* What is served has been given by the origin less than the time to live and
\* the timeout ago (cache.ts:81-99, index.ts:142-160).
THEOREM ServedAlwaysRecent == Spec => []ServedIsRecent
<1>1. IInv => ServedIsRecent
  BY DEF IInv, AnswerIsRecent, ServedIsRecent
<1> QED BY <1>1, IInvAlways, PTL

\* No set puts an answer in place of one that is newer by more than the
\* timeout, however the answers of requests that missed together are ordered.
LEMMA StepGoesBackLittle ==
  ASSUME IInv, [Next]_vars, NEW k \in DOMAIN cache.nodesByKey \cap DOMAIN cache'.nodesByKey
  PROVE  cache'.nodesByKey[k].response.asOf >= cache.nodesByKey[k].response.asOf - Timeout
<1> DEFINE old == cache.nodesByKey[k].response.asOf
           new == cache'.nodesByKey[k].response.asOf
<1>1. PICK s : Represents(s, cache)
  BY DEF IInv, CacheIsList
<1>2. /\ now \in Nat /\ Timeout \in Nat /\ ~OverLimit(cache) /\ MaxTime \in Nat
  BY SubscriptionAssumption DEF IInv, RequestsAreInTime, CacheIsList
<1>3. old \in Nat /\ old <= now
  <2>1. cache.nodesByKey[k] \in Entry /\ IsTimely(cache.nodesByKey[k], now)
    BY <1>1, NodesType DEF IInv, EntriesAreTimely, Represents
  <2> QED BY <1>2, <2>1 DEF IsTimely, Entry, Response
<1>4. ASSUME cache'.nodesByKey[k] = cache.nodesByKey[k] PROVE new >= old - Timeout
  <2>1. new = old
    BY <1>4
  <2> HIDE DEF new, old
  <2> QED BY <1>2, <1>3, <2>1
<1>5. CASE \E r \in Request, j \in Key : Arrive(r, j)
  <2>1. PICK r \in Request, j \in Key : cache' = Get(cache, j, now)
    BY <1>5 DEF Arrive
  <2>2. Keeps(cache, Get(cache, j, now))
    BY <1>1, <1>2, GetIs
  <2> QED BY <1>4, <2>1, <2>2 DEF Keeps
<1>6. CASE \E r \in Request : Succeed(r)
  <2>1. PICK r \in Request : Succeed(r)
    BY <1>6
  <2>2. PICK asOf \in sentAt[r]..now, text \in Texts, more \in Growth :
          cache' = Set(cache, wanted[r], [asOf |-> asOf, text |-> text], Len(text) + more, now)
    BY <2>1 DEF Succeed
  <2> DEFINE response == [asOf |-> asOf, text |-> text]
             size == Len(text) + more
             j == wanted[r]
  <2>3. /\ j \in Key /\ response \in Response /\ size \in Sizes
        /\ now - Timeout <= asOf
    BY <2>1, StoredIsTimely DEF Succeed
  <2>4. cache' = Set(cache, j, response, size, now) /\ response.asOf = asOf
    BY <2>2
  <2> HIDE DEF response, size, j
  <2>5. \/ k = j /\ cache'.nodesByKey[k] = NewEntry(now, response, size)
        \/ cache'.nodesByKey[k] = cache.nodesByKey[k]
    BY <1>1, <1>2, <2>3, <2>4, SetKeeps
  <2>6. CASE cache'.nodesByKey[k] = NewEntry(now, response, size)
    <3>1. new = asOf
      BY <2>4, <2>6 DEF NewEntry
    <3>2. asOf \in Int
      OBVIOUS
    <3> HIDE DEF new, old
    <3>3. new >= old - Timeout
      BY <1>2, <1>3, <2>3, <3>1, <3>2
    <3> QED BY <3>3 DEF new, old
  <2> QED BY <1>4, <2>5, <2>6
<1>7. CASE UNCHANGED cache
  BY <1>4, <1>7
<1> QED BY <1>5, <1>6, <1>7 DEF Next, Fail, Tick, vars

\* The order in which requests that missed together answer matters by no more
\* than the timeout of one of them.
THEOREM NeverLongBack == Spec => NoLongStepBack
<1> DEFINE A == \A k \in DOMAIN cache.nodesByKey \cap DOMAIN cache'.nodesByKey :
                  cache'.nodesByKey[k].response.asOf
                    >= cache.nodesByKey[k].response.asOf - Timeout
<1>1. IInv /\ [Next]_vars => [A]_vars
  BY StepGoesBackLittle
<1> HIDE DEF A
<1>2. Spec => [][A]_vars
  BY <1>1, IInvAlways, PTL DEF Spec
<1> QED BY <1>2 DEF NoLongStepBack, A
-----------------------------------------------------------------------------
(* The refinement *)

LEMMA LruOperators ==
  /\ \A s, D : Lru!Without(s, D) = Without(s, D)
  /\ \A h : Lru!Total(h) = Total(h)
  /\ \A s, e, n : Lru!Fits(s, e, n) <=> Fitting(s, e, n)
<1>1. \A s, D : Lru!PartsWithout(s, D) = PartsWithout(s, D)
  BY DEF Lru!PartsWithout, PartsWithout
<1>2. \A h : Lru!PartialSums(h) = PartialSums(h)
  BY DEF Lru!PartialSums, PartialSums
<1>3. \A h : Lru!Total(h) = Total(h)
  BY <1>2 DEF Lru!Total, Total
<1>4. \A s, e, n : Lru!Fits(s, e, n) <=> Fitting(s, e, n)
  BY <1>3 DEF Lru!Fits, Lru!BytesOf, Fitting
<1> QED BY <1>1, <1>3, <1>4 DEF Lru!Without, Without
ListIsByUse == \A s : Represents(s, cache) => ByUse = s

LEMMA ListIsByUseNow == ListIsByUse
BY ByUseIs DEF ListIsByUse

LEMMA ListIsByUseThen == ListIsByUse'
BY ListIsByUseNow, PTL

LEMMA InitLru == Init => Lru!Init
<1> SUFFICES ASSUME Init PROVE Lru!Init
  OBVIOUS
<1>1. cache = EmptyCache(0) /\ now = 0 /\ answer = Null
  BY DEF Init
<1>2. Represents(<<>>, cache)
  BY <1>1, EmptyRepresents
<1>3. ByUse = <<>>
  BY <1>2, ListIsByUseNow DEF ListIsByUse
<1>4. cache.nodesByKey = [k \in {} |-> 0]
  BY <1>1 DEF EmptyCache
<1> QED BY <1>1, <1>3, <1>4 DEF Lru!Init

LEMMA MaxIs ==
  ASSUME NEW S \in SUBSET Int, NEW m \in S, \A x \in S : x <= m
  PROVE  Lru!Max(S) = m
<1>1. \A y \in S : m >= y
  OBVIOUS
<1>2. Lru!Max(S) \in S /\ \A y \in S : Lru!Max(S) >= y
  BY <1>1 DEF Lru!Max
<1>3. PICK x \in S : x = Lru!Max(S)
  BY <1>2
<1>4. x \in Int /\ m \in Int /\ x >= m /\ x <= m
  BY <1>2, <1>3
<1> QED BY <1>3, <1>4

\* The longest stretch that fits is the one that the eviction leaves.
LEMMA LongestIs ==
  ASSUME NEW w \in Seq(Key), NEW e, NEW f, NEW m \in 0..Len(w), Fitting(w, f, m),
         \A n \in (m + 1)..Len(w) : ~Fitting(w, f, n),
         \A j \in Range(w) : e[j] = f[j]
  PROVE  Lru!LongestFitting(w, e) = SubSeq(w, 1, m)
<1>1. \A n \in 0..Len(w) : Fitting(w, e, n) <=> Fitting(w, f, n)
  <2> TAKE n \in 0..Len(w)
  <2>1. \A i \in 1..n : w[i] \in Range(w)
    BY DEF Range
  <2>2. [i \in 1..n |-> e[w[i]].sizeBytes] = [i \in 1..n |-> f[w[i]].sizeBytes]
    BY <2>1
  <2> QED BY <2>2 DEF Fitting
<1> DEFINE S == {n \in 0..Len(w) : Lru!Fits(w, e, n)}
<1>2. S \in SUBSET Int /\ m \in S
  BY <1>1, LruOperators
<1>3. \A x \in S : x <= m
  <2> SUFFICES ASSUME NEW x \in 0..Len(w), Fitting(w, f, x), x > m PROVE FALSE
    BY <1>1, LruOperators
  <2>1. x \in (m + 1)..Len(w)
    OBVIOUS
  <2> QED BY <2>1
<1>4. Lru!LongestFitting(w, e) = SubSeq(w, 1, Lru!Max(S))
  BY DEF Lru!LongestFitting
<1> HIDE DEF S
<1>5. Lru!Max(S) = m
  BY <1>2, <1>3, MaxIs
<1> QED BY <1>4, <1>5

\* recent and entry become w and its entries in e.
LEMMA BecomesIs ==
  ASSUME NEW w, NEW e, Represents(w, cache'),
         \A j \in DOMAIN cache'.nodesByKey : cache'.nodesByKey[j] = e[j]
  PROVE  Lru!Becomes(w, e)
<1>1. ByUse' = w
  BY ListIsByUseThen DEF ListIsByUse
<1>2. /\ DOMAIN cache'.nodesByKey = Range(w) /\ w \in Seq(Key)
      /\ cache'.nodesByKey \in [DOMAIN cache'.nodesByKey -> Entry]
  BY NodesType DEF Represents
<1>3. Lru!ToSet(w) = Range(w)
  BY <1>2 DEF Lru!ToSet, Range
<1>4. cache'.nodesByKey = [j \in Range(w) |-> e[j]]
  BY <1>2
<1> QED BY <1>1, <1>3, <1>4 DEF Lru!Becomes

LEMMA GoneAreExpired ==
  ASSUME NEW s, Represents(s, cache), NEW D
  PROVE  /\ Gone(s, cache, D, now) <=> D \in SUBSET Lru!Expired
         /\ \A k : k \in Lru!ToSet(ByUse) \ Lru!Expired
                     <=> (k \in Range(s) /\ ~IsExpired(cache, k, now))
<1>1. ByUse = s /\ s \in Seq(Key)
  BY ListIsByUseNow DEF ListIsByUse, Represents
<1>2. Lru!ToSet(ByUse) = Range(s)
  BY <1>1 DEF Lru!ToSet, Range
<1>3. Lru!Expired = {k \in Range(s) : IsExpired(cache, k, now)}
  BY <1>2 DEF Lru!Expired, IsExpired
<1> QED BY <1>2, <1>3 DEF Gone

LEMMA ArriveLooksUp ==
  ASSUME IInv, NEW r \in Request, NEW k \in Key, Arrive(r, k)
  PROVE  Lru!Lookup(k)
<1> DEFINE d == Get(cache, k, now)
           m == MaybeCleanup(cache, now)
           found == k \in Lru!ToSet(ByUse) \ Lru!Expired
<1>1. PICK s : Represents(s, cache)
  BY DEF IInv, CacheIsList
<1>2. now \in Nat /\ ~OverLimit(cache) /\ cache' = d /\ now' = now /\ ByUse = s
  BY <1>1, ListIsByUseNow, SubscriptionAssumption
     DEF IInv, RequestsAreInTime, CacheIsList, Arrive, ListIsByUse
<1>3. PICK D, q : /\ Gone(s, cache, D, now)
                  /\ q = Without(s, D \cup {k})
                  /\ Represents(IF Hit(m, k, now) THEN <<k>> \o q ELSE q, d)
                  /\ Keeps(cache, d)
  BY <1>1, <1>2, GetIs
<1>4. /\ Hit(m, k, now) <=> found
      /\ Hit(m, k, now) => m.nodesByKey[k] = cache.nodesByKey[k]
  BY <1>1, <1>2, HitIs, GoneAreExpired
<1>5. D \in SUBSET Lru!Expired
  BY <1>1, <1>3, GoneAreExpired
<1>6. answer' = IF found THEN cache.nodesByKey[k].response ELSE Null
  BY <1>4 DEF Arrive
<1> HIDE DEF d, m, found
<1>7. Lru!Becomes(IF found THEN <<k>> \o q ELSE q, cache.nodesByKey)
  <2> DEFINE w == IF found THEN <<k>> \o q ELSE q
  <2>1. Represents(w, cache')
    BY <1>2, <1>3, <1>4
  <2>2. \A j \in DOMAIN cache'.nodesByKey : cache'.nodesByKey[j] = cache.nodesByKey[j]
    BY <1>2, <1>3 DEF Keeps
  <2> HIDE DEF w
  <2>3. Lru!Becomes(w, cache.nodesByKey)
    BY <2>1, <2>2, BecomesIs
  <2> QED BY <2>3 DEF w
<1>8. q = Lru!Without(ByUse, D \cup {k})
  BY <1>2, <1>3, LruOperators
<1> QED BY <1>2, <1>5, <1>6, <1>7, <1>8 DEF Lru!Lookup, found

LEMMA SucceedStores ==
  ASSUME IInv, NEW r \in Request, Succeed(r)
  PROVE  \E k \in Key, response \in Response, size \in Sizes : Lru!Store(k, response, size)
<1>1. PICK s : Represents(s, cache)
  BY DEF IInv, CacheIsList
<1> DEFINE k == wanted[r]
<1>2. PICK asOf \in sentAt[r]..now, text \in Texts, more \in Growth :
        cache' = Set(cache, k, [asOf |-> asOf, text |-> text], Len(text) + more, now)
  BY DEF Succeed
<1> DEFINE response == [asOf |-> asOf, text |-> text]
           size == Len(text) + more
           d == Set(cache, k, response, size, now)
           entry == NewEntry(now, response, size)
<1>3. /\ k \in Key /\ now \in Nat /\ response \in Response /\ size \in Sizes
      /\ ~OverLimit(cache)
  BY StoredIsTimely DEF Succeed, IInv, CacheIsList
<1>4. cache' = d /\ now' = now /\ answer' = Null /\ ByUse = s
  BY <1>1, <1>2, ListIsByUseNow DEF Succeed, Finish, ListIsByUse
<1> HIDE DEF k, response, size, entry
<1>5. PICK D, q : /\ Gone(s, cache, D, now)
                  /\ q = Without(s, D \cup {k})
                  /\ Range(q) \subseteq Range(s) /\ k \notin Range(q)
                  /\ q \in Seq(Key) /\ IsInjective(q)
                  /\ IF size > MaxBytes THEN Represents(q, d) /\ Keeps(cache, d)
                     ELSE \E m : Stores(q, cache, k, entry, m, d)
  BY <1>1, <1>3, SetIs DEF entry
<1> HIDE DEF d
<1> DEFINE e == [j \in Lru!ToSet(ByUse) \cup {k} |-> IF j = k THEN entry ELSE cache.nodesByKey[j]]
           w == <<k>> \o q
<1>6. \A j \in Range(s) \cup {k} : e[j] = IF j = k THEN entry ELSE cache.nodesByKey[j]
  <2>1. Lru!ToSet(ByUse) = Range(s)
    BY <1>1, <1>4 DEF Lru!ToSet, Range, Represents
  <2> QED BY <2>1
<1> HIDE DEF e
<1>7. Lru!Becomes(IF size > MaxBytes THEN q ELSE Lru!LongestFitting(w, e), e)
  <2>1. CASE size > MaxBytes
    <3>1. Represents(q, cache') /\ Keeps(cache, cache')
      BY <1>4, <1>5, <2>1
    <3>2. DOMAIN cache'.nodesByKey = Range(q)
      BY <3>1 DEF Represents
    <3>3. \A j \in DOMAIN cache'.nodesByKey : cache'.nodesByKey[j] = e[j]
      BY <1>5, <1>6, <3>1, <3>2 DEF Keeps
    <3>4. Lru!Becomes(q, e)
      BY <3>1, <3>3, BecomesIs
    <3> QED BY <2>1, <3>4
  <2>2. CASE ~(size > MaxBytes)
    <3> DEFINE f == With(cache.nodesByKey, q, k, entry)
    <3>1. PICK m : Stores(q, cache, k, entry, m, cache')
      BY <1>4, <1>5, <2>2
    <3>2. /\ m \in 0..Len(w) /\ Represents(SubSeq(w, 1, m), cache')
          /\ \A j \in DOMAIN cache'.nodesByKey :
               j \in Range(q) \cup {k} /\ cache'.nodesByKey[j] = f[j]
          /\ Fitting(w, f, m)
          /\ \A n \in (m + 1)..Len(w) : ~Fitting(w, f, n)
      BY <3>1 DEF Stores
    <3>3. \A j \in Range(q) \cup {k} : e[j] = f[j]
      BY <1>5, <1>6 DEF With
    <3>4. w \in Seq(Key) /\ Range(w) = Range(q) \cup {k}
      BY <1>3, <1>5, PrependList
    <3> HIDE DEF f, w
    <3>5. Lru!LongestFitting(w, e) = SubSeq(w, 1, m)
      BY <3>2, <3>3, <3>4, LongestIs
    <3>6. \A j \in DOMAIN cache'.nodesByKey : cache'.nodesByKey[j] = e[j]
      BY <3>2, <3>3
    <3>7. Lru!Becomes(SubSeq(w, 1, m), e)
      BY <3>2, <3>6, BecomesIs
    <3> QED BY <2>2, <3>5, <3>7
  <2> QED BY <2>1, <2>2
<1>8. D \in SUBSET Lru!Expired
  BY <1>1, <1>5, GoneAreExpired
<1>9. q = Lru!Without(ByUse, D \cup {k})
  BY <1>4, <1>5, LruOperators
<1>10. Lru!Store(k, response, size)
  BY <1>4, <1>7, <1>8, <1>9 DEF Lru!Store, e, w, entry, NewEntry
<1> QED BY <1>3, <1>10

LEMMA StepLru == IInv /\ [Next]_vars => [Lru!Next]_(Lru!vars)
<1> SUFFICES ASSUME IInv, [Next]_vars PROVE [Lru!Next]_(Lru!vars)
  OBVIOUS
<1>1. CASE \E r \in Request, k \in Key : Arrive(r, k)
  BY <1>1, ArriveLooksUp DEF Lru!Next
<1>2. CASE \E r \in Request : Succeed(r)
  BY <1>2, SucceedStores DEF Lru!Next
<1>3. ASSUME cache' = cache PROVE ByUse' = ByUse
  BY <1>3, ListIsByUseNow, ListIsByUseThen DEF IInv, CacheIsList, ListIsByUse
<1>4. CASE (\E r \in Request : Fail(r)) \/ Tick
  <2>1. cache' = cache /\ now' \in {now, now + 1} /\ answer' = Null
    BY <1>4 DEF Fail, Finish, Tick
  <2> QED BY <1>3, <2>1 DEF Lru!Next, Lru!Pass
<1>5. CASE UNCHANGED vars
  <2>1. cache' = cache /\ now' = now /\ answer' = answer
    BY <1>5 DEF vars
  <2> QED BY <1>3, <2>1 DEF Lru!vars
<1> QED BY <1>1, <1>2, <1>4, <1>5 DEF Next

\* get and set (cache.ts:81-145), with their pointers, loops and counters,
\* do what LruCache says of a list of keys in order of use; between them, the
\* requests and the clock change nothing of it.
THEOREM Implements == Spec => ImplementsLru
<1>1. IInv /\ [Next]_vars => [Lru!Next]_(Lru!vars)
  BY StepLru, StepIInv
<1>2. Spec => Lru!Spec
  BY <1>1, InitLru, IInvAlways, PTL DEF Spec, Lru!Spec
<1> QED BY <1>2 DEF ImplementsLru
=============================================================================
