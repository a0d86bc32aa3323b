-------------------------- MODULE ConnectionsProofs --------------------------
(***************************************************************************)
(* Theorems about Connections, for any finite set of connections and any   *)
(* number of UUIDs and clients.                                            *)
(*                                                                         *)
(* Every step removes a set D of connections (stale, replaced, closed or   *)
(* failed) and brings at most one on; the lemmas say what removing D does  *)
(* to the limiter's sets and to the manager's buckets.                     *)
(***************************************************************************)
EXTENDS Connections, FiniteSetTheorems, TLAPS

\* A connection has a UUID and a client exactly while it exists.
IdInv ==
  \A c \in Conn : /\ phase[c] = "free" <=> uuidOf[c] = NoUuid
                  /\ phase[c] = "free" <=> ipOf[c] = NoIp

CInv ==
  /\ TypeOK
  /\ IdInv
  /\ TrackedAreLive
  /\ TrackedWithinCap
  /\ OneTrackedPerIp
  /\ SlotsAreExact

\* What removing the connections D means for the variables that do not belong
\* to the UUID manager; a connection that dialled may get bridged meanwhile.
Removes(D) ==
  /\ Gone(D)
  /\ active' = ActiveWithout(D)
  /\ phase' \in [Conn -> {"free", "dialing", "bridged"}]
  /\ \A c \in Conn : /\ phase'[c] = "free" <=> c \in D \/ phase[c] = "free"
                     /\ phase[c] = "bridged" /\ c \notin D => phase'[c] = "bridged"

-----------------------------------------------------------------------------
(* Sets *)

\* A set with fewer elements than a bound has room for one more.
LEMMA OneMore ==
  ASSUME NEW S, IsFiniteSet(S), NEW x, NEW n \in Nat, Cardinality(S) < n
  PROVE  Cardinality(S \cup {x}) <= n
<1>1. Cardinality(S) \in Nat
  BY FS_CardinalityType
<1>2. Cardinality(S \cup {x}) = IF x \in S THEN Cardinality(S) ELSE Cardinality(S) + 1
  BY FS_AddElement
<1> QED BY <1>1, <1>2

\* A part of a finite set is not larger than the set.
LEMMA NotLarger ==
  ASSUME NEW S \in SUBSET Conn, NEW T, T \subseteq S, NEW n \in Nat, Cardinality(S) <= n
  PROVE  IsFiniteSet(T) /\ Cardinality(T) <= n
<1>1. IsFiniteSet(S)
  BY ConnectionsAssumption, FS_Subset
<1>2. IsFiniteSet(T) /\ Cardinality(T) <= Cardinality(S)
  BY <1>1, FS_Subset
<1>3. Cardinality(S) \in Nat /\ Cardinality(T) \in Nat
  BY <1>1, <1>2, FS_CardinalityType
<1> QED BY <1>2, <1>3

\* The limits are positive numbers, and the markers name nobody.
LEMMA Limits ==
  /\ MaxConnections \in Nat /\ MaxConnections >= 1
  /\ MaxConnPerIp \in Nat /\ MaxConnPerIp >= 1
  /\ NoUuid \notin UUID /\ NoIp \notin IP
BY ConnectionsAssumption

\* Stale sessions, and the sessions of a bucket, are bridged.
LEMMA BucketsAreBridged ==
  ASSUME CInv
  PROVE  /\ Stale \subseteq Bridged
         /\ \A u \in UUID : tracked[u] \subseteq Bridged
         /\ \A u \in UUID : Bucket(u) \subseteq tracked[u] /\ Bucket(u) \cap Stale = {}
<1>1. old \subseteq Bridged /\ tracked \in [UUID -> SUBSET Conn]
  BY DEF CInv, TypeOK
<1>2. Stale \subseteq Bridged
  BY <1>1 DEF Stale
<1>3. \A u \in UUID : tracked[u] \subseteq Bridged
  BY <1>1 DEF CInv, TrackedAreLive, Bridged
<1> QED BY <1>2, <1>3 DEF Bucket

-----------------------------------------------------------------------------
(* Removing connections *)

\* The limiter's sets stay exact, and the types hold.
LEMMA RemovalSlots ==
  ASSUME CInv, NEW D \in SUBSET Conn, Removes(D)
  PROVE  /\ uuidOf' \in [Conn -> UUID \cup {NoUuid}]
         /\ ipOf' \in [Conn -> IP \cup {NoIp}]
         /\ active' \in [IP -> SUBSET Conn]
         /\ old' \subseteq Bridged'
         /\ IdInv'
         /\ SlotsAreExact'
<1>1. /\ phase \in [Conn -> {"free", "dialing", "bridged"}]
      /\ uuidOf \in [Conn -> UUID \cup {NoUuid}]
      /\ ipOf \in [Conn -> IP \cup {NoIp}]
      /\ active \in [IP -> SUBSET Conn]
      /\ old \subseteq Bridged
  BY DEF CInv, TypeOK
<1>2. /\ uuidOf' = [c \in Conn |-> IF c \in D THEN NoUuid ELSE uuidOf[c]]
      /\ ipOf' = [c \in Conn |-> IF c \in D THEN NoIp ELSE ipOf[c]]
      /\ old' = old \ D
      /\ active' = [ip \in IP |-> active[ip] \ D]
  BY DEF Removes, Gone, ActiveWithout
<1>3. \A c \in Conn : phase'[c] = "free" <=> c \in D \/ phase[c] = "free"
  BY DEF Removes
<1>4. /\ uuidOf' \in [Conn -> UUID \cup {NoUuid}]
      /\ ipOf' \in [Conn -> IP \cup {NoIp}]
      /\ active' \in [IP -> SUBSET Conn]
  BY <1>1, <1>2
<1>5. old' \subseteq Bridged'
  BY <1>1, <1>2 DEF Bridged, Removes
<1>6. IdInv'
  BY <1>1, <1>2, <1>3 DEF CInv, IdInv
<1>7. SlotsAreExact'
  <2> SUFFICES ASSUME NEW ip \in IP
               PROVE  /\ active'[ip] = {c \in Conn : phase'[c] # "free" /\ ipOf'[c] = ip}
                      /\ Cardinality(active'[ip]) <= MaxConnPerIp
    BY DEF SlotsAreExact
  <2>1. /\ active[ip] = {c \in Conn : phase[c] # "free" /\ ipOf[c] = ip}
        /\ Cardinality(active[ip]) <= MaxConnPerIp
    BY DEF CInv, SlotsAreExact
  <2>2. active'[ip] = active[ip] \ D
    BY <1>2
  <2>3. \A c \in Conn : phase'[c] # "free" /\ ipOf'[c] = ip
                          <=> c \notin D /\ phase[c] # "free" /\ ipOf[c] = ip
    BY <1>2, <1>3, Limits
  <2>4. active'[ip] = {c \in Conn : phase'[c] # "free" /\ ipOf'[c] = ip}
    BY <2>1, <2>2, <2>3
  <2>5. Cardinality(active'[ip]) <= MaxConnPerIp
    BY <1>1, <2>1, <2>2, NotLarger, Limits
  <2> QED BY <2>4, <2>5
<1> QED BY <1>4, <1>5, <1>6, <1>7

\* Buckets that shrink to what is not removed stay sound.
LEMMA RemovalBuckets ==
  ASSUME CInv, NEW D \in SUBSET Conn, Removes(D),
         tracked' \in [UUID -> SUBSET Conn],
         \A u \in UUID : tracked'[u] \subseteq tracked[u] \ D
  PROVE  TrackedAreLive' /\ TrackedWithinCap' /\ OneTrackedPerIp'
<1>1. tracked \in [UUID -> SUBSET Conn]
  BY DEF CInv, TypeOK
<1>2. /\ uuidOf' = [c \in Conn |-> IF c \in D THEN NoUuid ELSE uuidOf[c]]
      /\ ipOf' = [c \in Conn |-> IF c \in D THEN NoIp ELSE ipOf[c]]
  BY DEF Removes, Gone
<1>3. TrackedAreLive'
  BY <1>1, <1>2 DEF CInv, TrackedAreLive, Removes
<1>4. TrackedWithinCap'
  BY <1>1, NotLarger, Limits DEF CInv, TrackedWithinCap
<1>5. OneTrackedPerIp'
  BY <1>1, <1>2 DEF CInv, OneTrackedPerIp
<1> QED BY <1>3, <1>4, <1>5

\* A step that only removes connections keeps the invariant.
LEMMA RemovalStep ==
  ASSUME CInv, NEW D \in SUBSET Conn, Removes(D),
         tracked' \in [UUID -> SUBSET Conn],
         \A u \in UUID : tracked'[u] \subseteq tracked[u] \ D,
         indexed' \subseteq indexed \ D,
         cleanupDue' \in BOOLEAN
  PROVE  CInv'
<1>1. indexed \subseteq Bridged
  BY DEF CInv, TypeOK
<1>2. indexed' \subseteq Bridged'
  BY <1>1 DEF Bridged, Removes
<1>3. TypeOK'
  BY <1>2, RemovalSlots DEF TypeOK, Removes
<1> QED
  BY <1>3, RemovalSlots, RemovalBuckets DEF CInv

-----------------------------------------------------------------------------
(* One lemma per action *)

\* A refused request has only what its checks cleaned up.
LEMMA DenyStep ==
  ASSUME CInv, NEW u \in UUID, NEW ip \in IP, Deny(u, ip)
  PROVE  CInv'
<1>1. Stale \in SUBSET Conn
  BY BucketsAreBridged DEF Bridged
<1>2. Removes(Stale)
  BY DEF Deny, Removes, PhaseWithout, CInv, TypeOK
<1>3. /\ tracked' \in [UUID -> SUBSET Conn]
      /\ \A v \in UUID : tracked'[v] \subseteq tracked[v] \ Stale
  BY DEF Deny, Bucket, CInv, TypeOK
<1>4. indexed' \subseteq indexed \ Stale /\ cleanupDue' \in BOOLEAN
  BY DEF Deny, IndexedWithout
<1> QED
  BY <1>1, <1>2, <1>3, <1>4, RemovalStep

\* A bridge that closes takes its connection, and the stale ones, along.
LEMMA CloseStep ==
  ASSUME CInv, NEW c \in Conn, Close(c)
  PROVE  CInv'
<1> DEFINE D == Stale \cup {c}
<1>1. D \in SUBSET Conn
  BY BucketsAreBridged DEF Bridged
<1>2. Removes(D)
  BY DEF Close, Removes, PhaseWithout, CInv, TypeOK
<1>3. tracked' = [v \in UUID |-> Bucket(v) \ D]
  BY DEF Close, Untracked
<1>4. /\ tracked' \in [UUID -> SUBSET Conn]
      /\ \A v \in UUID : tracked'[v] \subseteq tracked[v] \ D
  BY <1>3 DEF Bucket, CInv, TypeOK
<1>5. indexed' \subseteq indexed \ D /\ cleanupDue' \in BOOLEAN
  BY DEF Close, IndexedWithout
<1> HIDE DEF D
<1> QED
  BY <1>1, <1>2, <1>4, <1>5, RemovalStep

\* A failed dial was known to the limiter only.
LEMMA DialFailsStep ==
  ASSUME CInv, NEW c \in Conn, DialFails(c)
  PROVE  CInv'
<1>1. phase[c] = "dialing" /\ c \notin Bridged
  BY DEF DialFails, Bridged
<1>2. Removes({c})
  BY DEF DialFails, Removes, PhaseWithout, CInv, TypeOK
<1>3. /\ tracked' = tracked /\ indexed' = indexed /\ cleanupDue' = cleanupDue
  BY DEF DialFails
<1>4. /\ tracked' \in [UUID -> SUBSET Conn] /\ cleanupDue' \in BOOLEAN
      /\ \A v \in UUID : tracked'[v] \subseteq tracked[v] \ {c}
      /\ indexed' \subseteq indexed \ {c}
  BY <1>1, <1>3, BucketsAreBridged DEF CInv, TypeOK
<1> QED
  BY <1>2, <1>4, RemovalStep

\* An admitted request takes a slot that the limiter had free.
LEMMA AcceptStep ==
  ASSUME CInv, NEW c \in Conn, NEW u \in UUID, NEW ip \in IP, Accept(c, u, ip)
  PROVE  CInv'
<1>1. /\ phase \in [Conn -> {"free", "dialing", "bridged"}]
      /\ uuidOf \in [Conn -> UUID \cup {NoUuid}]
      /\ ipOf \in [Conn -> IP \cup {NoIp}]
      /\ active \in [IP -> SUBSET Conn]
      /\ tracked \in [UUID -> SUBSET Conn]
      /\ indexed \subseteq Bridged
      /\ old \subseteq Bridged
  BY DEF CInv, TypeOK
<1>2. Stale \subseteq Bridged /\ \A v \in UUID : tracked[v] \subseteq Bridged
  BY BucketsAreBridged
<1>3. phase[c] = "free" /\ c \notin Bridged /\ c \notin Stale
  BY <1>2 DEF Accept, Bridged
<1>4. /\ phase' = [d \in Conn |-> IF d = c THEN "dialing"
                                 ELSE IF d \in Stale THEN "free" ELSE phase[d]]
      /\ uuidOf' = [d \in Conn |-> IF d = c THEN u
                                  ELSE IF d \in Stale THEN NoUuid ELSE uuidOf[d]]
      /\ ipOf' = [d \in Conn |-> IF d = c THEN ip
                                ELSE IF d \in Stale THEN NoIp ELSE ipOf[d]]
      /\ active' = [i \in IP |-> IF i = ip THEN (active[i] \ Stale) \cup {c}
                                ELSE active[i] \ Stale]
      /\ tracked' = [v \in UUID |-> tracked[v] \ Stale]
      /\ indexed' = indexed \ Stale /\ old' = old \ Stale /\ cleanupDue' = FALSE
  BY DEF Accept, PhaseWithout, ActiveWithout, IndexedWithout, Bucket
<1>5. Bridged' = Bridged \ Stale
  BY <1>3, <1>4 DEF Bridged
<1>6. TypeOK'
  BY <1>1, <1>4, <1>5 DEF TypeOK
<1>7. IdInv'
  BY <1>1, <1>4, Limits DEF CInv, IdInv
<1>8. TrackedAreLive'
  BY <1>2, <1>3, <1>4 DEF CInv, TrackedAreLive, Bridged
<1>9. TrackedWithinCap'
  BY <1>1, <1>4, NotLarger, Limits DEF CInv, TrackedWithinCap
<1>10. OneTrackedPerIp'
  <2>1. \A v \in UUID : \A d \in tracked'[v] : ipOf'[d] = ipOf[d] /\ d \in tracked[v]
    BY <1>1, <1>2, <1>3, <1>4
  <2> QED BY <2>1 DEF CInv, OneTrackedPerIp
<1>11. SlotsAreExact'
  <2> SUFFICES ASSUME NEW i \in IP
               PROVE  /\ active'[i] = {d \in Conn : phase'[d] # "free" /\ ipOf'[d] = i}
                      /\ Cardinality(active'[i]) <= MaxConnPerIp
    BY DEF SlotsAreExact
  <2>1. /\ active[i] = {d \in Conn : phase[d] # "free" /\ ipOf[d] = i}
        /\ Cardinality(active[i]) <= MaxConnPerIp
    BY DEF CInv, SlotsAreExact
  <2>2. active'[i] = {d \in Conn : phase'[d] # "free" /\ ipOf'[d] = i}
    BY <1>3, <1>4, <2>1, Limits
  <2>3. IsFiniteSet(active[i] \ Stale) /\ Cardinality(active[i] \ Stale) <= MaxConnPerIp
    BY <1>1, <2>1, NotLarger, Limits
  <2>4. CASE i = ip
    <3>1. Cardinality(active[ip] \ Stale) < MaxConnPerIp
      BY DEF Accept, IpAllowed
    <3> QED BY <1>4, <2>2, <2>3, <2>4, <3>1, OneMore, Limits
  <2>5. CASE i # ip
    BY <1>4, <2>2, <2>3, <2>5
  <2> QED BY <2>4, <2>5
<1> QED
  BY <1>6, <1>7, <1>8, <1>9, <1>10, <1>11 DEF CInv

\* A bridge that comes up replaces the sessions of its UUID and client, and
\* is tracked unless the bucket is full or was orphaned by the replacement.
LEMMA BridgeStep ==
  ASSUME CInv, NEW c \in Conn, Bridge(c)
  PROVE  /\ CInv'
         /\ \A d \in Conn : d \in Replaced(uuidOf[c], ipOf[c]) => phase'[d] = "free"
         /\ \A d \in Conn \ {c} : phase'[d] = "bridged" => phase[d] = "bridged"
<1> DEFINE u == uuidOf[c]
           ip == ipOf[c]
           D == Replaced(u, ip)
<1>1. /\ phase \in [Conn -> {"free", "dialing", "bridged"}]
      /\ uuidOf \in [Conn -> UUID \cup {NoUuid}]
      /\ ipOf \in [Conn -> IP \cup {NoIp}]
      /\ tracked \in [UUID -> SUBSET Conn]
      /\ indexed \subseteq Bridged
  BY DEF CInv, TypeOK
<1>2. phase[c] = "dialing" /\ c \notin Bridged /\ u \in UUID /\ ip \in IP
  BY <1>1 DEF Bridge, Bridged, CInv, IdInv
<1>3. /\ Stale \subseteq Bridged
      /\ \A v \in UUID : tracked[v] \subseteq Bridged
      /\ \A v \in UUID : Bucket(v) = tracked[v] \ Stale
  BY BucketsAreBridged DEF Bucket
<1>4. /\ D = Stale \cup {d \in Bucket(u) : ipOf[d] = ip}
      /\ SameIp(u, ip) = {d \in Bucket(u) : ipOf[d] = ip}
  BY DEF Replaced, SameIp
<1>5. D \in SUBSET Conn /\ D \subseteq Bridged /\ c \notin D
  BY <1>2, <1>3, <1>4 DEF Bridged
<1>6. /\ phase' = [PhaseWithout(D) EXCEPT ![c] = "bridged"]
      /\ Gone(D)
      /\ active' = ActiveWithout(D)
      /\ tracked' = [v \in UUID |-> IF v = u THEN BucketWith(c, u, ip) ELSE Bucket(v)]
      /\ indexed' \subseteq (indexed \ D) \cup {c}
      /\ cleanupDue' = FALSE
  BY DEF Bridge, IndexedWithout
<1>7. Rest(u, ip) = tracked[u] \ D
  BY <1>2, <1>3, <1>4 DEF Rest
<1>8. \/ BucketWith(c, u, ip) = Rest(u, ip)
      \/ BucketWith(c, u, ip) = Rest(u, ip) \cup {c} /\ ~Full(u, ip)
  BY DEF BucketWith
<1>9. \A v \in UUID \ {u} : Bucket(v) \subseteq tracked[v] \ D
  <2>1. \A v \in UUID \ {u} : tracked[v] \cap tracked[u] = {}
    BY <1>1, <1>2 DEF CInv, TrackedAreLive
  <2> QED BY <1>2, <1>3, <1>4, <2>1
<1> HIDE DEF u, ip, D
<1>10. phase' = [d \in Conn |-> IF d = c THEN "bridged"
                                ELSE IF d \in D THEN "free" ELSE phase[d]]
  BY <1>6 DEF PhaseWithout
<1>11. /\ uuidOf' = [d \in Conn |-> IF d \in D THEN NoUuid ELSE uuidOf[d]]
       /\ ipOf' = [d \in Conn |-> IF d \in D THEN NoIp ELSE ipOf[d]]
  BY <1>6 DEF Gone
<1>12. Removes(D)
  <2>1. phase' \in [Conn -> {"free", "dialing", "bridged"}]
    BY <1>1, <1>10
  <2>2. \A d \in Conn : /\ phase'[d] = "free" <=> d \in D \/ phase[d] = "free"
                        /\ phase[d] = "bridged" /\ d \notin D => phase'[d] = "bridged"
    BY <1>2, <1>5, <1>10
  <2> QED BY <1>6, <2>1, <2>2 DEF Removes
<1>13. tracked' \in [UUID -> SUBSET Conn]
  BY <1>1, <1>3, <1>6, <1>7, <1>8
<1>14. \A v \in UUID : tracked'[v] \subseteq (tracked[v] \ D) \cup (IF v = u THEN {c} ELSE {})
  BY <1>6, <1>7, <1>8, <1>9
<1>15. TypeOK'
  <2>1. indexed' \subseteq Bridged'
    BY <1>1, <1>5, <1>6, <1>10 DEF Bridged
  <2> QED BY <1>5, <1>6, <1>12, <1>13, <2>1, RemovalSlots DEF TypeOK, Removes
<1>16. IdInv' /\ SlotsAreExact'
  BY <1>5, <1>12, RemovalSlots
<1>17. TrackedAreLive'
  <2> SUFFICES ASSUME NEW v \in UUID, NEW d \in tracked'[v]
               PROVE  phase'[d] = "bridged" /\ uuidOf'[d] = v
    BY DEF TrackedAreLive
  <2>1. CASE d = c
    <3>1. v = u
      BY <1>2, <1>3, <1>14, <2>1
    <3> QED BY <1>2, <1>5, <1>10, <1>11, <2>1, <3>1 DEF u
  <2>2. CASE d # c
    <3>1. d \in tracked[v] \ D
      BY <1>14, <2>2
    <3>2. d \in Conn /\ phase[d] = "bridged" /\ uuidOf[d] = v
      BY <1>1, <3>1 DEF CInv, TrackedAreLive
    <3> QED BY <1>10, <1>11, <2>2, <3>1, <3>2
  <2> QED BY <2>1, <2>2
<1>18. TrackedWithinCap'
  <2> SUFFICES ASSUME NEW v \in UUID
               PROVE  Cardinality(tracked'[v]) <= MaxConnections
    BY DEF TrackedWithinCap
  <2>1. IsFiniteSet(tracked[v] \ D) /\ Cardinality(tracked[v] \ D) <= MaxConnections
    BY <1>1, NotLarger, Limits DEF CInv, TrackedWithinCap
  <2>2. CASE tracked'[v] \subseteq tracked[v] \ D
    BY <1>1, <2>2, NotLarger, Limits DEF CInv, TrackedWithinCap
  <2>3. CASE ~(tracked'[v] \subseteq tracked[v] \ D)
    <3>1. v = u
      BY <1>14, <2>3
    <3>2. tracked'[v] = (tracked[v] \ D) \cup {c} /\ ~Full(u, ip)
      BY <1>6, <1>7, <1>8, <2>3, <3>1
    <3>3. Cardinality(tracked[v] \ D) < MaxConnections
      <4>1. Cardinality(tracked[v] \ D) \in Nat
        BY <2>1, FS_CardinalityType
      <4>2. ~(Cardinality(tracked[v] \ D) >= MaxConnections)
        BY <1>7, <3>1, <3>2 DEF Full
      <4> QED BY <4>1, <4>2, Limits
    <3> QED BY <2>1, <3>2, <3>3, OneMore, Limits
  <2> QED BY <2>2, <2>3
<1>19. OneTrackedPerIp'
  <2> SUFFICES ASSUME NEW v \in UUID, NEW d \in tracked'[v], NEW e \in tracked'[v],
                      ipOf'[d] = ipOf'[e]
               PROVE  d = e
    BY DEF OneTrackedPerIp
  <2>1. \A x \in tracked[v] \ D : ipOf'[x] = ipOf[x] /\ x \in Conn
    BY <1>1, <1>11
  <2>2. ipOf'[c] = ip
    BY <1>5, <1>11 DEF ip
  <2>3. v = u => \A x \in tracked[v] \ D : ipOf[x] # ip
    <3>1. \A x \in tracked[u] : x \in Stale \/ x \in Bucket(u)
      BY <1>2, <1>3
    <3> QED BY <1>4, <3>1
  <2>4. \A x \in tracked'[v] : x \in tracked[v] \ D \/ (v = u /\ x = c)
    BY <1>14
  <2>5. \A x, y \in tracked[v] : ipOf[x] = ipOf[y] => x = y
    BY DEF CInv, OneTrackedPerIp
  <2> QED BY <2>1, <2>2, <2>3, <2>4, <2>5
<1>20. \A d \in Conn : d \in D => phase'[d] = "free"
  BY <1>5, <1>10
<1>21. \A d \in Conn \ {c} : phase'[d] = "bridged" => phase[d] = "bridged"
  BY <1>10
<1> QED
  BY <1>15, <1>16, <1>17, <1>18, <1>19, <1>20, <1>21 DEF CInv, D, u, ip

-----------------------------------------------------------------------------
(* Theorems *)

\* What only passes the time: a connection gets old, or a cleanup falls due.
LEMMA TimeStep ==
  ASSUME CInv, \/ \E c \in Conn : GrowOld(c)
               \/ IntervalElapsed
               \/ UNCHANGED vars
  PROVE  CInv'
<1>1. /\ phase' = phase /\ uuidOf' = uuidOf /\ ipOf' = ipOf /\ tracked' = tracked
      /\ indexed' = indexed /\ active' = active
  BY DEF GrowOld, IntervalElapsed, vars
<1>2. old' \subseteq Bridged' /\ cleanupDue' \in BOOLEAN
  BY <1>1 DEF GrowOld, IntervalElapsed, vars, CInv, TypeOK, Bridged
<1>3. TypeOK'
  BY <1>1, <1>2 DEF CInv, TypeOK, Bridged
<1> QED
  BY <1>1, <1>3 DEF CInv, IdInv, TrackedAreLive, TrackedWithinCap, OneTrackedPerIp,
     SlotsAreExact

\* Every step keeps the invariant.
LEMMA ConnectionsStep == CInv /\ [Next]_vars => CInv'
<1> SUFFICES ASSUME CInv, [Next]_vars PROVE CInv'
  OBVIOUS
<1>1. ASSUME NEW c \in Conn, NEW u \in UUID, NEW ip \in IP, Accept(c, u, ip)
      PROVE  CInv'
  BY <1>1, AcceptStep
<1>2. ASSUME NEW c \in Conn, Bridge(c) PROVE CInv'
  BY <1>2, BridgeStep
<1>3. ASSUME NEW c \in Conn, Close(c) PROVE CInv'
  BY <1>3, CloseStep
<1>4. ASSUME NEW c \in Conn, DialFails(c) PROVE CInv'
  BY <1>4, DialFailsStep
<1>5. ASSUME NEW u \in UUID, NEW ip \in IP, Deny(u, ip) PROVE CInv'
  BY <1>5, DenyStep
<1>6. CASE \/ \E c \in Conn : GrowOld(c)
           \/ IntervalElapsed
           \/ UNCHANGED vars
  BY <1>6, TimeStep
<1> QED
  BY <1>1, <1>2, <1>3, <1>4, <1>5, <1>6 DEF Next

\* The invariant holds at first and is kept.
THEOREM ConnectionsInductive == Spec => []CInv
<1>1. Init => CInv
  <2> SUFFICES ASSUME Init PROVE CInv
    OBVIOUS
  <2>1. Cardinality({}) = 0
    BY FS_EmptySet
  <2>2. TypeOK
    BY DEF Init, TypeOK, Bridged
  <2>3. IdInv
    BY DEF Init, IdInv
  <2>4. TrackedAreLive /\ TrackedWithinCap /\ OneTrackedPerIp
    BY <2>1, Limits DEF Init, TrackedAreLive, TrackedWithinCap, OneTrackedPerIp
  <2>5. SlotsAreExact
    BY <2>1, Limits DEF Init, SlotsAreExact
  <2> QED BY <2>2, <2>3, <2>4, <2>5 DEF CInv
<1> QED BY <1>1, ConnectionsStep, PTL DEF Spec

\* Types; and uuidByConnectionId names no connection that is gone.
THEOREM ConnectionsTypeCorrect == Spec => []TypeOK
<1>1. CInv => TypeOK
  BY DEF CInv
<1> QED BY <1>1, ConnectionsInductive, PTL

\* The buckets of the manager hold live sessions of their UUID, one per
\* client and no more than the cap (uuid-manager.ts:185-246).
THEOREM BucketsAreSound ==
  Spec => [](TrackedAreLive /\ TrackedWithinCap /\ OneTrackedPerIp)
<1>1. CInv => TrackedAreLive /\ TrackedWithinCap /\ OneTrackedPerIp
  BY DEF CInv
<1> QED BY <1>1, ConnectionsInductive, PTL

\* No bucket holds a ghost (uuid-manager.ts:293-330).
THEOREM NoGhostIsTracked == Spec => []TrackedAreLive
<1>1. CInv => TrackedAreLive
  BY DEF CInv
<1> QED BY <1>1, ConnectionsInductive, PTL

\* The limiter counts a client's connections exactly, on every path a
\* connection can end, and never beyond maxConnPerIp (index.ts:638-702).
THEOREM ConnectionSlotsAreExact == Spec => []SlotsAreExact
<1>1. CInv => SlotsAreExact
  BY DEF CInv
<1> QED BY <1>1, ConnectionsInductive, PTL

\* A session that is bridged closes the one tracked for its UUID and client
\* (uuid-manager.ts:185-198).
THEOREM TrackedSessionIsReplaced == Spec => TrackedIsReplaced
<1> DEFINE IsReplaced ==
      \A c, d \in Conn :
        /\ phase[c] = "dialing" /\ phase'[c] = "bridged"
        /\ d \in tracked[uuidOf[c]] /\ ipOf[d] = ipOf[c]
        => phase'[d] = "free"
<1>1. CInv /\ [Next]_vars => [IsReplaced]_vars
  <2> SUFFICES ASSUME CInv, Next, NEW c \in Conn, NEW d \in Conn,
                      phase[c] = "dialing", phase'[c] = "bridged",
                      d \in tracked[uuidOf[c]], ipOf[d] = ipOf[c]
               PROVE  phase'[d] = "free"
    OBVIOUS
  <2>1. phase \in [Conn -> {"free", "dialing", "bridged"}]
    BY DEF CInv, TypeOK
  <2>2. ASSUME NEW e \in Conn, NEW u \in UUID, NEW ip \in IP, Accept(e, u, ip) PROVE FALSE
    BY <2>1, <2>2 DEF Accept, PhaseWithout
  <2>3. ASSUME NEW u \in UUID, NEW ip \in IP, Deny(u, ip) PROVE FALSE
    BY <2>3 DEF Deny, PhaseWithout
  <2>4. ASSUME NEW e \in Conn, Close(e) \/ DialFails(e) PROVE FALSE
    BY <2>4 DEF Close, DialFails, PhaseWithout
  <2>5. ASSUME NEW e \in Conn, GrowOld(e) \/ IntervalElapsed PROVE FALSE
    BY <2>5 DEF GrowOld, IntervalElapsed
  <2>6. PICK e \in Conn : Bridge(e)
    BY <2>2, <2>3, <2>4, <2>5 DEF Next
  <2>7. e = c
    BY <2>6, BridgeStep
  <2>8. d \in Replaced(uuidOf[c], ipOf[c])
    BY DEF Replaced, SameIp, Bucket
  <2> QED
    BY <2>6, <2>7, <2>8, BridgeStep
<1> QED
  BY <1>1, ConnectionsInductive, PTL DEF Spec, TrackedIsReplaced
=============================================================================
