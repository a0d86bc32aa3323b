------------------------- MODULE RateLimiterProofs -------------------------
(***************************************************************************)
(* Theorems about RateLimiter, for every set of clients and connections    *)
(* and every value of the limits.                                          *)
(*                                                                         *)
(* The argument is about what a map of states is worth to a client, its    *)
(* bucket level and its open connections, and shows that the cleanup, the  *)
(* refill and the deletion of idle states leave that worth alone.          *)
(***************************************************************************)
EXTENDS RateLimiter, FiniteSetTheorems, TLAPS

LevelIn(m, ip, t) == IF ip \in DOMAIN m THEN LevelAt(m[ip], t) ELSE Capacity
ActiveIn(m, ip)   == IF ip \in DOMAIN m THEN m[ip].active ELSE {}

\* A state of one client at time t.
IsStateAt(s, t) ==
  /\ s \in IpState
  /\ s.lastRefillAt <= t
  /\ s.lastSeenAt <= t
  /\ IsFiniteSet(s.active)

\* A map of states as the limiter keeps it at time t.
IsMapAt(m, t) ==
  /\ m = [i \in DOMAIN m |-> m[i]]
  /\ DOMAIN m \subseteq IP
  /\ \A i \in DOMAIN m : IsStateAt(m[i], t)

\* Two maps that no client can tell apart at time t.
SameWorth(m, n, t) ==
  \A ip \in IP : /\ LevelIn(m, ip, t) = LevelIn(n, ip, t)
                 /\ ActiveIn(m, ip) = ActiveIn(n, ip)

-----------------------------------------------------------------------------
(* Arithmetic of the bucket *)

\* A bucket holds whole units and at least one token.
LEMMA ConstantTypes ==
  /\ Token \in Nat \ {0}
  /\ Capacity \in Nat
  /\ Capacity >= Token
BY RateLimiterAssumption DEF Token, Capacity

\* A product of naturals is a natural.
LEMMA RefillNat ==
  ASSUME NEW d \in Nat PROVE d * MaxConnPerMin \in Nat
BY RateLimiterAssumption

\* The cap keeps an amount within the capacity.
LEMMA CapType ==
  ASSUME NEW n \in Nat PROVE AtMostCapacity(n) \in 0..Capacity
BY ConstantTypes DEF AtMostCapacity

\* A state is worth between nothing and a full bucket at any time.
LEMMA LevelType ==
  ASSUME NEW s \in IpState, NEW t \in Nat
  PROVE  LevelAt(s, t) \in 0..Capacity
<1>1. s.tokens \in 0..Capacity /\ s.lastRefillAt \in Nat
  BY DEF IpState
<1>2. CASE t <= s.lastRefillAt
  BY <1>1, <1>2 DEF LevelAt
<1>3. CASE ~(t <= s.lastRefillAt)
  <2>1. (t - s.lastRefillAt) \in Nat
    BY <1>1, <1>3
  <2>2. (t - s.lastRefillAt) * MaxConnPerMin \in Nat
    BY <2>1, RefillNat
  <2>3. s.tokens + (t - s.lastRefillAt) * MaxConnPerMin \in Nat
    BY <1>1, <2>2, ConstantTypes
  <2> QED BY <1>3, <2>3, CapType DEF LevelAt
<1> QED BY <1>2, <1>3

\* One more tick adds one refill, capped.
LEMMA LevelNext ==
  ASSUME NEW s \in IpState, NEW t \in Nat, s.lastRefillAt <= t
  PROVE  LevelAt(s, t + 1) = AtMostCapacity(LevelAt(s, t) + MaxConnPerMin)
<1>1. s.tokens \in 0..Capacity /\ s.lastRefillAt \in Nat
  BY DEF IpState
<1> DEFINE d == t - s.lastRefillAt
<1>2. d \in Nat
  BY <1>1
<1>3. (t + 1) - s.lastRefillAt = d + 1 /\ ~(t + 1 <= s.lastRefillAt)
  BY <1>1
<1>4. (d + 1) * MaxConnPerMin = d * MaxConnPerMin + MaxConnPerMin
  BY <1>2, RateLimiterAssumption
<1>5. LevelAt(s, t + 1) = AtMostCapacity(s.tokens + (d * MaxConnPerMin + MaxConnPerMin))
  BY <1>3, <1>4 DEF LevelAt
<1>6. LevelAt(s, t) = AtMostCapacity(s.tokens + d * MaxConnPerMin)
  <2>1. CASE t <= s.lastRefillAt
    <3>1. d = 0 BY <2>1, <1>1
    <3>2. d * MaxConnPerMin = 0 BY <3>1, RateLimiterAssumption
    <3> QED BY <2>1, <3>2, <1>1, ConstantTypes DEF LevelAt, AtMostCapacity
  <2>2. CASE ~(t <= s.lastRefillAt)
    BY <2>2 DEF LevelAt
  <2> QED BY <2>1, <2>2
<1> HIDE DEF d
<1>7. d * MaxConnPerMin \in Nat
  BY <1>2, RefillNat
<1> QED
  BY <1>1, <1>5, <1>6, <1>7, RateLimiterAssumption, ConstantTypes
  DEF AtMostCapacity

\* refillTokens does not change what the bucket holds.
LEMMA RefillKeepsLevel ==
  ASSUME NEW s, NEW t \in Nat, IsStateAt(s, t)
  PROVE  /\ IsStateAt(Refilled(s, t), t)
         /\ LevelAt(Refilled(s, t), t) = LevelAt(s, t)
         /\ Refilled(s, t).tokens = LevelAt(s, t)
         /\ Refilled(s, t).active = s.active
         /\ Refilled(s, t).lastRefillAt = t
         /\ Refilled(s, t).lastSeenAt = s.lastSeenAt
<1>1. s \in IpState /\ s.lastRefillAt \in Nat /\ s.lastRefillAt <= t
  BY DEF IsStateAt, IpState
<1>2. LevelAt(s, t) \in 0..Capacity
  BY <1>1, LevelType
<1>3. Refilled(s, t) = [s EXCEPT !.tokens = LevelAt(s, t), !.lastRefillAt = t]
  <2>1. (IF t <= s.lastRefillAt THEN s.lastRefillAt ELSE t) = t
    BY <1>1
  <2> QED BY <2>1 DEF Refilled
<1>4. /\ Refilled(s, t).tokens = LevelAt(s, t)
      /\ Refilled(s, t).active = s.active
      /\ Refilled(s, t).lastRefillAt = t
      /\ Refilled(s, t).lastSeenAt = s.lastSeenAt
      /\ Refilled(s, t) \in IpState
  BY <1>1, <1>2, <1>3 DEF IpState
<1>5. LevelAt(Refilled(s, t), t) = LevelAt(s, t)
  BY <1>4 DEF LevelAt
<1> QED BY <1>4, <1>5 DEF IsStateAt

-----------------------------------------------------------------------------
(* Maps of states *)

\* Dropping a set of clients whose buckets are full and who hold nothing
\* changes the worth of the map to nobody.
LEMMA DropIdle ==
  ASSUME NEW t \in Nat, NEW m, IsMapAt(m, t), NEW D \in SUBSET DOMAIN m,
         \A i \in DOMAIN m \ D : LevelAt(m[i], t) = Capacity /\ m[i].active = {}
  PROVE  /\ IsMapAt([i \in D |-> m[i]], t)
         /\ SameWorth([i \in D |-> m[i]], m, t)
BY DEF IsMapAt, SameWorth, LevelIn, ActiveIn

\* Being worth the same is transitive.
LEMMA WorthTransitive ==
  ASSUME NEW t, NEW m, NEW n, NEW o, SameWorth(m, n, t), SameWorth(n, o, t)
  PROVE  SameWorth(m, o, t)
BY DEF SameWorth

\* An idle state is a full bucket.
LEMMA IdleIsFull ==
  ASSUME NEW t \in Nat, NEW s, IsStateAt(s, t), IsIdle(s, t)
  PROVE  LevelAt(s, t) = Capacity /\ s.active = {}
<1>1. s.tokens \in 0..Capacity /\ s.lastRefillAt \in Nat /\ s.active = {}
  BY DEF IsStateAt, IpState, IsIdle
<1>2. s.tokens = Capacity
  BY <1>1, ConstantTypes DEF IsIdle
<1>3. CASE t <= s.lastRefillAt
  BY <1>1, <1>2, <1>3 DEF LevelAt
<1>4. CASE ~(t <= s.lastRefillAt)
  <2>1. (t - s.lastRefillAt) * MaxConnPerMin \in Nat
    BY <1>1, <1>4, RefillNat
  <2> HIDE DEF Capacity
  <2> QED BY <1>1, <1>2, <1>4, <2>1, ConstantTypes DEF LevelAt, AtMostCapacity
<1> QED BY <1>1, <1>3, <1>4

\* maybeCleanup cannot be noticed.
LEMMA CleanupKeepsWorth ==
  ASSUME NEW t \in Nat, NEW m, IsMapAt(m, t)
  PROVE  /\ IsMapAt(AfterCleanup(m, t), t)
         /\ SameWorth(AfterCleanup(m, t), m, t)
<1> DEFINE refilled == [i \in DOMAIN m |-> Refilled(m[i], t)]
           kept == {j \in DOMAIN m : ~IsIdle(refilled[j], t)}
<1>1. \A i \in DOMAIN m :
        /\ IsStateAt(refilled[i], t)
        /\ LevelAt(refilled[i], t) = LevelAt(m[i], t)
        /\ refilled[i].active = m[i].active
  BY RefillKeepsLevel DEF IsMapAt
<1>2. IsMapAt(refilled, t)
  BY <1>1 DEF IsMapAt
<1>3. SameWorth(refilled, m, t)
  BY <1>1 DEF SameWorth, LevelIn, ActiveIn
<1>4. \A i \in DOMAIN refilled \ kept :
         LevelAt(refilled[i], t) = Capacity /\ refilled[i].active = {}
  BY <1>1, IdleIsFull
<1>5. CleanedUp(m, t) = [i \in kept |-> refilled[i]]
  BY DEF CleanedUp
<1>6. kept \in SUBSET DOMAIN refilled
  OBVIOUS
<1>7. IsMapAt(CleanedUp(m, t), t) /\ SameWorth(CleanedUp(m, t), refilled, t)
  <2> HIDE DEF refilled, kept
  <2> QED BY <1>2, <1>4, <1>5, <1>6, DropIdle
<1>8. SameWorth(CleanedUp(m, t), m, t)
  BY <1>3, <1>7, WorthTransitive
<1>9. SameWorth(m, m, t)
  BY DEF SameWorth
<1> QED BY <1>7, <1>8, <1>9 DEF AfterCleanup

\* deleteIfIdle cannot be noticed either.
LEMMA DeleteKeepsWorth ==
  ASSUME NEW t \in Nat, NEW m, IsMapAt(m, t), NEW ip
  PROVE  /\ IsMapAt(DeleteIfIdle(m, ip, t), t)
         /\ SameWorth(DeleteIfIdle(m, ip, t), m, t)
<1> DEFINE kept == {j \in DOMAIN m : j # ip \/ ~IsIdle(m[j], t)}
<1>1. \A i \in DOMAIN m \ kept : LevelAt(m[i], t) = Capacity /\ m[i].active = {}
  BY IdleIsFull DEF IsMapAt
<1>2. kept \in SUBSET DOMAIN m
  OBVIOUS
<1>3. DeleteIfIdle(m, ip, t) = [i \in kept |-> m[i]]
  BY DEF DeleteIfIdle
<1> HIDE DEF kept
<1> QED BY <1>1, <1>2, <1>3, DropIdle

\* Writing one client's state changes that client's worth and no other.
LEMMA PutWorth ==
  ASSUME NEW t \in Nat, NEW m, IsMapAt(m, t), NEW ip \in IP,
         NEW s, IsStateAt(s, t)
  PROVE  /\ IsMapAt(Put(m, ip, s), t)
         /\ LevelIn(Put(m, ip, s), ip, t) = LevelAt(s, t)
         /\ ActiveIn(Put(m, ip, s), ip) = s.active
         /\ \A i \in IP \ {ip} :
               /\ LevelIn(Put(m, ip, s), i, t) = LevelIn(m, i, t)
               /\ ActiveIn(Put(m, ip, s), i) = ActiveIn(m, i)
BY DEF IsMapAt, Put, LevelIn, ActiveIn

\* What checkConnectionAllowed looks at: the state of the client, refilled,
\* worth what the map said it was.
LEMMA CheckedState ==
  ASSUME NEW t \in Nat, NEW m, IsMapAt(m, t), NEW ip \in IP
  PROVE  LET s == Touched(GetOrCreate(m, ip, t), t)
         IN  /\ IsStateAt(s, t)
             /\ s.lastRefillAt = t
             /\ s.tokens = LevelIn(m, ip, t)
             /\ LevelAt(s, t) = s.tokens
             /\ s.active = ActiveIn(m, ip)
<1> DEFINE g == GetOrCreate(m, ip, t)
<1>1. /\ IsStateAt(g, t)
      /\ LevelAt(g, t) = LevelIn(m, ip, t)
      /\ g.active = ActiveIn(m, ip)
  <2>1. CASE ip \in DOMAIN m
    BY <2>1 DEF GetOrCreate, LevelIn, ActiveIn, IsMapAt
  <2>2. CASE ip \notin DOMAIN m
    <3>1. g = NewState(t)
      BY <2>2 DEF GetOrCreate
    <3>2. IsStateAt(NewState(t), t) /\ LevelAt(NewState(t), t) = Capacity
      BY ConstantTypes, FS_EmptySet DEF NewState, IsStateAt, IpState, LevelAt
    <3> QED BY <2>2, <3>1, <3>2 DEF LevelIn, ActiveIn, NewState
  <2> QED BY <2>1, <2>2
<1> HIDE DEF g
<1> DEFINE r == Refilled(g, t)
<1>2. /\ IsStateAt(r, t)
      /\ r.tokens = LevelIn(m, ip, t)
      /\ r.lastRefillAt = t
      /\ r.active = ActiveIn(m, ip)
  BY <1>1, RefillKeepsLevel
<1> HIDE DEF r
<1> DEFINE s == [r EXCEPT !.lastSeenAt = t]
<1>3. /\ s.tokens = r.tokens /\ s.lastRefillAt = r.lastRefillAt
      /\ s.active = r.active /\ s.lastSeenAt = t /\ s \in IpState
  BY <1>2 DEF IsStateAt, IpState
<1>4. Touched(g, t) = s
  BY DEF Touched, r
<1>5. IsStateAt(s, t) /\ LevelAt(s, t) = s.tokens
  BY <1>2, <1>3 DEF IsStateAt, LevelAt
<1> QED BY <1>2, <1>3, <1>4, <1>5 DEF g

-----------------------------------------------------------------------------
(* What each action does to the worth of the map *)

\* The bound of WindowBound with what is still in the bucket on its left
\* side: this one is preserved by each step.
WindowInv ==
  \A ip \in IP :
    accepted[ip] * Token + LevelOf(ip)
      <= Capacity + (now - windowStart) * MaxConnPerMin

IInv ==
  /\ TypeOK
  /\ IsMapAt(stateByIp, now)
  /\ ExactAccounting
  /\ ConcurrencyBound
  /\ WindowInv

\* What the refinement mapping reads off is a level.
LEMMA LevelOfType ==
  ASSUME NEW t \in Nat, NEW m, IsMapAt(m, t), NEW ip \in IP
  PROVE  LevelIn(m, ip, t) \in 0..Capacity
BY ConstantTypes, LevelType DEF IsMapAt, IsStateAt, LevelIn

\* An admission costs the client one token and one slot, and nobody else.
LEMMA AdmitEffect ==
  ASSUME IInv, NEW ip \in IP, NEW c \in Conn, Admit(ip, c)
  PROVE  /\ IsMapAt(stateByIp', now)
         /\ c \notin ActiveIn(stateByIp, ip)
         /\ Cardinality(ActiveIn(stateByIp, ip)) < MaxConnPerIp
         /\ LevelIn(stateByIp, ip, now) >= Token
         /\ LevelIn(stateByIp', ip, now) = LevelIn(stateByIp, ip, now) - Token
         /\ ActiveIn(stateByIp', ip) = ActiveIn(stateByIp, ip) \cup {c}
         /\ \A i \in IP \ {ip} :
               /\ LevelIn(stateByIp', i, now) = LevelIn(stateByIp, i, now)
               /\ ActiveIn(stateByIp', i) = ActiveIn(stateByIp, i)
<1> DEFINE m == AfterCleanup(stateByIp, now)
           s == Touched(GetOrCreate(m, ip, now), now)
           r == Registered(s, c)
<1>1. now \in Nat
  BY RateLimiterAssumption DEF IInv, TypeOK
<1>2. IsMapAt(m, now) /\ SameWorth(m, stateByIp, now)
  BY <1>1, CleanupKeepsWorth DEF IInv
<1>3. /\ open[c] = NoIp
      /\ Allowed(s)
      /\ stateByIp' = Put(m, ip, r)
  BY DEF Admit
<1> HIDE DEF m
<1>4. /\ IsStateAt(s, now)
      /\ s.lastRefillAt = now
      /\ s.tokens = LevelIn(m, ip, now)
      /\ LevelAt(s, now) = s.tokens
      /\ s.active = ActiveIn(m, ip)
  BY <1>1, <1>2, CheckedState
<1> HIDE DEF s
<1>5. c \notin s.active
  <2>1. s.active = ActiveIn(stateByIp, ip)
    BY <1>2, <1>4 DEF SameWorth
  <2> QED BY <2>1, <1>3, RateLimiterAssumption DEF IInv, ExactAccounting, ActiveOf, ActiveIn
<1>6. /\ r.active = s.active \cup {c}
      /\ r.tokens = s.tokens - Token
      /\ r.lastRefillAt = now
      /\ r.lastSeenAt = s.lastSeenAt
      /\ r \in IpState
  <2>1. s \in IpState /\ s.tokens >= Token
    BY <1>3, <1>4 DEF IsStateAt, Allowed, HasToken
  <2>2. r = [s EXCEPT !.active = s.active \cup {c}, !.tokens = s.tokens - Token]
    BY <1>5, <2>1 DEF Registered, HasToken
  <2>3. s.tokens - Token \in 0..Capacity
    BY <2>1, ConstantTypes DEF IpState
  <2> HIDE DEF r
  <2> QED BY <1>4, <2>1, <2>2, <2>3 DEF IpState
<1>7. IsFiniteSet(r.active)
  BY <1>4, <1>6, FS_AddElement DEF IsStateAt
<1>8. IsStateAt(r, now) /\ LevelAt(r, now) = s.tokens - Token
  BY <1>1, <1>4, <1>6, <1>7 DEF IsStateAt, LevelAt
<1> HIDE DEF r
<1>9. /\ IsMapAt(stateByIp', now)
      /\ LevelIn(stateByIp', ip, now) = s.tokens - Token
      /\ ActiveIn(stateByIp', ip) = s.active \cup {c}
      /\ \A i \in IP \ {ip} :
            /\ LevelIn(stateByIp', i, now) = LevelIn(m, i, now)
            /\ ActiveIn(stateByIp', i) = ActiveIn(m, i)
  BY <1>1, <1>2, <1>3, <1>6, <1>8, PutWorth
<1> QED
  BY <1>2, <1>3, <1>4, <1>5, <1>9 DEF SameWorth, Allowed, HasToken, HasFreeSlot

\* A refusal costs nobody anything.
LEMMA DenyEffect ==
  ASSUME IInv, NEW ip \in IP, Deny(ip)
  PROVE  IsMapAt(stateByIp', now) /\ SameWorth(stateByIp', stateByIp, now)
<1> DEFINE m == AfterCleanup(stateByIp, now)
           s == Touched(GetOrCreate(m, ip, now), now)
<1>1. now \in Nat
  BY RateLimiterAssumption DEF IInv, TypeOK
<1>2. IsMapAt(m, now) /\ SameWorth(m, stateByIp, now)
  BY <1>1, CleanupKeepsWorth DEF IInv
<1>3. stateByIp' = Put(m, ip, s)
  BY DEF Deny
<1> HIDE DEF m
<1>4. /\ IsStateAt(s, now)
      /\ LevelAt(s, now) = LevelIn(m, ip, now)
      /\ s.active = ActiveIn(m, ip)
  BY <1>1, <1>2, CheckedState
<1> HIDE DEF s
<1>5. /\ IsMapAt(stateByIp', now)
      /\ LevelIn(stateByIp', ip, now) = LevelIn(m, ip, now)
      /\ ActiveIn(stateByIp', ip) = ActiveIn(m, ip)
      /\ \A i \in IP \ {ip} :
            /\ LevelIn(stateByIp', i, now) = LevelIn(m, i, now)
            /\ ActiveIn(stateByIp', i) = ActiveIn(m, i)
  BY <1>1, <1>2, <1>3, <1>4, PutWorth
<1> QED BY <1>2, <1>5 DEF SameWorth

\* A release gives back the slot of the connection and nothing else.
LEMMA ReleaseEffect ==
  ASSUME IInv, NEW c \in Conn, Release(c)
  PROVE  /\ open[c] \in IP
         /\ IsMapAt(stateByIp', now)
         /\ c \in ActiveIn(stateByIp, open[c])
         /\ \A i \in IP :
               /\ LevelIn(stateByIp', i, now) = LevelIn(stateByIp, i, now)
               /\ ActiveIn(stateByIp', i) = ActiveIn(stateByIp, i) \ {c}
<1> DEFINE m == AfterCleanup(stateByIp, now)
           ip == open[c]
           f == [m[ip] EXCEPT !.active = @ \ {c}, !.lastSeenAt = now]
           n == Put(m, ip, f)
<1>1. now \in Nat /\ ip \in IP
  BY RateLimiterAssumption DEF IInv, TypeOK, Release
<1>2. IsMapAt(m, now) /\ SameWorth(m, stateByIp, now)
  BY <1>1, CleanupKeepsWorth DEF IInv
<1>3. \A i \in IP : c \in ActiveIn(stateByIp, i) <=> i = ip
  BY <1>1 DEF IInv, ExactAccounting, ActiveOf, ActiveIn
<1>4. ip \in DOMAIN m /\ c \in m[ip].active
  BY <1>1, <1>2, <1>3 DEF SameWorth, ActiveIn
<1>5. stateByIp' = Unregistered(m, ip, c, now)
  BY DEF Release
<1> HIDE DEF m, ip
<1>6. Unregistered(m, ip, c, now) = DeleteIfIdle(n, ip, now)
  BY <1>4 DEF Unregistered
<1>7. IsStateAt(m[ip], now)
  BY <1>2, <1>4 DEF IsMapAt
<1>8. /\ f.active = m[ip].active \ {c}
      /\ f.tokens = m[ip].tokens
      /\ f.lastRefillAt = m[ip].lastRefillAt
      /\ f.lastSeenAt = now
      /\ f \in IpState
  BY <1>1, <1>7 DEF IsStateAt, IpState
<1>9. IsStateAt(f, now) /\ LevelAt(f, now) = LevelIn(m, ip, now)
  BY <1>1, <1>4, <1>7, <1>8, FS_RemoveElement DEF IsStateAt, LevelAt, LevelIn
<1> HIDE DEF f
<1>10. /\ IsMapAt(n, now)
       /\ LevelIn(n, ip, now) = LevelIn(m, ip, now)
       /\ ActiveIn(n, ip) = ActiveIn(m, ip) \ {c}
       /\ \A i \in IP \ {ip} :
             /\ LevelIn(n, i, now) = LevelIn(m, i, now)
             /\ ActiveIn(n, i) = ActiveIn(m, i)
  <2>1. f.active = ActiveIn(m, ip) \ {c}
    BY <1>4, <1>8 DEF ActiveIn
  <2> QED BY <1>1, <1>2, <1>9, <2>1, PutWorth
<1> HIDE DEF n
<1>11. IsMapAt(stateByIp', now) /\ SameWorth(stateByIp', n, now)
  BY <1>1, <1>5, <1>6, <1>10, DeleteKeepsWorth
<1>12. \A i \in IP \ {ip} : c \notin ActiveIn(m, i)
  BY <1>2, <1>3 DEF SameWorth
<1> QED
  BY <1>1, <1>2, <1>3, <1>10, <1>11, <1>12 DEF SameWorth, ip

\* A tick refills every bucket by its share of a minute.
LEMMA TickEffect ==
  ASSUME IInv, Tick
  PROVE  /\ IsMapAt(stateByIp, now + 1)
         /\ \A ip \in IP : LevelIn(stateByIp, ip, now + 1)
                            = AtMostCapacity(LevelIn(stateByIp, ip, now) + MaxConnPerMin)
<1>1. now \in Nat
  BY RateLimiterAssumption DEF IInv, TypeOK
<1>2. IsMapAt(stateByIp, now + 1)
  BY <1>1 DEF IInv, IsMapAt, IsStateAt, IpState
<1>3. ASSUME NEW ip \in IP
      PROVE  LevelIn(stateByIp, ip, now + 1)
               = AtMostCapacity(LevelIn(stateByIp, ip, now) + MaxConnPerMin)
  <2>1. CASE ip \in DOMAIN stateByIp
    BY <1>1, <2>1, LevelNext DEF LevelIn, IInv, IsMapAt, IsStateAt
  <2>2. CASE ip \notin DOMAIN stateByIp
    BY <2>2, ConstantTypes, RateLimiterAssumption DEF LevelIn, AtMostCapacity
  <2> QED BY <2>1, <2>2
<1> QED BY <1>2, <1>3

-----------------------------------------------------------------------------
(* The invariant is inductive. *)

\* No client is tracked at first: all buckets are full and empty of slots.
LEMMA InitIInv == Init => IInv
<1> SUFFICES ASSUME Init PROVE IInv
  OBVIOUS
<1>1. TypeOK /\ ExactAccounting
  BY RateLimiterAssumption DEF Init, TypeOK, ExactAccounting, ActiveOf
<1>2. IsMapAt(stateByIp, now)
  BY DEF Init, IsMapAt
<1>3. ConcurrencyBound
  <2>1. \A ip \in IP : {c \in Conn : open[c] = ip} = {}
    BY RateLimiterAssumption DEF Init
  <2> QED BY <2>1, FS_EmptySet, RateLimiterAssumption DEF ConcurrencyBound
<1>4. WindowInv
  <2>1. \A ip \in IP : LevelOf(ip) = Capacity /\ accepted[ip] = 0
    BY DEF Init, LevelOf
  <2>2. now - windowStart = 0
    BY DEF Init
  <2> QED BY <2>1, <2>2, ConstantTypes, RateLimiterAssumption DEF WindowInv
<1> QED BY <1>1, <1>2, <1>3, <1>4 DEF IInv

\* Every step keeps the types.
LEMMA TypeStep ==
  ASSUME IInv, [Next]_vars PROVE TypeOK'
<1>0. now \in Nat /\ CleanupClock(now) \in Nat
  BY RateLimiterAssumption DEF IInv, TypeOK, CleanupClock
<1>1. ASSUME NEW ip \in IP, NEW c \in Conn, Admit(ip, c) PROVE TypeOK'
  <2>1. IsMapAt(stateByIp', now)
    BY <1>1, AdmitEffect
  <2> QED BY <1>0, <1>1, <2>1 DEF IInv, TypeOK, Admit, IsMapAt, IsStateAt
<1>2. ASSUME NEW ip \in IP, Deny(ip) PROVE TypeOK'
  <2>1. IsMapAt(stateByIp', now)
    BY <1>2, DenyEffect
  <2> QED BY <1>0, <1>2, <2>1 DEF IInv, TypeOK, Deny, IsMapAt, IsStateAt
<1>3. ASSUME NEW c \in Conn, Release(c) PROVE TypeOK'
  <2>1. IsMapAt(stateByIp', now)
    BY <1>3, ReleaseEffect
  <2> QED BY <1>0, <1>3, <2>1 DEF IInv, TypeOK, Release, IsMapAt, IsStateAt
<1>4. CASE Tick
  BY <1>4, RateLimiterAssumption DEF IInv, TypeOK, Tick
<1>5. CASE OpenWindow
  BY <1>5, RateLimiterAssumption DEF IInv, TypeOK, OpenWindow
<1>6. CASE UNCHANGED vars
  BY <1>6 DEF IInv, TypeOK, vars
<1> QED BY <1>1, <1>2, <1>3, <1>4, <1>5, <1>6 DEF Next

\* Every step keeps the map well-formed at the time of the clock.
LEMMA MapStep ==
  ASSUME IInv, [Next]_vars PROVE IsMapAt(stateByIp', now')
<1>1. ASSUME NEW ip \in IP, NEW c \in Conn, Admit(ip, c)
      PROVE  IsMapAt(stateByIp', now')
  BY <1>1, AdmitEffect DEF Admit
<1>2. ASSUME NEW ip \in IP, Deny(ip) PROVE IsMapAt(stateByIp', now')
  BY <1>2, DenyEffect DEF Deny
<1>3. ASSUME NEW c \in Conn, Release(c) PROVE IsMapAt(stateByIp', now')
  BY <1>3, ReleaseEffect DEF Release
<1>4. CASE Tick
  BY <1>4, TickEffect DEF Tick
<1>5. CASE OpenWindow
  BY <1>5 DEF IInv, OpenWindow
<1>6. CASE UNCHANGED vars
  BY <1>6 DEF IInv, vars
<1> QED BY <1>1, <1>2, <1>3, <1>4, <1>5, <1>6 DEF Next

\* Every step keeps what the map counts equal to what will be released.
LEMMA AccountingStep ==
  ASSUME IInv, [Next]_vars PROVE ExactAccounting'
<1>0. \A ip \in IP : ActiveIn(stateByIp, ip) = {c \in Conn : open[c] = ip}
  BY DEF IInv, ExactAccounting, ActiveOf, ActiveIn
<1>1. SUFFICES \A ip \in IP : ActiveIn(stateByIp', ip) = {c \in Conn : open'[c] = ip}
  BY DEF ExactAccounting, ActiveOf, ActiveIn
<1>2. ASSUME NEW ip \in IP, NEW c \in Conn, Admit(ip, c)
      PROVE  \A i \in IP : ActiveIn(stateByIp', i) = {d \in Conn : open'[d] = i}
  <2>1. open' = [open EXCEPT ![c] = ip] /\ open[c] = NoIp
    BY <1>2 DEF Admit
  <2>2. \A i \in IP : ActiveIn(stateByIp', i)
           = IF i = ip THEN ActiveIn(stateByIp, i) \cup {c} ELSE ActiveIn(stateByIp, i)
    BY <1>2, AdmitEffect
  <2> QED BY <1>0, <2>1, <2>2, RateLimiterAssumption DEF IInv, TypeOK
<1>3. ASSUME NEW ip \in IP, Deny(ip)
      PROVE  \A i \in IP : ActiveIn(stateByIp', i) = {d \in Conn : open'[d] = i}
  BY <1>0, <1>3, DenyEffect DEF Deny, SameWorth
<1>4. ASSUME NEW c \in Conn, Release(c)
      PROVE  \A i \in IP : ActiveIn(stateByIp', i) = {d \in Conn : open'[d] = i}
  <2>1. open' = [open EXCEPT ![c] = NoIp]
    BY <1>4 DEF Release
  <2>2. \A i \in IP : ActiveIn(stateByIp', i) = ActiveIn(stateByIp, i) \ {c}
    BY <1>4, ReleaseEffect
  <2> QED BY <1>0, <2>1, <2>2, RateLimiterAssumption DEF IInv, TypeOK
<1>5. CASE Tick
  BY <1>0, <1>5 DEF Tick
<1>6. CASE OpenWindow
  BY <1>0, <1>6 DEF OpenWindow
<1>7. CASE UNCHANGED vars
  BY <1>0, <1>7 DEF vars
<1> QED BY <1>2, <1>3, <1>4, <1>5, <1>6, <1>7 DEF Next

\* Every step keeps to the concurrent gate.
LEMMA ConcurrencyStep ==
  ASSUME IInv, [Next]_vars PROVE ConcurrencyBound'
<1> DEFINE held(ip) == {c \in Conn : open[c] = ip}
<1>0. \A ip \in IP : /\ held(ip) = ActiveIn(stateByIp, ip)
                     /\ IsFiniteSet(held(ip))
                     /\ Cardinality(held(ip)) <= MaxConnPerIp
  <2>1. \A ip \in IP : held(ip) = ActiveIn(stateByIp, ip)
    BY DEF IInv, ExactAccounting, ActiveOf, ActiveIn
  <2>2. \A ip \in IP : IsFiniteSet(ActiveIn(stateByIp, ip))
    BY FS_EmptySet DEF IInv, IsMapAt, IsStateAt, ActiveIn
  <2> QED BY <2>1, <2>2 DEF IInv, ConcurrencyBound
<1>1. SUFFICES \A ip \in IP : Cardinality(held(ip)') <= MaxConnPerIp
  BY DEF ConcurrencyBound
<1>2. ASSUME NEW ip \in IP, NEW c \in Conn, Admit(ip, c)
      PROVE  \A i \in IP : Cardinality(held(i)') <= MaxConnPerIp
  <2>1. open' = [open EXCEPT ![c] = ip] /\ open[c] = NoIp
    BY <1>2 DEF Admit
  <2>2. c \notin held(ip) /\ Cardinality(held(ip)) < MaxConnPerIp
    BY <1>0, <1>2, AdmitEffect
  <2>3. held(ip)' = held(ip) \cup {c}
    BY <2>1 DEF IInv, TypeOK
  <2>4. \A i \in IP \ {ip} : held(i)' = held(i)
    BY <2>1, RateLimiterAssumption DEF IInv, TypeOK
  <2>5. Cardinality(held(ip)') = Cardinality(held(ip)) + 1
    <3> HIDE DEF held
    <3> QED BY <1>0, <2>2, <2>3, FS_AddElement
  <2>6. Cardinality(held(ip)) \in Nat
    BY <1>0, FS_CardinalityType
  <2> HIDE DEF held
  <2> QED BY <1>0, <2>2, <2>4, <2>5, <2>6, RateLimiterAssumption
<1>3. ASSUME NEW c \in Conn, Release(c)
      PROVE  \A i \in IP : Cardinality(held(i)') <= MaxConnPerIp
  <2>1. open' = [open EXCEPT ![c] = NoIp]
    BY <1>3 DEF Release
  <2>2. \A i \in IP : held(i)' \in SUBSET held(i)
    BY <2>1, RateLimiterAssumption DEF IInv, TypeOK
  <2>3. \A i \in IP : /\ Cardinality(held(i)') <= Cardinality(held(i))
                      /\ Cardinality(held(i)') \in Nat
                      /\ Cardinality(held(i)) \in Nat
    <3> HIDE DEF held
    <3> QED BY <1>0, <2>2, FS_Subset, FS_CardinalityType
  <2> HIDE DEF held
  <2> QED BY <1>0, <2>3, RateLimiterAssumption
<1>4. CASE UNCHANGED open
  BY <1>0, <1>4
<1> QED BY <1>2, <1>3, <1>4 DEF Next, vars, Deny, Tick, OpenWindow

\* Every step keeps admissions and level together within bucket and refill.
LEMMA WindowStep ==
  ASSUME IInv, [Next]_vars PROVE WindowInv'
<1>0. /\ now \in Nat /\ windowStart \in Nat /\ windowStart <= now
      /\ accepted \in [IP -> Nat]
      /\ \A ip \in IP : LevelIn(stateByIp, ip, now) \in 0..Capacity
  BY LevelOfType, RateLimiterAssumption DEF IInv, TypeOK
<1> DEFINE refill == (now - windowStart) * MaxConnPerMin
<1>1. \A ip \in IP : accepted[ip] * Token + LevelIn(stateByIp, ip, now)
                      <= Capacity + refill
  BY DEF IInv, WindowInv, LevelOf, LevelIn
<1>2. refill \in Nat /\ \A ip \in IP : accepted[ip] * Token \in Nat
  BY <1>0, RefillNat, ConstantTypes
<1>3. SUFFICES \A ip \in IP :
        accepted'[ip] * Token + LevelIn(stateByIp', ip, now')
          <= Capacity + (now' - windowStart') * MaxConnPerMin
  BY DEF WindowInv, LevelOf, LevelIn
<1>4. ASSUME NEW ip \in IP, NEW c \in Conn, Admit(ip, c), NEW i \in IP
      PROVE  accepted'[i] * Token + LevelIn(stateByIp', i, now')
               <= Capacity + (now' - windowStart') * MaxConnPerMin
  <2>1. /\ now' = now /\ windowStart' = windowStart
        /\ accepted' = [accepted EXCEPT ![ip] = @ + 1]
    BY <1>4 DEF Admit
  <2>2. CASE i = ip
    <3>1. LevelIn(stateByIp', i, now') = LevelIn(stateByIp, i, now) - Token
      BY <1>4, <2>1, <2>2, AdmitEffect
    <3>2. accepted'[i] * Token = accepted[i] * Token + Token
      BY <1>0, <2>1, <2>2, ConstantTypes
    <3> HIDE DEF refill
    <3> QED BY <1>0, <1>1, <1>2, <2>1, <3>1, <3>2, ConstantTypes DEF refill
  <2>3. CASE i # ip
    <3>1. LevelIn(stateByIp', i, now') = LevelIn(stateByIp, i, now)
      BY <1>4, <2>1, <2>3, AdmitEffect
    <3> QED BY <1>0, <1>1, <2>1, <2>3, <3>1
  <2> QED BY <2>2, <2>3
<1>5. ASSUME NEW ip \in IP, Deny(ip), NEW i \in IP
      PROVE  accepted'[i] * Token + LevelIn(stateByIp', i, now')
               <= Capacity + (now' - windowStart') * MaxConnPerMin
  BY <1>1, <1>5, DenyEffect DEF Deny, SameWorth
<1>6. ASSUME NEW c \in Conn, Release(c), NEW i \in IP
      PROVE  accepted'[i] * Token + LevelIn(stateByIp', i, now')
               <= Capacity + (now' - windowStart') * MaxConnPerMin
  BY <1>1, <1>6, ReleaseEffect DEF Release
<1>7. ASSUME Tick, NEW i \in IP
      PROVE  accepted'[i] * Token + LevelIn(stateByIp', i, now')
               <= Capacity + (now' - windowStart') * MaxConnPerMin
  <2>1. /\ now' = now + 1 /\ stateByIp' = stateByIp
        /\ windowStart' = windowStart /\ accepted' = accepted
    BY <1>7 DEF Tick
  <2>2. LevelIn(stateByIp', i, now')
          = AtMostCapacity(LevelIn(stateByIp, i, now) + MaxConnPerMin)
    BY <1>7, <2>1, TickEffect
  <2>3. (now' - windowStart') * MaxConnPerMin = refill + MaxConnPerMin
    BY <1>0, <2>1, RateLimiterAssumption
  <2> HIDE DEF refill
  <2>4. LevelIn(stateByIp', i, now') <= LevelIn(stateByIp, i, now) + MaxConnPerMin
    BY <1>0, <2>2, ConstantTypes, RateLimiterAssumption DEF AtMostCapacity
  <2>5. LevelIn(stateByIp', i, now') \in Nat
    BY <1>0, <2>2, CapType, ConstantTypes, RateLimiterAssumption
  <2> QED BY <1>0, <1>1, <1>2, <2>1, <2>3, <2>4, <2>5, ConstantTypes, RateLimiterAssumption
<1>8. ASSUME OpenWindow, NEW i \in IP
      PROVE  accepted'[i] * Token + LevelIn(stateByIp', i, now')
               <= Capacity + (now' - windowStart') * MaxConnPerMin
  <2>1. /\ now' = now /\ stateByIp' = stateByIp /\ windowStart' = now
        /\ accepted'[i] = 0
    BY <1>8 DEF OpenWindow
  <2>2. (now' - windowStart') * MaxConnPerMin = 0 /\ accepted'[i] * Token = 0
    BY <1>0, <2>1, ConstantTypes, RateLimiterAssumption
  <2> QED BY <1>0, <2>1, <2>2, ConstantTypes
<1>9. CASE UNCHANGED vars
  BY <1>1, <1>9 DEF vars
<1> QED BY <1>4, <1>5, <1>6, <1>7, <1>8, <1>9 DEF Next

\* The inductive invariant holds at first and is kept by every step.
THEOREM Inductive == Spec => []IInv
<1>1. Init => IInv
  BY InitIInv
<1>2. IInv /\ [Next]_vars => IInv'
  BY TypeStep, MapStep, AccountingStep, ConcurrencyStep, WindowStep DEF IInv
<1> QED BY <1>1, <1>2, PTL DEF Spec

-----------------------------------------------------------------------------
(* The properties *)

\* Every field of the limiter keeps its type (ratelimit.ts:206-232).
THEOREM TypeCorrect == Spec => []TypeOK
<1>1. IInv => TypeOK
  BY DEF IInv
<1> QED BY <1>1, Inductive, PTL

\* The map counts exactly the connections whose release is still to come, on
\* which the concurrent gate rests (ratelimit.ts:109-152,234-245).
THEOREM SlotsAreExact == Spec => []ExactAccounting
<1>1. IInv => ExactAccounting
  BY DEF IInv
<1> QED BY <1>1, Inductive, PTL

\* No client ever holds more than maxConnPerIp connections (ratelimit.ts:99).
THEOREM ConcurrencyIsBounded == Spec => []ConcurrencyBound
<1>1. IInv => ConcurrencyBound
  BY DEF IInv
<1> QED BY <1>1, Inductive, PTL

\* Admissions over any stretch of time are at most a bucket and its refill
\* (ratelimit.ts:103,223-232).
THEOREM AdmissionsAreBounded == Spec => []WindowBound
<1>1. IInv => WindowBound
  <2> SUFFICES ASSUME IInv, NEW ip \in IP
               PROVE  accepted[ip] * Token
                        <= Capacity + (now - windowStart) * MaxConnPerMin
    BY DEF WindowBound
  <2>1. LevelIn(stateByIp, ip, now) \in 0..Capacity
    BY LevelOfType, RateLimiterAssumption DEF IInv, TypeOK
  <2>2. accepted[ip] * Token + LevelIn(stateByIp, ip, now)
          <= Capacity + (now - windowStart) * MaxConnPerMin
    BY DEF IInv, WindowInv, LevelOf, LevelIn
  <2>3. accepted[ip] * Token \in Nat
    BY ConstantTypes DEF IInv, TypeOK
  <2>4. (now - windowStart) * MaxConnPerMin \in Nat
    BY RefillNat, RateLimiterAssumption DEF IInv, TypeOK
  <2> QED BY <2>1, <2>2, <2>3, <2>4, ConstantTypes
<1> QED BY <1>1, Inductive, PTL

\* Rounding up: the least multiple of b that is not below a.
LEMMA CeilDivBounds ==
  ASSUME NEW a \in Nat \ {0}, NEW b \in Nat \ {0}
  PROVE  /\ CeilDiv(a, b) \in Nat \ {0}
         /\ CeilDiv(a, b) * b >= a
         /\ (CeilDiv(a, b) - 1) * b < a
<1> DEFINE x == a + b - 1
           q == x \div b
<1>1. x \in Nat /\ x >= b
  OBVIOUS
<1>2. q \in Int /\ b * q <= x /\ x < b * q + b
  <2> HIDE DEF x
  <2> QED BY <1>1, Z3
<1>3. q >= 1
  BY <1>1, <1>2
<1>4. (q - 1) * b = b * q - b /\ q * b = b * q
  BY <1>2
<1>5. CeilDiv(a, b) = q
  BY DEF CeilDiv
<1> HIDE DEF q
<1> QED BY <1>2, <1>3, <1>4, <1>5

\* The bucket of a state that is refilled now, so many ticks from now.
LEMMA LevelAhead ==
  ASSUME NEW s, NEW t \in Nat, IsStateAt(s, t), s.lastRefillAt = t, NEW d \in Nat
  PROVE  LevelAt(s, t + d) = AtMostCapacity(s.tokens + d * MaxConnPerMin)
<1>1. s.tokens \in 0..Capacity
  BY DEF IsStateAt, IpState
<1>2. CASE d = 0
  <2>1. t + d <= t /\ d * MaxConnPerMin = 0
    BY <1>2, RateLimiterAssumption
  <2> QED BY <1>1, <2>1, ConstantTypes DEF LevelAt, AtMostCapacity
<1>3. CASE d # 0
  <2>1. ~(t + d <= s.lastRefillAt) /\ (t + d) - s.lastRefillAt = d
    BY <1>3
  <2> QED BY <2>1 DEF LevelAt
<1> QED BY <1>2, <1>3

\* The Retry-After answer suffices and is less than a second too long
\* (ratelimit.ts:171-196).
THEOREM RetryAfterIsRight == Spec => []RetryAfterIsClose
<1>1. IInv => RetryAfterIsClose
  <2> SUFFICES ASSUME IInv, NEW ip \in DOMAIN stateByIp
               PROVE  LET s == Refilled(stateByIp[ip], now)
                      IN  HasFreeSlot(s) /\ ~HasToken(s) =>
                            \A wait \in RetryAfters(s) :
                              /\ LevelAt(s, now + wait * OneSecond) >= Token
                              /\ wait > 1 =>
                                   LevelAt(s, now + (wait - 1) * OneSecond - 1) < Token
    BY DEF RetryAfterIsClose
  <2> DEFINE s == Refilled(stateByIp[ip], now)
  <2>1. now \in Nat
    BY RateLimiterAssumption DEF IInv, TypeOK
  <2>2. IsStateAt(s, now) /\ s.lastRefillAt = now
    BY <2>1, RefillKeepsLevel DEF IInv, IsMapAt
  <2> HIDE DEF s
  <2> SUFFICES ASSUME HasFreeSlot(s), ~HasToken(s), NEW wait \in RetryAfters(s)
               PROVE  /\ LevelAt(s, now + wait * OneSecond) >= Token
                      /\ wait > 1 => LevelAt(s, now + (wait - 1) * OneSecond - 1) < Token
    BY DEF s
  <2> DEFINE missing == Token - s.tokens
             second  == MaxConnPerMin * OneSecond
  <2>3. /\ s.tokens \in Nat /\ s.tokens + missing = Token
        /\ missing \in Nat \ {0} /\ second \in Nat \ {0}
    BY <2>2, ConstantTypes, RateLimiterAssumption DEF HasToken, IsStateAt, IpState
  <2>4. wait \in CeilDiv(missing, second)..(missing \div second + 1)
    BY DEF RetryAfters
  <2>5. wait \in Nat \ {0} /\ wait * second >= missing /\ (wait - 1) * second <= missing
    <3> HIDE DEF missing, second
    <3> DEFINE c == CeilDiv(missing, second)
               q == missing \div second
    <3>1. c \in Nat \ {0} /\ c * second >= missing
      BY <2>3, CeilDivBounds
    <3>2. q \in Nat /\ q * second <= missing
      <4>1. q \in Int /\ second * q <= missing /\ q >= 0
        BY <2>3, Z3
      <4> QED BY <2>3, <4>1
    <3> HIDE DEF c, q
    <3>3. wait \in Nat \ {0} /\ wait >= c /\ wait - 1 <= q /\ wait - 1 \in Nat
      BY <2>4, <3>1, <3>2 DEF c, q
    <3>4. wait * second >= c * second /\ (wait - 1) * second <= q * second
      BY <2>3, <3>1, <3>2, <3>3
    <3> QED BY <2>3, <3>1, <3>2, <3>3, <3>4
  <2>6. LevelAt(s, now + wait * OneSecond) >= Token
    <3>1. /\ wait * OneSecond \in Nat
          /\ (wait * OneSecond) * MaxConnPerMin = wait * second
      BY <2>5, RateLimiterAssumption
    <3>2. LevelAt(s, now + wait * OneSecond) = AtMostCapacity(s.tokens + wait * second)
      BY <2>1, <2>2, <3>1, LevelAhead
    <3>3. wait * second \in Nat
      BY <2>3, <2>5
    <3> HIDE DEF missing, second
    <3> QED BY <2>3, <2>5, <3>2, <3>3, ConstantTypes DEF AtMostCapacity
  <2>7. ASSUME wait > 1 PROVE LevelAt(s, now + (wait - 1) * OneSecond - 1) < Token
    <3> DEFINE d == (wait - 1) * OneSecond - 1
    <3>1. d \in Nat /\ now + (wait - 1) * OneSecond - 1 = now + d
      BY <2>1, <2>5, <2>7, RateLimiterAssumption
    <3>2. d * MaxConnPerMin = (wait - 1) * second - MaxConnPerMin
      BY <2>5, RateLimiterAssumption
    <3> HIDE DEF d, missing, second
    <3>3. d * MaxConnPerMin \in Nat /\ d * MaxConnPerMin < missing
      <4>1. d * MaxConnPerMin \in Nat
        BY <3>1, RefillNat
      <4>2. (wait - 1) * second \in Int
        BY <2>3, <2>5
      <4> QED BY <2>3, <2>5, <3>2, <4>1, <4>2, RateLimiterAssumption
    <3>4. LevelAt(s, now + d) = AtMostCapacity(s.tokens + d * MaxConnPerMin)
      BY <2>1, <2>2, <3>1, LevelAhead
    <3> QED BY <2>3, <3>1, <3>3, <3>4, ConstantTypes DEF AtMostCapacity
  <2> QED BY <2>6, <2>7
<1> QED BY <1>1, Inductive, PTL

\* The lazy limiter implements the eager token bucket: cleanup and deletion of
\* idle clients are invisible (ratelimit.ts:157-166,198-245).
THEOREM Implementation == Spec => ImplementsTokenBucket
<1> DEFINE lv == [ip \in IP |-> LevelOf(ip)]
           hd == [ip \in IP |-> ActiveOf(ip)]
<1>1. Init => Bucket!Init
  BY RateLimiterAssumption
  DEF Init, Bucket!Init, LevelOf, ActiveOf, Bucket!Capacity, Capacity
<1>2. IInv /\ [Next]_vars => [Bucket!Next]_(Bucket!vars)
  <2> SUFFICES ASSUME IInv, [Next]_vars PROVE [Bucket!Next]_(Bucket!vars)
    OBVIOUS
  <2>1. /\ Bucket!Token = Token
        /\ \A n : Bucket!AtMostCapacity(n) = AtMostCapacity(n)
        /\ \A S : Bucket!Cardinality(S) = Cardinality(S)
    BY DEF Bucket!Token, Token, Bucket!Capacity, Capacity, Bucket!AtMostCapacity,
           AtMostCapacity, Bucket!Cardinality, Cardinality
  <2>2. \A ip \in IP : /\ LevelOf(ip) = LevelIn(stateByIp, ip, now)
                       /\ LevelOf(ip)' = LevelIn(stateByIp', ip, now')
                       /\ ActiveOf(ip) = ActiveIn(stateByIp, ip)
                       /\ ActiveOf(ip)' = ActiveIn(stateByIp', ip)
    BY DEF LevelOf, ActiveOf, LevelIn, ActiveIn
  <2>3. ASSUME NEW ip \in IP, NEW c \in Conn, Admit(ip, c) PROVE Bucket!Next
    <3>1. \A i \in IP : c \notin hd[i]
      BY <2>3, RateLimiterAssumption DEF Admit, IInv, ExactAccounting
    <3>2. /\ Cardinality(hd[ip]) < MaxConnPerIp /\ lv[ip] >= Token
          /\ lv' = [lv EXCEPT ![ip] = @ - Token]
          /\ hd' = [hd EXCEPT ![ip] = @ \cup {c}]
      <4>1. now' = now
        BY <2>3 DEF Admit
      <4>2. /\ Cardinality(ActiveOf(ip)) < MaxConnPerIp /\ LevelOf(ip) >= Token
            /\ \A i \in IP : /\ LevelOf(i)' = IF i = ip THEN LevelOf(i) - Token ELSE LevelOf(i)
                             /\ ActiveOf(i)' = IF i = ip THEN ActiveOf(i) \cup {c} ELSE ActiveOf(i)
        BY <2>2, <2>3, <4>1, AdmitEffect
      <4> QED BY <4>2
    <3>3. /\ accepted' = [accepted EXCEPT ![ip] = @ + 1]
          /\ now' = now /\ windowStart' = windowStart
      BY <2>3 DEF Admit
    <3>4. Bucket!Admit(ip, c)
      BY <2>1, <3>1, <3>2, <3>3 DEF Bucket!Admit
    <3> QED BY <3>4 DEF Bucket!Next
  <2>4. ASSUME NEW ip \in IP, Deny(ip) PROVE UNCHANGED Bucket!vars
    <3>1. now' = now
      BY <2>4 DEF Deny
    <3>2. lv' = lv /\ hd' = hd
      <4>1. \A i \in IP : LevelOf(i)' = LevelOf(i) /\ ActiveOf(i)' = ActiveOf(i)
        BY <2>2, <2>4, <3>1, DenyEffect DEF SameWorth
      <4> QED BY <4>1
    <3> QED BY <2>4, <3>2 DEF Deny, Bucket!vars
  <2>5. ASSUME NEW c \in Conn, Release(c) PROVE Bucket!Next
    <3>1. now' = now
      BY <2>5 DEF Release
    <3>2. open[c] \in IP /\ c \in hd[open[c]]
      BY <2>2, <2>5, ReleaseEffect
    <3>3. \A i \in IP : i # open[c] => c \notin hd[i]
      BY DEF IInv, ExactAccounting
    <3>4. lv' = lv /\ hd' = [hd EXCEPT ![open[c]] = @ \ {c}]
      <4>1. \A i \in IP : /\ LevelOf(i)' = LevelOf(i)
                          /\ ActiveOf(i)' = ActiveOf(i) \ {c}
        BY <2>2, <2>5, <3>1, ReleaseEffect
      <4>2. \A i \in IP : ActiveOf(i)'
              = IF i = open[c] THEN ActiveOf(i) \ {c} ELSE ActiveOf(i)
        BY <3>3, <4>1
      <4> QED BY <3>2, <4>1, <4>2
    <3>5. Bucket!Release(open[c], c)
      BY <2>5, <3>2, <3>4 DEF Release, Bucket!Release
    <3> QED BY <3>2, <3>5 DEF Bucket!Next
  <2>6. CASE Tick
    <3>1. now' = now + 1 /\ stateByIp' = stateByIp
      BY <2>6 DEF Tick
    <3>2. lv' = [ip \in IP |-> AtMostCapacity(lv[ip] + MaxConnPerMin)] /\ hd' = hd
      <4>1. \A i \in IP : /\ LevelOf(i)' = AtMostCapacity(LevelOf(i) + MaxConnPerMin)
                          /\ ActiveOf(i)' = ActiveOf(i)
        BY <2>2, <2>6, <3>1, TickEffect
      <4> QED BY <4>1
    <3>3. Bucket!Tick
      BY <2>1, <2>6, <3>2 DEF Tick, Bucket!Tick
    <3> QED BY <3>3 DEF Bucket!Next
  <2>7. CASE OpenWindow
    BY <2>7 DEF OpenWindow, Bucket!OpenWindow, Bucket!Next, LevelOf, ActiveOf
  <2>8. CASE UNCHANGED vars
    BY <2>8 DEF vars, Bucket!vars, LevelOf, ActiveOf
  <2> QED BY <2>3, <2>4, <2>5, <2>6, <2>7, <2>8 DEF Next
<1> QED BY <1>1, <1>2, Inductive, PTL DEF Spec, ImplementsTokenBucket, Bucket!Spec
=============================================================================
