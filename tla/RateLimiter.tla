---------------------------- MODULE RateLimiter ----------------------------
(***************************************************************************)
(* ConnectionRateLimiter (src/src/ratelimit.ts) as index.ts drives it: an  *)
(* upgrade request is checked and registered in one synchronous stretch    *)
(* (index.ts:643-650), and its release closure runs unregisterConnection   *)
(* at most once (index.ts:652-660).                                        *)
(*                                                                         *)
(* Tokens are exact here (units of 1/OneMinute of a token); the code keeps *)
(* them as doubles and compares with TOKEN_EPSILON, which absorbs their    *)
(* rounding when a connection is admitted.  Retry-After has no such slack, *)
(* and RetryAfters has both answers where the rounding decides.            *)
(* normalizeIp is the choice of IP: all the clients whose address cannot   *)
(* be read are the one member "unknown" of IP.                             *)
(***************************************************************************)
EXTENDS Integers, FiniteSets

CONSTANTS IP, Conn,
          MaxConnPerIp, MaxConnPerMin,
          OneMinute,             \* ONE_MINUTE_MS, in clock ticks
          OneSecond,             \* ticks in a second of Retry-After
          CleanupInterval,       \* CLEANUP_INTERVAL_MS
          ConcurrentRetryAfter,  \* CONCURRENT_LIMIT_RETRY_AFTER_SECONDS
          NoIp,                  \* a connection that holds no slot
          MaxTime                \* bound of the clock

ASSUME RateLimiterAssumption ==
  /\ MaxConnPerIp \in Nat \ {0}
  /\ MaxConnPerMin \in Nat \ {0}
  /\ OneMinute \in Nat \ {0}
  /\ OneSecond \in Nat \ {0}
  /\ CleanupInterval \in Nat \ {0}
  /\ ConcurrentRetryAfter \in Nat \ {0}
  /\ MaxTime \in Nat
  /\ NoIp \notin IP

VARIABLES
  now,            \* Date.now()
  stateByIp,      \* the Map: a function whose domain is the tracked IPs
  nextCleanupAt,
  open,           \* open[c]: the IP whose slot the release closure of c will
                  \* give back, NoIp before admission and once `released`
  windowStart,    \* observer: see TokenBucket
  accepted        \* observer

vars == <<now, stateByIp, nextCleanupAt, open, windowStart, accepted>>

Token        == OneMinute
Capacity     == MaxConnPerMin * OneMinute
IdleStateTtl == OneMinute

IpState == [active: SUBSET Conn, tokens: 0..Capacity,
            lastRefillAt: Nat, lastSeenAt: Nat]

-----------------------------------------------------------------------------
(* The operations on one client's state. *)

AtMostCapacity(n) == IF n <= Capacity THEN n ELSE Capacity

\* Mutant: the refill is not capped at the capacity of the bucket.
LevelAt_Uncapped(s, t) ==
  IF t <= s.lastRefillAt THEN s.tokens
  ELSE s.tokens + (t - s.lastRefillAt) * MaxConnPerMin

\* Units the bucket s will hold at time t if nothing is consumed.
LevelAt(s, t) ==
  IF t <= s.lastRefillAt THEN s.tokens
  ELSE AtMostCapacity(s.tokens + (t - s.lastRefillAt) * MaxConnPerMin)

\* Mutant: the refill forgets to advance lastRefillAt.
Refilled_KeepsLastRefillAt(s, t) == [s EXCEPT !.tokens = LevelAt(s, t)]

\* refillTokens
Refilled(s, t) ==
  [s EXCEPT !.tokens = LevelAt(s, t),
            !.lastRefillAt = IF t <= @ THEN @ ELSE t]

\* Mutant: the state of a client is dropped as soon as it holds no socket.
IsIdle_WhenEmpty(s, t) == s.active = {}

\* Mutant: the open connections of a client are not looked at.
IsIdle_IgnoresActive(s, t) ==
  s.tokens >= Capacity /\ t - s.lastSeenAt >= IdleStateTtl

\* deleteIfIdle's condition
IsIdle(s, t) ==
  /\ s.active = {}
  /\ s.tokens >= Capacity
  /\ t - s.lastSeenAt >= IdleStateTtl

NewState(t) ==
  [active |-> {}, tokens |-> Capacity, lastRefillAt |-> t, lastSeenAt |-> t]

GetOrCreate(m, ip, t) == IF ip \in DOMAIN m THEN m[ip] ELSE NewState(t)

Put(m, ip, s) == [i \in DOMAIN m \cup {ip} |-> IF i = ip THEN s ELSE m[i]]

DeleteIfIdle(m, ip, t) ==
  [i \in {j \in DOMAIN m : j # ip \/ ~IsIdle(m[j], t)} |-> m[i]]

\* cleanupOldAttempts: refill every tracked client, drop the idle ones.
CleanedUp(m, t) ==
  LET refilled == [i \in DOMAIN m |-> Refilled(m[i], t)]
  IN  [i \in {j \in DOMAIN m : ~IsIdle(refilled[j], t)} |-> refilled[i]]

CleanupDue(t) == t >= nextCleanupAt

\* maybeCleanup, which every public method runs first.
AfterCleanup(m, t) == IF CleanupDue(t) THEN CleanedUp(m, t) ELSE m
CleanupClock(t) == IF CleanupDue(t) THEN t + CleanupInterval ELSE nextCleanupAt

Touched(s, t) == [Refilled(s, t) EXCEPT !.lastSeenAt = t]

HasFreeSlot(s) == Cardinality(s.active) < MaxConnPerIp
HasToken(s) == s.tokens >= Token

\* The verdict of checkConnectionAllowed, s being already refilled.
Allowed(s) == HasFreeSlot(s) /\ HasToken(s)

\* registerConnection on a refilled state
Registered(s, c) ==
  IF c \in s.active THEN s
  ELSE [s EXCEPT !.active = @ \cup {c},
                 !.tokens = IF HasToken(s) THEN @ - Token ELSE 0]

CeilDiv(a, b) == (a + b - 1) \div b
AtLeastOne(n) == IF n >= 1 THEN n ELSE 1

\* Mutant: the fraction of a second is rounded down.
RetryAfters_Floor(s) ==
  IF ~HasFreeSlot(s) THEN {ConcurrentRetryAfter}
  ELSE IF HasToken(s) THEN {1}
  ELSE {AtLeastOne((Token - s.tokens) \div (MaxConnPerMin * OneSecond))}

\* getRetryAfterSeconds on a refilled state: the answers the build can give.
\* Math.ceil reads a quotient of doubles.  When the exact wait is a whole
\* number of seconds the double may lie just above it, and then the answer is
\* one more; at any other wait the next whole second is at least 1/1000 of a
\* second divided by MaxConnPerMin away, far more than a rounding error.
RetryAfters(s) ==
  LET missing == Token - s.tokens
      second  == MaxConnPerMin * OneSecond  \* what one second refills
  IN  IF ~HasFreeSlot(s) THEN {ConcurrentRetryAfter}
      ELSE IF HasToken(s) THEN {1}
      ELSE CeilDiv(missing, second)..(missing \div second + 1)

-----------------------------------------------------------------------------
(* Actions *)

Init ==
  /\ now = 0
  /\ stateByIp = [ip \in {} |-> NewState(0)]
  /\ nextCleanupAt = CleanupInterval
  /\ open = [c \in Conn |-> NoIp]
  /\ windowStart = 0
  /\ accepted = [ip \in IP |-> 0]

\* An upgrade request c of ip is let in: check, then register.
Admit(ip, c) ==
  LET cleaned == AfterCleanup(stateByIp, now)
      checked == Touched(GetOrCreate(cleaned, ip, now), now)
  IN  /\ open[c] = NoIp
      /\ Allowed(checked)
      /\ stateByIp' = Put(cleaned, ip, Registered(checked, c))
      /\ nextCleanupAt' = CleanupClock(now)
      /\ open' = [open EXCEPT ![c] = ip]
      /\ accepted' = [accepted EXCEPT ![ip] = @ + 1]
      /\ UNCHANGED <<now, windowStart>>

\* A request of ip is turned away with 429; the check still creates, refills
\* and touches the client's state, and getRetryAfterSeconds reads it.
Deny(ip) ==
  LET cleaned == AfterCleanup(stateByIp, now)
      checked == Touched(GetOrCreate(cleaned, ip, now), now)
  IN  /\ ~Allowed(checked)
      /\ stateByIp' = Put(cleaned, ip, checked)
      /\ nextCleanupAt' = CleanupClock(now)
      /\ UNCHANGED <<now, open, windowStart, accepted>>

\* The state unregisterConnection(ip, c) leaves in a map m.
Unregistered(m, ip, c, t) ==
  IF ip \notin DOMAIN m THEN m
  ELSE LET s == m[ip]
           freed == IF c \in s.active
                    THEN [s EXCEPT !.active = @ \ {c}, !.lastSeenAt = t]
                    ELSE s
       IN  DeleteIfIdle(Put(m, ip, freed), ip, t)

\* The release closure of c runs for the first time.
Release(c) ==
  /\ open[c] # NoIp
  /\ stateByIp' = Unregistered(AfterCleanup(stateByIp, now), open[c], c, now)
  /\ nextCleanupAt' = CleanupClock(now)
  /\ open' = [open EXCEPT ![c] = NoIp]
  /\ UNCHANGED <<now, windowStart, accepted>>

Tick ==
  /\ now < MaxTime
  /\ now' = now + 1
  /\ UNCHANGED <<stateByIp, nextCleanupAt, open, windowStart, accepted>>

OpenWindow ==
  /\ windowStart' = now
  /\ accepted' = [ip \in IP |-> 0]
  /\ UNCHANGED <<now, stateByIp, nextCleanupAt, open>>

Next ==
  \/ \E ip \in IP : Deny(ip) \/ \E c \in Conn : Admit(ip, c)
  \/ \E c \in Conn : Release(c)
  \/ Tick
  \/ OpenWindow

Spec == Init /\ [][Next]_vars

-----------------------------------------------------------------------------
(* Properties *)

\* The fields of the limiter and of the observers keep their types; a bucket
\* never holds more than its capacity and never a negative amount.
TypeOK ==
  /\ now \in 0..MaxTime
  /\ DOMAIN stateByIp \subseteq IP
  /\ \A ip \in DOMAIN stateByIp : stateByIp[ip] \in IpState
  /\ nextCleanupAt \in Nat
  /\ open \in [Conn -> IP \cup {NoIp}]
  /\ windowStart \in 0..now
  /\ accepted \in [IP -> Nat]

ActiveOf(ip) == IF ip \in DOMAIN stateByIp THEN stateByIp[ip].active ELSE {}

\* Slots are neither leaked nor lost: what the map counts for a client is
\* exactly what the release closures of its open connections will give back,
\* although idle states are deleted and created anew in between.
ExactAccounting ==
  \A ip \in IP : ActiveOf(ip) = {c \in Conn : open[c] = ip}

\* The concurrent gate: a client never holds more than maxConnPerIp open
\* connections (ratelimit.ts:99 checks, ratelimit.ts:124 adds unchecked).
ConcurrencyBound ==
  \A ip \in IP : Cardinality({c \in Conn : open[c] = ip}) <= MaxConnPerIp

\* The Retry-After answer is enough and close: after that many seconds a
\* client refused for its rate finds a token, and until the last of these
\* seconds begins (when the answer is more than the minimum of one) it finds
\* none, so that a client that obeys waits at most a second too long.
RetryAfterIsClose ==
  \A ip \in DOMAIN stateByIp :
    LET s == Refilled(stateByIp[ip], now)
    IN  HasFreeSlot(s) /\ ~HasToken(s) =>
          \A wait \in RetryAfters(s) :
            /\ LevelAt(s, now + wait * OneSecond) >= Token
            /\ wait > 1 => LevelAt(s, now + (wait - 1) * OneSecond - 1) < Token

\* The eager token bucket of each client, read off the lazy state: a client
\* that is not tracked has a full bucket and no connection.
LevelOf(ip) ==
  IF ip \in DOMAIN stateByIp THEN LevelAt(stateByIp[ip], now) ELSE Capacity

Bucket == INSTANCE TokenBucket WITH
  level   <- [ip \in IP |-> LevelOf(ip)],
  holders <- [ip \in IP |-> ActiveOf(ip)]

\* Lazy refill, the interval cleanup and the deletion of idle clients cannot
\* be told from a bucket that is refilled at every tick and never forgotten.
ImplementsTokenBucket == Bucket!Spec

\* Over any stretch of time a client is admitted no more than a full bucket
\* plus what the stretch refills: within one minute, less than twice the
\* maxConnPerMin of src/src/config.ts:18.
WindowBound ==
  \A ip \in IP :
    accepted[ip] * Token <= Capacity + (now - windowStart) * MaxConnPerMin
=============================================================================
