------------------------------- MODULE Worker -------------------------------
(***************************************************************************)
(* The fetch handler of index.ts around the transport handlers: requests   *)
(* of several environments in one isolate, the caches that hold a manager  *)
(* per environment, the concurrent gate of the limiter, and the closures   *)
(* that give back what a request holds.                                    *)
(*                                                                         *)
(* A manager is cached under the settings it was made from, so             *)
(* environments may share one.  A cache with MAX_ENV_CACHE_ENTRIES         *)
(* managers is cleared when another key comes, and a key it knew before    *)
(* gets a new manager; requests under way keep the one they were given.  A *)
(* manager is named <<key, number>>, the number counting those made for    *)
(* the key. The cache of backend managers works alike, and the failover    *)
(* loop keeps the manager it was given; it holds nothing of a request.     *)
(*                                                                         *)
(* All requests are of one client and each has a UUID of its own: what     *)
(* clients and UUIDs share, and the token bucket, is in Connections and    *)
(* RateLimiter.                                                            *)
(***************************************************************************)
EXTENDS Handlers

CONSTANTS Env, Key,
          KeyOf,               \* KeyOf[k][e]: the key that the settings of e give in the cache k
          MaxEnvCacheEntries,
          MaxConnPerIp,        \* RATE_LIMIT_MAX_CONN_PER_IP
          MaxManagers          \* bound on the managers made for requests that are over at once

Cache == {"limiters", "uuids"}

ASSUME WorkerAssumption ==
  /\ MaxEnvCacheEntries \in Nat \ {0}
  /\ MaxConnPerIp \in Nat \ {0}
  /\ IsFiniteSet(Key)
  /\ KeyOf \in [Cache -> [Env -> Key]]

VARIABLES
  cached,      \* cached[k]: keys in the cache k
  created,     \* created[k][x]: managers made for the key x
  limiter,     \* the ConnectionRateLimiter its closures hold
  uuids,       \* the UUIDConnectionManager its closures hold
  active,      \* <<limiter, request>>: the slots the limiters have given out
  registered   \* <<manager, request>>: the sessions the managers track

wvars == <<cached, created, limiter, uuids, active, registered>>
vars == <<hvars, wvars>>

-----------------------------------------------------------------------------
(* Caches *)

\* pruneSmallCache
Pruned(k) == IF Cardinality(cached[k]) < MaxEnvCacheEntries THEN cached[k] ELSE {}

Missed(k, x) == x \notin cached[k]

\* getUuidManager and getRateLimiter
Get(e) ==
  /\ cached' = [k \in Cache |-> LET x == KeyOf[k][e]
                               IN  IF Missed(k, x) THEN Pruned(k) \cup {x} ELSE cached[k]]
  /\ created' = [k \in Cache |-> LET x == KeyOf[k][e]
                                IN  IF Missed(k, x) THEN [created[k] EXCEPT ![x] = @ + 1]
                                    ELSE created[k]]

\* The manager that the cache has for a key, or makes.
Latest(k, x) == <<x, IF Missed(k, x) THEN created[k][x] + 1 ELSE created[k][x]>>

\* The manager that Get finds or makes.
Manager(k, e) == Latest(k, KeyOf[k][e])

-----------------------------------------------------------------------------
(* Requests *)

NoManager == <<>>

WorkerInit ==
  /\ Init
  /\ cached = [k \in Cache |-> {}]
  /\ created = [k \in Cache |-> [x \in Key |-> 0]]
  /\ limiter = [r \in Request |-> NoManager]
  /\ uuids = [r \in Request |-> NoManager]
  /\ active = {}
  /\ registered = {}

\* The connections that the limiter m counts.
Admitted(m) == {r \in Request : <<m, r>> \in active}

\* checkConnectionAllowed of the limiter
Allowed(m) == Cardinality(Admitted(m)) < MaxConnPerIp

\* Mutant: the release closure asks the cache for the limiter.
HeldLimiter_LooksUp(r) ==
  IF limiter[r] = NoManager THEN NoManager ELSE Latest("limiters", limiter[r][1])

\* The limiter that the release closure has captured.
HeldLimiter(r) == limiter[r]

\* A response that is not 101 comes back, or the bridge closes: the release
\* closures run.
Released(r) ==
  /\ active' = active \ {<<HeldLimiter(r), r>>}
  /\ registered' = registered \ {<<uuids[r], r>>}

\* A request without an upgrade arrives: it passes no gate.
ArriveUngated(r, s) ==
  /\ ~Gated(s)
  /\ Arrive(r, s)
  /\ UNCHANGED wvars

\* An upgrade is admitted, takes its slot and calls the handler.
ArriveGated(r, s, e) ==
  /\ Gated(s)
  /\ Allowed(Manager("limiters", e))
  /\ Arrive(r, s)
  /\ Get(e)
  /\ limiter' = UpdateAt(limiter, r, Manager("limiters", e))
  /\ uuids' = UpdateAt(uuids, r, Manager("uuids", e))
  /\ active' = active \cup {<<Manager("limiters", e), r>>}
  /\ UNCHANGED registered

\* A request that is over at once leaves traces in the caches only.
Passes(e) ==
  /\ \A k \in Cache : Missed(k, KeyOf[k][e]) => created[k][KeyOf[k][e]] < MaxManagers
  /\ Get(e)
  /\ UNCHANGED <<hvars, limiter, uuids, active, registered>>

\* An upgrade is turned away with 429.
Deny(e) == ~Allowed(Manager("limiters", e)) /\ Passes(e)

\* An upgrade is admitted and refused by the handler: it gives its slot back at once.
Refuse(s, e) == Refused(s) /\ Allowed(Manager("limiters", e)) /\ Passes(e)

\* The request goes on; when it ends it gives back what it holds, and when its
\* bridge is ready it is registered with the UUID manager.
Proceed(r) ==
  /\ Continue(r)
  /\ IF phase'[r] = "done" /\ phase[r] # "done" THEN Released(r)
     ELSE /\ registered' = IF phase'[r] = "bridged" THEN registered \cup {<<uuids[r], r>>}
                           ELSE registered
          /\ UNCHANGED active
  /\ UNCHANGED <<cached, created, limiter, uuids>>

Next ==
  \/ \E e \in Env :
       \/ \E s \in Shape : Refuse(s, e) \/ \E r \in Request : ArriveGated(r, s, e)
       \/ Deny(e)
  \/ \E r \in Request : Proceed(r) \/ \E s \in Shape : ArriveUngated(r, s)

\* A timer that is set fires, a fetch that was aborted rejects, and so does one
\* without its body; the waits are timers, and cancelling is up to the runtime.
\* No backend is obliged to answer.
Fairness ==
  \A r \in Request :
    /\ WF_vars(Proceed(r) /\ TimerFires(r))
    /\ WF_vars(Proceed(r) /\ MustThrow(r))
    /\ WF_vars(Proceed(r) /\ (FetchAgain(r) \/ Retry(r) \/ CancelEnds(r)))

SafetySpec == WorkerInit /\ [][Next]_vars
Spec == SafetySpec /\ Fairness

-----------------------------------------------------------------------------
(* Properties *)

Name == Key \X (Nat \ {0})

\* Types; a key in a cache has a manager, the last one made for it.
TypeOK ==
  /\ HandlersTypeOK
  /\ cached \in [Cache -> SUBSET Key]
  /\ created \in [Cache -> [Key -> Nat]]
  /\ limiter \in [Request -> Name \cup {NoManager}]
  /\ uuids \in [Request -> Name \cup {NoManager}]
  /\ \A k \in Cache : \A x \in cached[k] : created[k][x] > 0
  /\ active \subseteq {limiter[r] : r \in Request} \X Request
  /\ registered \subseteq {uuids[r] : r \in Request} \X Request

Dialling == {r \in Request : Live(r)}
Bridged == {r \in Request : phase[r] = "bridged"}

\* Every limiter, forgotten by its cache or not, counts exactly the upgrades
\* that it admitted and that are not over, and no more than its limit; every
\* UUID manager tracks exactly its bridges.  So whatever way a request ends, by
\* refusal, failure, an answer or the close of its bridge, nobody keeps it.
HoldersAreExact ==
  /\ active = {<<limiter[r], r>> : r \in {q \in Bridged \cup Dialling : Gated(shape[q])}}
  /\ registered = {<<uuids[r], r>> : r \in Bridged}
  /\ \A r \in Request : Cardinality(Admitted(limiter[r])) <= MaxConnPerIp

\* A request as the failover loop sees it.
E(r) == INSTANCE Exchange WITH
          phase  <- IF phase[r] = "backoff" THEN "backoff"
                    ELSE IF Live(r) THEN "awaiting" ELSE "idle",
          kind   <- IF ~Live(r) THEN "none" ELSE IF Streams(shape[r]) THEN "stream" ELSE "plain",
          made   <- IF Live(r) THEN calls[r] ELSE 0,
          result <- IF answer[r] = "failure" THEN "failure" ELSE "none"

\* A failure is told after MaxAttempts calls, and a request whose body is used
\* up does not succeed any more.
StepsLikeExchange ==
  /\ \A r \in Request : E(r)!Init
  /\ [][\A r \in Request : [E(r)!Next]_(E(r)!vars)]_vars

\* What a request makes of its handler calls is what the failover loop relies
\* on; and each call comes to an end, by the timers alone (fetch.ts:54).
ImplementsExchange == StepsLikeExchange /\ \A r \in Request : E(r)!Liveness
=============================================================================
