# Formal models of cf-xray-proxy

TLA+ models of the worker in `src/src`, TLC configurations that check them on
small instances, and theorems about them that TLAPS checks for every value of
the constants. Line numbers below are those of `src/src/...`.

The worker is one isolate: a single thread of JavaScript with module-level
state shared by all requests. What is hard in it is not parallelism but
interleaving: every `await` (a fetch, a backoff, a probe, a dial) lets other
requests run over the same managers, and callbacks re-enter them. In the models
an action is a stretch of code between two awaits.

## Inventory

| Component | State | Operations | Talks to | Hard about it | Correct means |
| --- | --- | --- | --- | --- | --- |
| Backend manager (`backend.ts`) | per backend `healthy`, `failures`, `consecutiveFailures`, `consecutiveSuccesses`; alias table and index heap of the healthy backends; `healthCheckInFlight`, `nextHealthCheckAt` | `getBackend`, `markFailed`, `markHealthy`, `maybeRunScheduledHealthChecks`, `runHealthChecks`, `checkBackendHealth`, `applyHealthProbeResult` | called by the failover loop and the status pages; probes its backends | rounds of probes detached from the request that started them; results applied at once and structures rebuilt at the end; late answers | flags, counters and structures agree whoever wrote last; recovery on recent evidence only; a recovered backend is used again |
| Alias table, index heap (`backend.ts`) | probability and alias columns; heap array and positions | build, sample; insert, top | backend manager | scaling and rounding of weights | each backend drawn with its share; heap top is the lowest index |
| Failover loop (`index.ts` 468-559) | per request: attempted backends, attempt counter, last failure | select, dial, record, back off, retry | backend manager, transport handlers | health changes between attempts; responses the handler made up itself | a failure is told only after all attempts, no backend tried twice while another was not |
| Transport handlers (`transports/`, `utils/ws-protocol.ts`) | one call: a socket pair, the backend's socket, early data | refuse, pass through, dial, reject, bridge | `fetchWithTimeout`, socket bridge | every way to fail has its own clean-up; bodies that may go once only | no socket left open, a call that always ends |
| Fetch with timeout (`utils/fetch.ts`) | attempt counter, controller and timer of the fetch under way | fetch, abort, back off | handlers | timer against answer | ends by itself, and leaves an answer alone |
| Environment caches (`index.ts` 39-126) | limiters, UUID managers and backend managers by their settings | get, clear when full | admission, failover | a manager outlives its place in the cache | whoever admitted a request gets it back |
| Rate limiter (`ratelimit.ts`) | per IP: open connections, tokens, `lastRefillAt`, `lastSeenAt`; `nextCleanupAt` | check, register, unregister, cleanup, Retry-After | connection admission | lazy refill, deletion and re-creation of idle clients, releases that come after it | an eager token bucket with a cap on open connections; Retry-After enough, and close |
| UUID manager (`uuid-manager.ts`) | buckets per UUID with indices by connection and by IP; `uuidByConnectionId`; `nextCleanupAt` | check, register (and replace), unregister, stale cleanup | admission; disconnect callbacks into the bridge, which call back | checked before the dial, registered after it; re-entrance | buckets hold live sessions only, within the cap, one per IP |
| Connection admission (`index.ts` 605-710) | release closures of one request | gates, registration, release | both of the above, failover | every way a connection ends releases once | slots exact |
| Socket bridge (`utils/socket.ts`) | `closed`, states of both ends, listeners | relay, close both | UUID manager (ready, disconnect), admission (closed) | payloads read asynchronously; either end closing first; being disconnected | closes both ends and releases exactly once; what is relayed is relayed in order |
| Subscription cache (`subscription/cache.ts`) | map and recency list of entries with size and expiry; `totalBytes`; `nextCleanupAt` | get, set, cleanup, evict | subscription handler | accounting by hand beside a linked list | list and map agree, bounds kept, nothing expired served |
| Subscription proxy (`subscription/index.ts`, `proxy.ts`) | in-flight requests; caches by TTL | miss, fetch, read with limit, store, serve | cache, origin | concurrent misses; old answers after new ones; body limit | body whole or refused; only 200 stored; age bounded |
| Subscription transform and configuration, header syntax, routing, pages | none, or memoised configuration | pure functions | | | |

The hazards of this list, each at its line, are in `PROJECT.json`.

## Modules

```
BackendManager <--EXTENDS-- Failover           <--EXTENDS-- MCFailover
                               ^
                        FailoverProofs
TokenBucket <--INSTANCE-- RateLimiter          <-- MCRateLimiter, RateLimiterProofs
Connections <--EXTENDS-- Reentrance            <-- MCConnections
     ^
ConnectionsProofs
SocketBridge                                   <-- MCSocketBridge, SocketBridgeProofs
SubscriptionCache, BodyReader <--EXTENDS-- Subscription <-- MCSubscription
                          LruCache <--INSTANCE-- Subscription <-- SubscriptionProofs
AliasTable                                     <-- MCAliasTable, AliasTableProofs
Lists <--EXTENDS-- Subscription, LruCache, AliasTable
Lists <-- ListsProofs <-- SubscriptionProofs, AliasTableProofs
Failover <--EXTENDS-- DetachedRound            <-- MCDetachedRound
Handlers <--EXTENDS-- Worker                   <-- MCWorker
                        ^
                   WorkerProofs
            Exchange <--INSTANCE-- Worker
```

`Connections` uses a bridge by what `SocketBridge` shows of it: it closes once,
and then releases. `BackendManager` uses an alias table by the set of backends
it was built from; `AliasTable` shows what is drawn from it. `Failover` uses a
handler by its outcome; `Exchange` states what that rests on and `Worker`, which
runs the handlers, implements it. `Worker` in turn has one client whose requests
all have UUIDs of their own; what clients and UUIDs share is in `Connections`.

### BackendManager

One action per method. `GetBackend`, `MarkFailed`, `MarkHealthy` are atomic as
in the code. A round of probes is several steps: `MaybeRunScheduledHealthChecks`
sends one probe per backend (as part of `getBackend`), each `ProbeAnswer(b)`
applies its result at once (`applyHealthProbeResult`), and `RoundEnds` is the
resumption of `Promise.all`, which rebuilds the structures if some result
changed a flag. A backend whose URL takes no path (`localhost:10000` parses as
a URL with an opaque path, so `new URL('/health', url)` throws) is in `opaque`:
its probe throws before its `try`, so the round rejects (`RoundRejects`) while
the probes that did leave go on.

The alias table and the heap are the set `healthyTable`, and `Picks(excluded)`
is the set of backends `getBackend` may return: weighted selection draws from
the table without looking at `healthy`, sticky selection takes the top of the
heap if it is healthy and else scans the list. The clock is the one bit
`checkDue`. Two observers, `stale` and `vindicated`, count which probes were
sent before a backend's last failure and whether it was heard from since.

### Failover

Requests as coroutines over one manager: `Arrive` and `Retry` run up to the
await of the handler, `Succeed` and `Fail` resume from it. `Refuse` is a request
that the handler answers itself without awaiting anything. A request of kind
`stream` is a pass-through with a body, which only its first fetch can send
(`toPassthroughInit` hands over `request.body` itself).

### DetachedRound

`Failover` on a runtime that may cancel what a request leaves behind. `starter`
is the request that started the last round; when that is over, `Cancel` may take
the round's probes away, and neither `RoundEnds` nor `RoundRejects` happens any
more: the `finally` of `runHealthChecks` does not run. That the runtime does so is
an assumption about Workers, where work that outlives its response is kept
running by `waitUntil` only; `fetch(request, env)` (index.ts 562) takes no context.

### TokenBucket and RateLimiter

`TokenBucket` is what the limiter promises: a bucket per client that fills at
every tick. `RateLimiter` is the code: states created on demand, refilled
lazily from `lastRefillAt`, cleaned up by interval, deleted when idle. `Admit`
is check and registration in one stretch (643-650), `Deny` the refusal with its
side effects, `Release` the release closure. Amounts are exact, in units of
1/60000 of a token; the code uses doubles. For an admission it compares them with
`TOKEN_EPSILON` (1e-9), which a handful of rounding errors around 1e-15 does not
reach. `Retry-After` has no such slack (191-195): where the exact wait is a whole
number of seconds the quotient may lie just above it, and `Math.ceil` gives one
second more (with 10 per minute and an empty bucket, 5 instead of 4 after two
seconds). `RetryAfters` is therefore the set of answers that the rounding allows;
at every other wait the distance to the next whole second, at least 1/1000 of a
second over the limit per minute, is far larger than the error and the answer is
the exact one.
`windowStart` and `accepted` are observers that may start a window at any time.

### Connections

The life of an upgraded connection with a UUID across admission (`Accept`,
`Deny`), dial, registration (`Bridge`) and its ends (`Close`, `DialFails`,
replacement, stale cleanup). `registerConnection` disconnects the sessions it
replaces, which synchronously close their bridge and run their release closure,
which calls `unregisterConnection` of the same manager; that deletes the bucket
which `registerConnection` still holds. `Orphaned` is that case, `Full` the one
where the bucket filled up during the dial. A connection without a UUID is not
tracked and passes through the limiter only, which is what `RateLimiter` models.

### Reentrance

What `Connections` does in one step, call by call: the methods of the manager as
operators on a record of its Maps, where `RemoveConnection` calls `Disconnect` of a
session that is half removed, that calls `Unregister`, and that may call `CleanUp`
inside a `CleanUp` (`nextCleanupAt` moves at its end only). `ReentrantCallsAgree`
compares what they come to with the steps of `Connections` in every state that these
reach, for every order of the entries of the Maps. The operators are recursive, so
this is for TLC only.

### SocketBridge

`bridgeSockets` between two sockets whose events the runtime dispatches one at a
time. `OnMessage` and `OnEnd` are the listeners of both ends, attached exactly
while `~closed`; `BlobRead` and `BlobRejects` are the two ends of
`arrayBuffer()`, during which other events come in between; `Disconnect` is the
callback that the UUID manager keeps. A payload is named by its place among the
dispatched ones of its side, so order and loss can be stated. The sockets are
the runtime's (`PeerSends`, `PeerGoes`, `Accepts`, external): a close code that
may not be sent makes `close` throw, a send on a socket that is not open throws
or is ignored.

### Exchange, Handlers and Worker

`Exchange` is one request as `handleWithBackendFailover` sees it: it awaits a
call of a handler, which succeeds or fails; a failure is followed by another call
until `MaxAttempts` were made; a request with a body succeeds at its first call or
not at all; and whatever is awaited ends.

`Handlers` are `ws.ts`, `xhttp.ts` and `httpupgrade.ts` in one, down to
the fetches of `fetchWithTimeout`. Their kinds of requests (`ShapeType`) are
what the code tells apart: transport, upgrade headers, method, body, the options
of xhttp and the length of a token in `Sec-WebSocket-Protocol`, which is refused if it is
early data and too long; in which form early data goes out is left out. A call goes from
fetch to fetch (`Fetch`, `Throws`, `FetchAgain`) and ends by `PassThrough`,
`Bridge`, or one of the failures: the fetch rejects for the last time (`Throws`),
the backend answers an upgrade with another status (`Reject`, then `CancelEnds`
once the body is cancelled), or the bridge cannot be set up after 101
(`BridgeThrows`), or a pass-through is answered with a response that itself carries the
failure marker, which `isBackendFailureResponse` takes for one of the handler's own
(`PassThroughMarked`, index.ts 503). Every fetch sets a timer (`SetTimer`), which the `finally` clears
(`ClearTimer`); a timer that is left set fires (`TimerFires`), and aborts its fetch
even if that was answered. `Retry` is the next call, by the failover loop; the
handlers' own loop runs through once, because index.ts always passes
`backendOverride` (`resolveMaxAttempts`, ws.ts 34-41). So an upgrade makes one
fetch per call, and a pass-through `MAX_RETRIES + 1` to one backend.

`Worker` puts the `fetch` of index.ts around them: `ArriveGated` gets the managers
of its environment, passes the gate and takes a slot, all before its first await;
`Proceed` is a step of the handler with what index.ts does on it, registration
with the UUID manager when the bridge is ready, release when the response is not
101 or the bridge closes. `cached[k]` is what a cache holds and `Latest` the
manager it has or makes; a request keeps the ones it was given, whatever becomes
of the cache. `KeyOf` says which environments share a manager: the cache of
limiters is keyed by limits (92-94), that of UUID managers by their cap (110-112).

### SubscriptionCache, BodyReader, LruCache and Subscription

`SubscriptionCache` is the linked list of `cache.ts` pointer by pointer, as
functions from cache to cache; `BodyReader` is `readResponseBodyWithLimit` with
its growing buffer. A loop of the code (over the map in `cleanup`, from the tail in
`evictIfNeeded`, over chunks, doubling the capacity) is a function from the number
of turns to the state after them. `Subscription` runs concurrent requests over one cache:
`Arrive` up to the await of the origin, `Succeed` and `Fail` from its answer. The
await of `response.text()` between that and the store (index.ts 78) reads a body
that is in memory already, so it is part of `Succeed`.
`LruCache` is what the cache promises, a list of keys in order of use of which
the longest stretch that fits is kept. It may forget what has expired whenever
it is used, and its clock may stand still while other things happen;
`Subscription` implements it with the
chain of pointers from `head` as that list. A response is the time at which the
origin gave it and the text that was read; of domain preservation and transform
only the growth is modelled, since it decides whether the response is oversized.

### AliasTable

`buildAliasTable`, one step per turn of its loops: `Scale` takes the next
candidate onto a stack, `Pair` fills up a small one from a large one, `DrainLarge`
and `DrainSmall` settle what is left. The quotients are rounded up
or down to parts of a whole (doubles are that, with more parts), the sums of the
loop are exact. `Share` is what `sampleAliasTable` draws.

## Runs

| Run | Instance | Shows |
| --- | --- | --- |
| `failover` | 2 backends, 2 requests, 3 attempts, 4 configurations | types and non-overlapping rounds; structures fresh outside rounds; flags agree with counters; recovery on recent evidence; failover exhaustive; unhealthy backends last |
| `failover_liveness` | 2 backends, 2 requests, 2 attempts | a recovered backend returns to selection; rounds of probes end, so that others can follow; every request is answered |
| `rate_limiter` | 2 clients, 3 connections, minute of 3 ticks, cleanup every 2, 6 ticks | slot accounting, Retry-After enough and close, admissions over any window, refinement of `TokenBucket` |
| `connections` | 4 connections, 2 UUIDs, 3 clients, caps 2 and 2 | live, capped buckets; exact slots; replacement; the re-entrant calls of the manager in every order of its Maps |
| `socket_bridge` | 3 payloads per peer, close codes 1000, 1006, 1015 | released once; both ends closed; only Blobs are overtaken; nothing lost between open ends; one end takes the other with it |
| `subscription` | 3 keys, 2 entries, 2 requests, timeout 2, time to live 3, 5 ticks; bodies of 3 and 4 bytes with limit 3 | list and map agree; bytes exact; texts whole; age bounded; an older answer replaces a newer one by no more than the timeout; refinement of `LruCache` |
| `alias_table` | up to 4 backends, weights up to 4, tenths | columns that can be drawn from; draws proportional to weights |
| `worker` | 2 requests of 6 kinds, 3 environments over 2 keys, caches of 1, 1 connection per client, 2 calls of up to 2 fetches | every socket, slot and session given back on every path, to the manager that gave it; no answer aborted; refinement of `Exchange` with its liveness |
| `round_cancelled`, `healthy_without_contact`, `uuid_replace`, `uuid_cap_race` | 2 backends, 1 request; else as above | the disagreements below |

Bounds. Two backends suffice for "another was not tried" and for a round in
which one flips and one does not; three attempts over two backends reach the
last resort, where all were tried. `FailureCap` may be the threshold, because
nothing looks further than it, and `SuccessCap` likewise. `MaxPending` limits
probes only when rounds reject early and so overlap. A minute of three ticks
with a cleanup every two lets refill, cleanup and idle deletion meet in every
order, and six ticks are two minutes. Four connections fill one bucket of two
while another dials and a fourth is replaced. Three payloads let two Blobs of one
side overlap and a string pass them; 1006 is replaced by `sanitizeCloseCode`,
1015 is not and the runtime refuses it. Sizes 3, 4 and 7 against 6 bytes and 2
entries make both limits bite, exactly and by one, and one response too large
for the cache; bodies of 3 and 4 bytes are at the limit and just over it, in
every chunking, with no declared length, their own, or one of a compressed body.
Tenths make most quotients inexact. In `worker` two calls of two fetches let a
timer of an earlier fetch be left over for a later one, a cache of one entry is
cleared by every change of environment, two of the three
environments share a limiter and another two a UUID manager, and one slot for two requests
makes the gate refuse. `MaxManagers` bounds the managers that requests which are
over at once may cause to be made; those of the other requests come on top. The six
shapes are a gated pass-through, a stream, an upgrade that only httpupgrade takes
for one, a refusal, and early data within and beyond its limit.

Fairness (`Failover!Fairness`). A fetch of a handler is aborted by its timer
(`utils/fetch.ts` 53-56), a probe by its own after 4 s, the backoff is a timer:
so `Retry`, `Settle` and `ProbeAnswer` are weakly fair, and a settled
`Promise.all` resumes. No fairness makes a request arrive or time pass for the
next round. In `Worker` the same is stated one level down: a timer that is set
fires, a fetch that was aborted or has no body left rejects, the backoffs end, and
cancelling a response body settles, which is the runtime's affair. No backend is
obliged to answer, so all progress there comes from the timers. Rounds of probes
start with requests only, so `ChecksKeepRunning` presupposes that requests keep
coming; nothing makes them. In `SocketBridge` the runtime dispatches the events of each socket.
The safety runs use `SafetySpec`, without fairness; `SocketBridge.cfg`,
`AliasTable.cfg` and `Worker.cfg` do not check deadlock, since a closed bridge, a
built table and a worker whose requests are over really stop.

## What the models disagree with

* `round_cancelled`: docs/multi-backend-setup.md:25 "Health checks run every
  `BACKEND_HEALTH_CHECK_INTERVAL` and recover backends automatically when they
  respond". If the runtime cancels a round with the request that started it,
  `healthCheckInFlight` stays set (backend.ts 764, 779-781) and no round starts again.
  Without cancellation the same property holds (`failover_liveness`).
* `healthy_without_contact`: a request refused by the handler itself marks the
  selected backend healthy (index.ts 503-506).
* `uuid_replace`: replacing the only session of a UUID orphans the new one, so
  that the session after it replaces nothing.
* `uuid_cap_race`: the cap is checked before the dial; a session that finds the
  bucket full after it is bridged untracked.

Two more the models state exactly instead of refuting a sentence. Unhealthy
backends are not always "skipped while healthy backends are available"
(docs/multi-backend-setup.md:22): during a round of probes the flag is lowered at
once and the table rebuilt at the end, and `UnhealthyIsLastResort` says when that
shows. And a request whose body went with its first fetch fails at every further
backend without reaching it, which marks these failed (utils/socket.ts 103-108,
index.ts 508): `Exchange` has it as `Succeed` at the first call only.

## Theorems

All proofs are about unbounded parameters: any number of backends, requests,
clients, connections, payloads, environments, retries, candidates and weights,
cached keys, bodies in any chunking, any limits and close codes.

* `FailoverProofs`, the manager: `MInv` is inductive in any environment that calls the
  manager's methods. The properties alone are not: `RoundInv` (no probe out
  between rounds), `StaleInv` and `StreakInv` (a backend not vindicated has at
  most one success in a row, and then no stale answer is due) explain why two
  successes in a row are recent evidence.
* `FailoverProofs`, the loop: every step of `Failover` is a step of the manager
  (`DrivesManager`), which gives the state properties; `SpreadInv` (the tried
  backends are distinct, or all of them) gives `FailoverExhausts`;
  `PicksAreHealthy` with `TableFresh` gives `UnhealthyComesLast`.
* `RateLimiterProofs`: two maps of states have the same worth when no client
  can tell them apart; cleanup, refill and deletion preserve worth, and every
  action changes worth as the token bucket does. From this `Inductive`, the
  four invariants, `RetryAfterIsRight` (both answers where the quotient is a whole number
  of seconds) and `Implementation`.
* `ConnectionsProofs`: every step removes a set of connections and adds at most
  one; `RemovalSlots` and `RemovalBuckets` say what that does. `IdInv` ties the
  identity of a connection to its phase.
* `SocketBridgeProofs`: `BInv` adds to the properties that an end is the last
  event of its socket (`QueueInv`) and that a payload that was sent has been
  dispatched and is not being read any more (`SentInv`), without which the order
  of what is sent is not inductive. A step either closes both ends (`Ends`),
  after which nothing is claimed of open ends, or leaves them and moves one
  payload (`SendKeepsOrder`, `NoSendKeepsOrder`).
* `WorkerProofs`: an action changes one request, so the
  invariant is one of each request (`RequestInv`), with a lemma per action and one
  for the requests left alone (`Kept`). It adds to the properties where the loops
  stand in each phase (`LoopInv`), that the timer which is set is the one of the
  fetch under way (`TimerInv`), without which an answer could still be aborted, and
  that a stream went out with the first fetch of the first call (`BodyInv`), without
  which a later call might succeed. `HoldersInv` ties what managers hold to the
  phases of their requests; the limit is kept for every manager by name, cached
  or forgotten. `WorkerKeepsContract` maps every
  step to one of `Exchange` or to none.
* `ListsProofs`: the tools for loops and sums. The library's induction theorems take
  a predicate, which the provers cannot supply, but a set they can: `WFMin` for the
  naturals gives induction over a set of numbers (`SetInduction`), and that gives
  the existence of a recursive function with a given step (`RecursionExists`). From
  these the laws of `Total` (it is linear and monotone, and what one changed or removed
  element does to it) and of `Without`.
* `AliasTableProofs`: the properties speak of the finished table only, so the
  invariant says what holds after every turn. `Dues`: what the settled buckets give
  to a position, with what it still holds on its stack, is its due up to the rounding of
  one quotient. `Leftover`: what the pending positions hold beyond one part each,
  summed, is less than one part per candidate in either direction, because the
  weights add up exactly and each quotient is off by less than one. The second is why the last ones,
  settled with probability 1 whatever they hold (backend.ts 238-252), are right.
  `Proportional` is `SharesAreProportional` for every number of candidates, all weights
  and every direction of every rounding.
* `SubscriptionProofs`: the invariant is that a list of distinct keys exists of
  which the cache is the image (`Represents`): the links in both directions, the map,
  the counter, neither limit exceeded. Soundness of the list or exactness of the counter
  is not inductive alone, because `removeNode` follows links and subtracts sizes at
  once. Each method has its lemma: `RemoveNode` cuts the list, `MoveToHead` moves, `cleanup` leaves
  it without what has expired, `evictIfNeeded` leaves the longest stretch that
  fits. `RequestsAreInTime` (a request asked no longer ago than the timeout) and
  `EntriesAreTimely` (an entry expires no later than a timeout and a time to live after the
  origin gave its response) bound the age of
  what is served and how far a late answer can set the cache back. `BodyIsWhole` is
  the loop of `readResponseBodyWithLimit`: after each chunk the buffer begins with all
  that has been read. `Implements` is the whole refinement of `LruCache`.

Assumptions are the named `ASSUME`s of the modules, evaluated by the runs:
positive limits, thresholds within caps, model values outside their sets, and of
`Bodies` (in `Subscription`) that a declared length is a number or absent, chunks
are finite sequences of bytes, and a response that declares a length of 0 has no
body, which is how HTTP frames it and what the early return of
`readResponseBodyWithLimit` (proxy.ts 173-175) relies on.

Every invariant and every safety action property of the passing runs is proved but
`ReentrantCallsAgree`, whose operators are recursive, and so are the refinements of `TokenBucket` and `LruCache` and the steps of `Exchange`.
Only model-checked, since liveness and `ENABLED` are out of the prover's reach:
`RecoveredReturns`, `ChecksKeepRunning`, `RequestAnswered`, `EndsGoTogether` and the
liveness half of `ImplementsExchange`. The four disagreements are
counterexamples, which TLC finds.

## Not modelled, and why

* Rounding of doubles in the admissions of the token bucket (argued above).
* A runtime that cancels a whole invocation between admission and answer: its
  release closure would not run, and the slot would be kept. Nothing in the
  repository says when that happens, or handles it.
* The handlers' own retry loop and the statuses it retries, which no caller
  reaches (see `Handlers`), and the answer 500 to a URL that does not parse, which a
  URL object cannot give.
* That cancelling the body of a failure (index.ts 537) could reject. It is a text
  response of the worker's own or, with a marked answer of a backend, a body just
  received; a rejection would end the request at once with 502.
* The header in which early data, or its absence, is passed on (ws-protocol.ts 78-101,
  xhttp.ts 176-179).
* The caches of parsed settings, which hold no state, and the table of
  subscription caches by time to live.
* `MinIndexHeap` beyond its top: its indices are inserted in ascending order
  after a `clear`, and `remove` and `siftDown` have no caller.
* A cache key does not contain the query string that goes to the origin
  (subscription/index.ts 145): the models tell requests apart by their key.
* That within one minute a full bucket and its refill admit almost twice
  `maxConnPerMin` (docs/configuration.md:18) is the meaning of a token bucket;
  `WindowBound` is the bound that holds.
* Header, path and address parsing, base64, URL and domain rewriting, pages,
  configuration parsing: pure functions of one input each, without state.

## Plan

1. Done: backend manager and failover, rate limiter, connections, socket bridge,
   with proofs; subscription cache, proxy and body reader; alias table; handlers,
   worker and environment caches, with proofs; the cancelled round.
2. Done: induction and sums, and with them proofs about the alias table and the
   subscription cache, the refinement of `LruCache` among them.
3. Next: the array of `MinIndexHeap` under `insert` and `clear`, with its lowest
   index on top as a theorem, and the step lemmas that the liveness properties rest on (what
   can happen to a pending exchange, to a round of probes and to an end of a bridge
   before it ends) as theorems.
