--------------------------- MODULE BackendManager ---------------------------
(***************************************************************************)
(* BackendManager (src/src/backend.ts): the health bookkeeping of the      *)
(* backends, the selection structures that are rebuilt from it, and the    *)
(* rounds of health probes that run detached from the request which        *)
(* started them.                                                           *)
(*                                                                         *)
(* A method is one step, since nothing in it awaits; a round of probes is  *)
(* several: every probe answers on its own, and the structures are rebuilt *)
(* only when all of them have.  Weights are positive, so a weighted draw   *)
(* may return any member of its table.  The clock is abstracted to the one *)
(* question asked of it, whether nextHealthCheckAt has passed.             *)
(***************************************************************************)
EXTENDS Integers, FiniteSets

CONSTANTS NBackends,   \* how many backends BACKEND_LIST names
          FailureCap,  \* bound: the counts of failures saturate here
          SuccessCap,  \* bound: and the counts of successes here
          MaxPending,  \* bound: unanswered probes of one backend
          Configs      \* the values of <<stickySession, opaque>> to consider

FAILURE_HYSTERESIS_COUNT  == 1
RECOVERY_HYSTERESIS_COUNT == 2

ASSUME ManagerAssumption ==
  /\ NBackends \in Nat \ {0}
  /\ FailureCap \in Nat /\ FailureCap >= FAILURE_HYSTERESIS_COUNT
  /\ SuccessCap \in Nat /\ SuccessCap >= RECOVERY_HYSTERESIS_COUNT
  /\ MaxPending \in Nat \ {0}
  /\ Configs \subseteq BOOLEAN \X SUBSET (0..(NBackends - 1))

\* Backends in list order; the first one is 0.
Backend == 0..(NBackends - 1)

VARIABLES
  stickySession,         \* configuration, fixed by the constructor
  opaque,                \* configuration: backends whose URL takes no path,
                         \* such as "localhost:10000"
  healthy,               \* per backend
  failures,
  consecutiveFailures,
  consecutiveSuccesses,
  healthyTable,          \* members of healthyAliasTable and healthyIndexHeap
  healthCheckInFlight,
  checkDue,              \* now >= nextHealthCheckAt
  changed,               \* some checkBackendHealth of the round returned true
  pending,               \* pending[b]: probes of b still unanswered
  stale,                 \* observer: how many of them were sent before b's
                         \* last failure
  vindicated             \* observer: since b's last failure, traffic reached
                         \* it or a probe sent afterwards succeeded

config == <<stickySession, opaque>>
health == <<healthy, failures, consecutiveFailures, consecutiveSuccesses>>
round  == <<healthCheckInFlight, checkDue, changed, pending>>
mvars  == <<config, health, healthyTable, round, stale, vindicated>>

Bump(n, cap) == IF n < cap THEN n + 1 ELSE n
Lowest(S) == CHOOSE b \in S : \A c \in S : b <= c
First(S) == IF S = {} THEN {} ELSE {Lowest(S)}
Healthy == {b \in Backend : healthy[b]}

-----------------------------------------------------------------------------
(* Selection: the set of backends getBackend(excluded) may return *)

\* pickStickyHealthy: the top of the heap if it is still healthy, else the
\* first healthy backend in list order.
StickyHealthyPicks(excluded) ==
  LET top == {b \in First(healthyTable) : healthy[b] /\ b \notin excluded}
  IN  IF top # {} THEN top ELSE First(Healthy \ excluded)

\* Mutant: weighted selection draws from the table of all backends.
HealthyPicks_AnyTable(excluded) ==
  IF stickySession THEN StickyHealthyPicks(excluded) ELSE Backend \ excluded

\* pickFromAlias never looks at `healthy`; when its draws keep hitting
\* excluded members it scans the table, so it fails only if all are excluded.
HealthyPicks(excluded) ==
  IF stickySession THEN StickyHealthyPicks(excluded)
  ELSE healthyTable \ excluded

AnyPicks(excluded) ==
  IF stickySession THEN First(Backend \ excluded) ELSE Backend \ excluded

\* Mutant: the last resort is not limited to the backends not yet tried.
Picks_IgnoresTried(excluded) ==
  IF HealthyPicks(excluded) # {} THEN HealthyPicks(excluded) ELSE AnyPicks({})

Picks(excluded) ==
  IF HealthyPicks(excluded) # {} THEN HealthyPicks(excluded)
  ELSE IF AnyPicks(excluded) # {} THEN AnyPicks(excluded)
  ELSE {0}

-----------------------------------------------------------------------------
(* Actions *)

InitManager ==
  /\ \E c \in Configs : stickySession = (c[1] /\ NBackends > 1) /\ opaque = c[2]
  /\ healthy = [b \in Backend |-> TRUE]
  /\ failures = [b \in Backend |-> 0]
  /\ consecutiveFailures = [b \in Backend |-> 0]
  /\ consecutiveSuccesses = [b \in Backend |-> 0]
  /\ healthyTable = Backend
  /\ healthCheckInFlight = FALSE
  /\ checkDue = FALSE
  /\ changed = FALSE
  /\ pending = [b \in Backend |-> 0]
  /\ stale = [b \in Backend |-> 0]
  /\ vindicated = [b \in Backend |-> TRUE]

\* nextHealthCheckAt passes.
IntervalElapsed ==
  /\ ~checkDue
  /\ opaque # {} => \A b \in Backend : pending[b] < MaxPending
  /\ checkDue' = TRUE
  /\ UNCHANGED <<config, health, healthyTable, healthCheckInFlight, changed,
                 pending, stale, vindicated>>

\* Mutant: a round may start while another one is under way.
RoundStarts_WhileInFlight == checkDue

RoundStarts == checkDue /\ ~healthCheckInFlight

\* A probe of every backend leaves, except where building its URL throws.
MaybeRunScheduledHealthChecks ==
  IF RoundStarts
  THEN /\ healthCheckInFlight' = TRUE
       /\ checkDue' = FALSE
       /\ changed' = FALSE
       /\ pending' = [b \in Backend |->
                        IF b \in opaque THEN pending[b] ELSE pending[b] + 1]
  ELSE UNCHANGED round

\* getBackend, as far as it changes anything; see Picks for what it returns.
GetBackend ==
  /\ MaybeRunScheduledHealthChecks
  /\ UNCHANGED <<config, health, healthyTable, stale, vindicated>>

\* The observers when b fails: the probes under way no longer count for it.
ObserveFailure(b) ==
  /\ stale' = [stale EXCEPT ![b] = pending'[b]]
  /\ vindicated' = [vindicated EXCEPT ![b] = FALSE]

\* Mutant: the selection structures are left as they were.
MarkFailed_NoRebuild(b) ==
  /\ failures' = [failures EXCEPT ![b] = Bump(@, FailureCap)]
  /\ consecutiveFailures' = [consecutiveFailures EXCEPT ![b] = Bump(@, FailureCap)]
  /\ consecutiveSuccesses' = [consecutiveSuccesses EXCEPT ![b] = 0]
  /\ healthy' = [healthy EXCEPT ![b] = FALSE]
  /\ UNCHANGED <<config, round, healthyTable>>
  /\ ObserveFailure(b)

\* markFailed
MarkFailed(b) ==
  /\ failures' = [failures EXCEPT ![b] = Bump(@, FailureCap)]
  /\ consecutiveFailures' = [consecutiveFailures EXCEPT ![b] = Bump(@, FailureCap)]
  /\ consecutiveSuccesses' = [consecutiveSuccesses EXCEPT ![b] = 0]
  /\ IF healthy[b] /\ consecutiveFailures'[b] >= FAILURE_HYSTERESIS_COUNT
     THEN /\ healthy' = [healthy EXCEPT ![b] = FALSE]
          /\ healthyTable' = Healthy \ {b}
     ELSE UNCHANGED <<healthy, healthyTable>>
  /\ UNCHANGED <<config, round>>
  /\ ObserveFailure(b)

\* markHealthy
MarkHealthy(b) ==
  /\ failures' = [failures EXCEPT ![b] = 0]
  /\ consecutiveFailures' = [consecutiveFailures EXCEPT ![b] = 0]
  /\ consecutiveSuccesses' =
       [consecutiveSuccesses EXCEPT ![b] = RECOVERY_HYSTERESIS_COUNT]
  /\ IF healthy[b] THEN UNCHANGED <<healthy, healthyTable>>
     ELSE /\ healthy' = [healthy EXCEPT ![b] = TRUE]
          /\ healthyTable' = Healthy \cup {b}
  /\ vindicated' = [vindicated EXCEPT ![b] = TRUE]
  /\ UNCHANGED <<config, stale>>

\* Mutant: one good probe is enough.
Recovers_AtOnce(b) == ~healthy[b]

\* The hysteresis of recovery: this good probe is the second in a row.
Recovers(b) ==
  /\ ~healthy[b]
  /\ Bump(consecutiveSuccesses[b], SuccessCap) >= RECOVERY_HYSTERESIS_COUNT

\* Mutant: the failure count of a recovered backend is not cleared.
ProbeSucceeds_KeepsFailures(b, late) ==
  /\ consecutiveSuccesses' = [consecutiveSuccesses EXCEPT ![b] = Bump(@, SuccessCap)]
  /\ consecutiveFailures' = [consecutiveFailures EXCEPT ![b] = 0]
  /\ healthy' = [healthy EXCEPT ![b] = @ \/ Recovers(b)]
  /\ UNCHANGED failures
  /\ changed' = (changed \/ Recovers(b))
  /\ stale' = [stale EXCEPT ![b] = IF late THEN @ - 1 ELSE @]
  /\ vindicated' = [vindicated EXCEPT ![b] = @ \/ ~late]

\* applyHealthProbeResult(b, true)
ProbeSucceeds(b, late) ==
  /\ consecutiveSuccesses' = [consecutiveSuccesses EXCEPT ![b] = Bump(@, SuccessCap)]
  /\ consecutiveFailures' = [consecutiveFailures EXCEPT ![b] = 0]
  /\ healthy' = [healthy EXCEPT ![b] = @ \/ Recovers(b)]
  /\ failures' = [failures EXCEPT ![b] = IF healthy'[b] THEN 0 ELSE @]
  /\ changed' = (changed \/ Recovers(b))
  /\ stale' = [stale EXCEPT ![b] = IF late THEN @ - 1 ELSE @]
  /\ vindicated' = [vindicated EXCEPT ![b] = @ \/ ~late]

\* applyHealthProbeResult(b, false): an error, a 5xx or the 4 s timeout
ProbeFails(b) ==
  /\ consecutiveFailures' = [consecutiveFailures EXCEPT ![b] = Bump(@, FailureCap)]
  /\ consecutiveSuccesses' = [consecutiveSuccesses EXCEPT ![b] = 0]
  /\ failures' = [failures EXCEPT ![b] = Bump(@, FailureCap)]
  /\ LET flips == healthy[b] /\ consecutiveFailures'[b] >= FAILURE_HYSTERESIS_COUNT
     IN  /\ healthy' = [healthy EXCEPT ![b] = @ /\ ~flips]
         /\ changed' = (changed \/ flips)
  /\ ObserveFailure(b)

\* A probe of b comes to its end.  Its result is applied at once, the
\* selection structures are not touched.
ProbeAnswer(b) ==
  /\ pending[b] > 0
  /\ pending' = [pending EXCEPT ![b] = @ - 1]
  /\ \/ stale[b] > 0 /\ ProbeSucceeds(b, TRUE)
     \/ stale[b] < pending[b] /\ ProbeSucceeds(b, FALSE)
     \/ ProbeFails(b)
  /\ UNCHANGED <<config, healthyTable, healthCheckInFlight, checkDue>>

\* Mutant: the end of a round does not rebuild.
RoundEnds_NoRebuild ==
  /\ healthCheckInFlight /\ opaque = {}
  /\ \A b \in Backend : pending[b] = 0
  /\ healthCheckInFlight' = FALSE
  /\ changed' = FALSE
  /\ UNCHANGED <<config, health, healthyTable, checkDue, pending, stale, vindicated>>

\* Promise.all resolves: rebuild if something changed.
RoundEnds ==
  /\ healthCheckInFlight /\ opaque = {}
  /\ \A b \in Backend : pending[b] = 0
  /\ healthyTable' = IF changed THEN Healthy ELSE healthyTable
  /\ healthCheckInFlight' = FALSE
  /\ changed' = FALSE
  /\ UNCHANGED <<config, health, checkDue, pending, stale, vindicated>>

\* Mutant: the flag is cleared after the await, not in a finally.
RoundRejects_StaysInFlight ==
  /\ healthCheckInFlight /\ opaque # {}
  /\ changed' = FALSE
  /\ UNCHANGED <<config, health, healthyTable, healthCheckInFlight, checkDue, pending,
                 stale, vindicated>>

\* Promise.all rejects because the URL of a probe could not be built: the
\* flag is cleared, nothing is rebuilt, and the probes that did leave go on.
RoundRejects ==
  /\ healthCheckInFlight /\ opaque # {}
  /\ healthCheckInFlight' = FALSE
  /\ changed' = FALSE
  /\ UNCHANGED <<config, health, healthyTable, checkDue, pending, stale, vindicated>>

Background ==
  \/ IntervalElapsed
  \/ \E b \in Backend : ProbeAnswer(b)
  \/ RoundEnds
  \/ RoundRejects

\* The manager in any environment that calls its methods.  One environment
\* calls getBackend and markHealthy in one stretch, see Failover.
ManagerNext ==
  \/ Background
  \/ GetBackend
  \/ \E b \in Backend : \/ MarkFailed(b)
                        \/ MarkHealthy(b) /\ UNCHANGED round
                        \/ MarkHealthy(b) /\ MaybeRunScheduledHealthChecks

ManagerSpec == InitManager /\ [][ManagerNext]_mvars

-----------------------------------------------------------------------------
(* Properties *)

\* Types; and while every URL can be probed, no backend has two probes under
\* way, because rounds do not overlap (backend.ts:759).
ManagerTypeOK ==
  /\ stickySession \in BOOLEAN
  /\ opaque \in SUBSET Backend
  /\ healthy \in [Backend -> BOOLEAN]
  /\ failures \in [Backend -> 0..FailureCap]
  /\ consecutiveFailures \in [Backend -> 0..FailureCap]
  /\ consecutiveSuccesses \in [Backend -> 0..SuccessCap]
  /\ healthyTable \in SUBSET Backend
  /\ healthCheckInFlight \in BOOLEAN
  /\ checkDue \in BOOLEAN
  /\ changed \in BOOLEAN
  /\ pending \in [Backend -> 0..(IF opaque = {} THEN 1 ELSE MaxPending)]
  /\ stale \in [Backend -> 0..MaxPending]
  /\ vindicated \in [Backend -> BOOLEAN]

\* The structures selection draws from agree with the health flags, except
\* between a flip by a probe and the end of its round (backend.ts:775-778).
TableFresh ==
  opaque = {} /\ ~(healthCheckInFlight /\ changed) => healthyTable = Healthy

\* What the status endpoint shows is consistent: a backend is healthy exactly
\* when its failure count is zero, whichever of markFailed, markHealthy and
\* the probes wrote last.
HealthyIffNoFailures == \A b \in Backend : healthy[b] <=> failures[b] = 0

\* A backend is never declared healthy on the strength of probes that were
\* all sent before its last failure: two successes in a row (backend.ts:826)
\* and rounds that do not overlap make the second one recent.
HealthyIsVindicated ==
  opaque = {} => \A b \in Backend : healthy[b] => vindicated[b]
=============================================================================
