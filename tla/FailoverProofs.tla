--------------------------- MODULE FailoverProofs ---------------------------
(***************************************************************************)
(* Theorems about BackendManager, for any number of backends and in any    *)
(* environment that calls its methods, and about Failover, for any number  *)
(* of backends, of requests under way and of attempts.                     *)
(*                                                                         *)
(* The inductive invariant of the manager adds to the properties what ties *)
(* the rounds of probes to the counters: no probe is out between two       *)
(* rounds, and a backend that is not vindicated has at most one success in *)
(* a row, which then was the last answer that could come too late.         *)
(*                                                                         *)
(* Every step of Failover is a step of the manager, or leaves it alone.    *)
(* The rest is about selection: a draw never repeats a backend while       *)
(* another was not tried, and never takes an unhealthy one from a table    *)
(* that is up to date.                                                     *)
(***************************************************************************)
EXTENDS Failover, WellFoundedInduction, TLAPS

-----------------------------------------------------------------------------
(* The manager *)

\* Rounds do not overlap when every URL can be probed.
RoundInv ==
  opaque = {} /\ ~healthCheckInFlight => \A b \in Backend : pending[b] = 0

\* The bound on the unanswered probes is kept by the clock's guard.
BoundInv ==
  opaque # {} /\ checkDue => \A b \in Backend : pending[b] < MaxPending

StaleInv == \A b \in Backend : stale[b] <= pending[b]

\* Before it is vindicated a backend can count one success, and only when no
\* more stale answers are due.
StreakInv ==
  opaque = {} => \A b \in Backend :
    ~vindicated[b] => /\ consecutiveSuccesses[b] <= 1
                      /\ consecutiveSuccesses[b] = 1 => stale[b] = 0

MInv ==
  /\ ManagerTypeOK
  /\ RoundInv
  /\ BoundInv
  /\ StaleInv
  /\ StreakInv
  /\ TableFresh
  /\ HealthyIffNoFailures
  /\ HealthyIsVindicated

-----------------------------------------------------------------------------
(* Counters *)

\* A saturating counter stays within its cap, and a step up is positive.
LEMMA BumpType ==
  ASSUME NEW cap \in Nat, cap >= 1, NEW n \in 0..cap
  PROVE  Bump(n, cap) \in 1..cap
BY DEF Bump

\* The two caps are large enough to tell what the hysteresis asks.
LEMMA Caps ==
  /\ FailureCap \in Nat /\ FailureCap >= 1
  /\ SuccessCap \in Nat /\ SuccessCap >= 2
  /\ MaxPending \in Nat /\ MaxPending >= 1
  /\ FAILURE_HYSTERESIS_COUNT = 1
  /\ RECOVERY_HYSTERESIS_COUNT = 2
BY ManagerAssumption DEF FAILURE_HYSTERESIS_COUNT, RECOVERY_HYSTERESIS_COUNT

\* All backends start healthy and vindicated, and no probe is out.
LEMMA InitMInv == InitManager => MInv
<1> SUFFICES ASSUME InitManager PROVE MInv
  OBVIOUS
<1>1. opaque \in SUBSET Backend /\ stickySession \in BOOLEAN
  BY ManagerAssumption DEF InitManager, Backend
<1>2. /\ healthy \in [Backend -> BOOLEAN]
      /\ vindicated \in [Backend -> BOOLEAN]
      /\ healthCheckInFlight \in BOOLEAN /\ checkDue \in BOOLEAN /\ changed \in BOOLEAN
  BY Zenon DEF InitManager
<1>3. /\ failures \in [Backend -> 0..FailureCap]
      /\ consecutiveFailures \in [Backend -> 0..FailureCap]
      /\ consecutiveSuccesses \in [Backend -> 0..SuccessCap]
      /\ healthyTable \in SUBSET Backend
      /\ pending \in [Backend -> 0..(IF opaque = {} THEN 1 ELSE MaxPending)]
      /\ stale \in [Backend -> 0..MaxPending]
  BY Caps DEF InitManager
<1>4. ManagerTypeOK
  BY <1>1, <1>2, <1>3, Zenon DEF ManagerTypeOK
<1>5. RoundInv /\ BoundInv /\ StaleInv
  BY Caps DEF InitManager, RoundInv, BoundInv, StaleInv
<1>6. StreakInv /\ HealthyIsVindicated /\ TableFresh
  BY Zenon DEF InitManager, StreakInv, HealthyIsVindicated, TableFresh, Healthy
<1>7. HealthyIffNoFailures
  BY DEF InitManager, HealthyIffNoFailures
<1> QED
  BY <1>4, <1>5, <1>6, <1>7 DEF MInv

-----------------------------------------------------------------------------
(* One lemma per operation *)

\* Nothing but the configuration, the probes and the flags of the round moves
\* when a round starts.
LEMMA RoundStep ==
  ASSUME MInv, MaybeRunScheduledHealthChecks
  PROVE  /\ healthCheckInFlight' \in BOOLEAN /\ checkDue' \in BOOLEAN /\ changed' \in BOOLEAN
         /\ opaque' = opaque =>
              /\ pending' \in [Backend -> 0..(IF opaque = {} THEN 1 ELSE MaxPending)]
              /\ RoundInv' /\ BoundInv'
              /\ \A b \in Backend : pending[b] <= pending'[b]
              /\ healthCheckInFlight' /\ changed' => healthCheckInFlight /\ changed
              /\ healthCheckInFlight /\ changed => healthCheckInFlight' /\ changed'
<1> USE DEF MInv, ManagerTypeOK
<1>1. CASE ~RoundStarts
  BY <1>1 DEF MaybeRunScheduledHealthChecks, round, RoundInv, BoundInv
<1>2. CASE RoundStarts
  <2>1. /\ healthCheckInFlight' = TRUE /\ checkDue' = FALSE /\ changed' = FALSE
        /\ pending' = [b \in Backend |->
                         IF b \in opaque THEN pending[b] ELSE pending[b] + 1]
        /\ checkDue /\ ~healthCheckInFlight
    BY <1>2 DEF MaybeRunScheduledHealthChecks, RoundStarts
  <2>2. \A b \in Backend : pending[b] \in 0..MaxPending /\ pending[b] < MaxPending
    <3>1. CASE opaque = {}
      BY <2>1, <3>1, Caps DEF RoundInv
    <3>2. CASE opaque # {}
      BY <2>1, <3>2 DEF BoundInv
    <3> QED BY <3>1, <3>2
  <2>3. opaque = {} => \A b \in Backend : pending[b] = 0
    BY <2>1 DEF RoundInv
  <2>4. pending' \in [Backend -> 0..(IF opaque = {} THEN 1 ELSE MaxPending)]
    BY <2>1, <2>2, <2>3, Caps
  <2>5. \A b \in Backend : pending[b] <= pending'[b]
    BY <2>1, <2>2
  <2> QED BY <2>1, <2>4, <2>5 DEF RoundInv, BoundInv
<1> QED BY <1>1, <1>2

\* A failed attempt.
LEMMA MarkFailedStep ==
  ASSUME MInv, NEW b \in Backend, MarkFailed(b)
  PROVE  MInv'
<1> USE DEF MInv, ManagerTypeOK
<1>1. /\ stickySession' = stickySession /\ opaque' = opaque
      /\ healthCheckInFlight' = healthCheckInFlight /\ checkDue' = checkDue
      /\ changed' = changed /\ pending' = pending
  BY DEF MarkFailed, config, round
<1>2. /\ failures' \in [Backend -> 0..FailureCap] /\ failures'[b] >= 1
      /\ consecutiveFailures' \in [Backend -> 0..FailureCap] /\ consecutiveFailures'[b] >= 1
      /\ \A c \in Backend \ {b} : failures'[c] = failures[c]
  BY BumpType, Caps DEF MarkFailed
<1>3. /\ consecutiveSuccesses' \in [Backend -> 0..SuccessCap]
      /\ consecutiveSuccesses'[b] = 0
      /\ \A c \in Backend \ {b} : consecutiveSuccesses'[c] = consecutiveSuccesses[c]
  BY Caps DEF MarkFailed
<1>4. /\ healthy' = [healthy EXCEPT ![b] = FALSE]
      /\ healthyTable' = IF healthy[b] THEN Healthy \ {b} ELSE healthyTable
  <2>1. CASE healthy[b]
    BY <1>2, <2>1, Caps DEF MarkFailed
  <2>2. CASE ~healthy[b]
    <3>1. healthy' = healthy /\ healthyTable' = healthyTable
      BY <2>2 DEF MarkFailed
    <3>2. healthy = [healthy EXCEPT ![b] = FALSE]
      BY <2>2
    <3> QED BY <2>2, <3>1, <3>2
  <2> QED BY <2>1, <2>2
<1>5. /\ stale' = [stale EXCEPT ![b] = pending[b]]
      /\ vindicated' = [vindicated EXCEPT ![b] = FALSE]
  BY <1>1 DEF MarkFailed, ObserveFailure
<1>6. /\ healthy' \in [Backend -> BOOLEAN] /\ vindicated' \in [Backend -> BOOLEAN]
      /\ ~healthy'[b] /\ ~vindicated'[b]
      /\ \A c \in Backend \ {b} : /\ healthy'[c] = healthy[c]
                                  /\ vindicated'[c] = vindicated[c]
  BY <1>4, <1>5
<1>7. /\ stale' \in [Backend -> 0..MaxPending] /\ stale'[b] = pending[b]
      /\ \A c \in Backend \ {b} : stale'[c] = stale[c]
  BY <1>5, Caps
<1>8. healthyTable' \in SUBSET Backend
  BY <1>4 DEF Healthy
<1>9. ManagerTypeOK'
  BY <1>1, <1>2, <1>3, <1>6, <1>7, <1>8 DEF ManagerTypeOK
<1>10. RoundInv' /\ BoundInv'
  BY <1>1 DEF RoundInv, BoundInv
<1>11. StaleInv'
  BY <1>1, <1>7 DEF StaleInv
<1>12. StreakInv'
  BY <1>1, <1>3, <1>6, <1>7 DEF StreakInv
<1>13. TableFresh'
  <2>1. Healthy' = Healthy \ {b}
    BY <1>6 DEF Healthy
  <2>2. ~healthy[b] => Healthy = Healthy \ {b}
    BY DEF Healthy
  <2> QED BY <1>1, <1>4, <2>1, <2>2 DEF TableFresh
<1>14. HealthyIffNoFailures'
  BY <1>2, <1>6 DEF HealthyIffNoFailures
<1>15. HealthyIsVindicated'
  BY <1>1, <1>6 DEF HealthyIsVindicated
<1> QED
  BY <1>9, <1>10, <1>11, <1>12, <1>13, <1>14, <1>15 DEF MInv

\* What a method does to the probes: it leaves them alone, or starts a round.
RoundMoves == UNCHANGED round \/ MaybeRunScheduledHealthChecks

\* A successful attempt, or a request that is answered without one.
LEMMA MarkHealthyStep ==
  ASSUME MInv, NEW b \in Backend, MarkHealthy(b), RoundMoves
  PROVE  MInv'
<1> USE DEF MInv, ManagerTypeOK
<1>1. stickySession' = stickySession /\ opaque' = opaque /\ stale' = stale
  BY DEF MarkHealthy, config
<1>2. /\ failures' \in [Backend -> 0..FailureCap] /\ failures'[b] = 0
      /\ consecutiveFailures' \in [Backend -> 0..FailureCap]
      /\ \A c \in Backend \ {b} : failures'[c] = failures[c]
  BY Caps DEF MarkHealthy
<1>3. /\ consecutiveSuccesses' \in [Backend -> 0..SuccessCap]
      /\ \A c \in Backend \ {b} : consecutiveSuccesses'[c] = consecutiveSuccesses[c]
  BY Caps DEF MarkHealthy
<1>4. /\ healthy' = [healthy EXCEPT ![b] = TRUE]
      /\ healthyTable' = IF healthy[b] THEN healthyTable ELSE Healthy \cup {b}
  <2>1. CASE ~healthy[b]
    BY <2>1 DEF MarkHealthy
  <2>2. CASE healthy[b]
    <3>1. healthy' = healthy /\ healthyTable' = healthyTable
      BY <2>2 DEF MarkHealthy
    <3>2. healthy = [healthy EXCEPT ![b] = TRUE]
      BY <2>2
    <3> QED BY <2>2, <3>1, <3>2
  <2> QED BY <2>1, <2>2
<1>5. vindicated' = [vindicated EXCEPT ![b] = TRUE]
  BY DEF MarkHealthy
<1>6. /\ healthy' \in [Backend -> BOOLEAN] /\ vindicated' \in [Backend -> BOOLEAN]
      /\ healthy'[b] /\ vindicated'[b]
      /\ \A c \in Backend \ {b} : /\ healthy'[c] = healthy[c]
                                  /\ vindicated'[c] = vindicated[c]
  BY <1>4, <1>5
<1>7. healthyTable' \in SUBSET Backend
  BY <1>4 DEF Healthy
<1>8. /\ healthCheckInFlight' \in BOOLEAN /\ checkDue' \in BOOLEAN /\ changed' \in BOOLEAN
      /\ pending' \in [Backend -> 0..(IF opaque = {} THEN 1 ELSE MaxPending)]
      /\ RoundInv' /\ BoundInv'
      /\ \A c \in Backend : pending[c] <= pending'[c]
      /\ healthCheckInFlight /\ changed => RoundStarts \/ (healthCheckInFlight' /\ changed')
  <2>1. CASE UNCHANGED round
    BY <1>1, <2>1 DEF round, RoundInv, BoundInv
  <2>2. CASE MaybeRunScheduledHealthChecks
    BY <1>1, <2>2, RoundStep
  <2> QED BY <2>1, <2>2 DEF RoundMoves
<1>9. ~(healthCheckInFlight' /\ changed') => ~(healthCheckInFlight /\ changed)
  BY <1>8 DEF RoundStarts
<1>10. ManagerTypeOK'
  <2>1. opaque' \in SUBSET Backend /\ stickySession' \in BOOLEAN
    BY <1>1
  <2>2. pending' \in [Backend -> 0..(IF opaque' = {} THEN 1 ELSE MaxPending)]
    BY <1>1, <1>8
  <2>3. stale' \in [Backend -> 0..MaxPending]
    BY <1>1
  <2> QED BY <1>2, <1>3, <1>6, <1>7, <1>8, <2>1, <2>2, <2>3 DEF ManagerTypeOK
<1>11. StaleInv'
  BY <1>1, <1>8, Caps DEF StaleInv
<1>12. StreakInv'
  BY <1>1, <1>3, <1>6 DEF StreakInv
<1>13. TableFresh'
  <2>1. Healthy' = Healthy \cup {b}
    BY <1>6 DEF Healthy
  <2>2. healthy[b] => Healthy = Healthy \cup {b}
    BY DEF Healthy
  <2> QED BY <1>1, <1>4, <1>9, <2>1, <2>2 DEF TableFresh
<1>14. HealthyIffNoFailures'
  BY <1>2, <1>6 DEF HealthyIffNoFailures
<1>15. HealthyIsVindicated'
  BY <1>1, <1>6 DEF HealthyIsVindicated
<1> QED
  BY <1>8, <1>10, <1>11, <1>12, <1>13, <1>14, <1>15 DEF MInv

\* The steps that leave every backend as it is: only the round moves.
LEMMA RoundOnlyStep ==
  ASSUME MInv, UNCHANGED <<config, health, healthyTable, stale, vindicated>>,
         /\ healthCheckInFlight' \in BOOLEAN /\ checkDue' \in BOOLEAN /\ changed' \in BOOLEAN
         /\ pending' \in [Backend -> 0..(IF opaque = {} THEN 1 ELSE MaxPending)]
         /\ RoundInv' /\ BoundInv'
         /\ \A b \in Backend : pending[b] <= pending'[b],
         opaque = {} /\ ~(healthCheckInFlight' /\ changed') => ~(healthCheckInFlight /\ changed)
  PROVE  MInv'
<1> USE DEF MInv, ManagerTypeOK
<1>1. /\ stickySession' = stickySession /\ opaque' = opaque /\ healthyTable' = healthyTable
      /\ stale' = stale
      /\ failures' = failures /\ consecutiveFailures' = consecutiveFailures
      /\ consecutiveSuccesses' = consecutiveSuccesses
  BY DEF config, health
<1>2. healthy' = healthy /\ vindicated' = vindicated
  BY DEF health
<1>3. ManagerTypeOK'
  BY <1>1, <1>2 DEF ManagerTypeOK
<1>4. StaleInv'
  BY <1>1, Caps DEF StaleInv
<1>5. StreakInv'
  BY <1>1, <1>2 DEF StreakInv
<1>6. TableFresh'
  <2>1. Healthy' = Healthy
    BY <1>2 DEF Healthy
  <2> QED BY <1>1, <2>1 DEF TableFresh
<1>7. HealthyIffNoFailures'
  BY <1>1, <1>2 DEF HealthyIffNoFailures
<1>8. HealthyIsVindicated'
  BY <1>1, <1>2 DEF HealthyIsVindicated
<1> QED
  BY <1>3, <1>4, <1>5, <1>6, <1>7, <1>8 DEF MInv

\* Selecting a backend may start a round; so may the clock allow one.
LEMMA GetBackendStep == MInv /\ GetBackend => MInv'
<1> SUFFICES ASSUME MInv, GetBackend PROVE MInv'
  OBVIOUS
<1>1. opaque' = opaque
  BY DEF GetBackend, config
<1>2. healthCheckInFlight /\ changed => healthCheckInFlight' /\ changed'
  BY <1>1, RoundStep DEF GetBackend
<1> QED
  BY <1>1, <1>2, RoundStep, RoundOnlyStep DEF GetBackend

\* The next round falls due.
LEMMA IntervalStep == MInv /\ IntervalElapsed => MInv'
<1> SUFFICES ASSUME MInv, IntervalElapsed PROVE MInv'
  OBVIOUS
<1> USE DEF MInv, ManagerTypeOK
<1>1. /\ opaque' = opaque /\ healthCheckInFlight' = healthCheckInFlight
      /\ changed' = changed /\ pending' = pending /\ checkDue' = TRUE
      /\ opaque # {} => \A b \in Backend : pending[b] < MaxPending
  BY DEF IntervalElapsed, config
<1>2. \A b \in Backend : pending[b] <= pending'[b]
  BY <1>1, Caps
<1>3. RoundInv' /\ BoundInv'
  BY <1>1 DEF RoundInv, BoundInv
<1> QED
  BY <1>1, <1>2, <1>3, RoundOnlyStep DEF IntervalElapsed

\* A round that is given up leaves the table as it was; it did not start from
\* a list that can be probed.
LEMMA RoundRejectsStep == MInv /\ RoundRejects => MInv'
<1> SUFFICES ASSUME MInv, RoundRejects PROVE MInv'
  OBVIOUS
<1> USE DEF MInv, ManagerTypeOK
<1>1. /\ opaque # {} /\ opaque' = opaque /\ healthCheckInFlight' = FALSE
      /\ changed' = FALSE /\ pending' = pending /\ checkDue' = checkDue
  BY DEF RoundRejects, config
<1>2. \A b \in Backend : pending[b] <= pending'[b]
  BY <1>1, Caps
<1>3. RoundInv' /\ BoundInv'
  BY <1>1 DEF RoundInv, BoundInv
<1> QED
  BY <1>1, <1>2, <1>3, RoundOnlyStep DEF RoundRejects

\* A round that ends rebuilds the table if a probe flipped a backend.
LEMMA RoundEndsStep == MInv /\ RoundEnds => MInv'
<1> SUFFICES ASSUME MInv, RoundEnds PROVE MInv'
  OBVIOUS
<1> USE DEF MInv, ManagerTypeOK
<1>1. /\ stickySession' = stickySession /\ opaque' = opaque /\ opaque = {}
      /\ stale' = stale /\ pending' = pending /\ checkDue' = checkDue
      /\ failures' = failures /\ consecutiveFailures' = consecutiveFailures
      /\ consecutiveSuccesses' = consecutiveSuccesses
      /\ healthCheckInFlight' = FALSE /\ changed' = FALSE
      /\ \A b \in Backend : pending[b] = 0
  BY DEF RoundEnds, config, health
<1>2. healthy' = healthy /\ vindicated' = vindicated
  BY DEF RoundEnds, health
<1>3. healthyTable' = Healthy
  BY DEF RoundEnds, TableFresh
<1>4. Healthy' = Healthy
  BY <1>2 DEF Healthy
<1>5. ManagerTypeOK'
  BY <1>1, <1>2, <1>3 DEF ManagerTypeOK, Healthy
<1>6. RoundInv' /\ BoundInv'
  BY <1>1 DEF RoundInv, BoundInv
<1>7. StaleInv'
  BY <1>1 DEF StaleInv
<1>8. StreakInv'
  BY <1>1, <1>2 DEF StreakInv
<1>9. HealthyIffNoFailures'
  BY <1>1, <1>2 DEF HealthyIffNoFailures
<1>10. HealthyIsVindicated'
  BY <1>1, <1>2 DEF HealthyIsVindicated
<1> QED
  BY <1>3, <1>4, <1>5, <1>6, <1>7, <1>8, <1>9, <1>10 DEF MInv, TableFresh

\* What every answer of a probe of b does to the round.
LEMMA AnswerRound ==
  ASSUME MInv, NEW b \in Backend, ProbeAnswer(b)
  PROVE  /\ stickySession' = stickySession /\ opaque' = opaque
         /\ healthyTable' = healthyTable
         /\ healthCheckInFlight' = healthCheckInFlight /\ checkDue' = checkDue
         /\ pending' \in [Backend -> 0..(IF opaque = {} THEN 1 ELSE MaxPending)]
         /\ pending[b] > 0 /\ pending'[b] = pending[b] - 1
         /\ \A c \in Backend \ {b} : pending'[c] = pending[c]
         /\ RoundInv' /\ BoundInv'
         /\ opaque = {} => healthCheckInFlight /\ pending[b] = 1
<1> USE DEF MInv, ManagerTypeOK
<1>1. /\ stickySession' = stickySession /\ opaque' = opaque
      /\ healthyTable' = healthyTable
      /\ healthCheckInFlight' = healthCheckInFlight /\ checkDue' = checkDue
  BY DEF ProbeAnswer, config
<1>2. pending' = [pending EXCEPT ![b] = @ - 1] /\ pending[b] > 0
  BY DEF ProbeAnswer
<1>3. /\ pending' \in [Backend -> 0..(IF opaque = {} THEN 1 ELSE MaxPending)]
      /\ pending'[b] = pending[b] - 1
      /\ \A c \in Backend \ {b} : pending'[c] = pending[c]
  BY <1>2, Caps
<1>4. opaque = {} => healthCheckInFlight /\ pending[b] = 1
  BY <1>2 DEF RoundInv
<1>5. RoundInv'
  BY <1>1, <1>4 DEF RoundInv
<1>6. BoundInv'
  BY <1>1, <1>3, Caps DEF BoundInv
<1> QED
  BY <1>1, <1>2, <1>3, <1>4, <1>5, <1>6

\* A probe of b fails, late or not.
LEMMA ProbeFailsStep ==
  ASSUME MInv, NEW b \in Backend, ProbeAnswer(b), ProbeFails(b)
  PROVE  MInv'
<1> USE DEF MInv, ManagerTypeOK
<1>0. /\ stickySession' = stickySession /\ opaque' = opaque
      /\ healthyTable' = healthyTable
      /\ healthCheckInFlight' = healthCheckInFlight /\ checkDue' = checkDue
      /\ pending' \in [Backend -> 0..(IF opaque = {} THEN 1 ELSE MaxPending)]
      /\ pending'[b] = pending[b] - 1
      /\ \A c \in Backend \ {b} : pending'[c] = pending[c]
      /\ RoundInv' /\ BoundInv'
      /\ opaque = {} => healthCheckInFlight
  BY AnswerRound
<1>1. /\ failures' \in [Backend -> 0..FailureCap] /\ failures'[b] >= 1
      /\ consecutiveFailures' \in [Backend -> 0..FailureCap] /\ consecutiveFailures'[b] >= 1
      /\ \A c \in Backend \ {b} : failures'[c] = failures[c]
  BY BumpType, Caps DEF ProbeFails
<1>2. /\ consecutiveSuccesses' \in [Backend -> 0..SuccessCap]
      /\ consecutiveSuccesses'[b] = 0
      /\ \A c \in Backend \ {b} : consecutiveSuccesses'[c] = consecutiveSuccesses[c]
  BY Caps DEF ProbeFails
<1>3. /\ healthy' = [healthy EXCEPT ![b] = FALSE]
      /\ changed' = (changed \/ healthy[b])
  BY <1>1, Caps DEF ProbeFails
<1>4. /\ stale' = [stale EXCEPT ![b] = pending'[b]]
      /\ vindicated' = [vindicated EXCEPT ![b] = FALSE]
  BY DEF ProbeFails, ObserveFailure
<1>5. /\ healthy' \in [Backend -> BOOLEAN] /\ vindicated' \in [Backend -> BOOLEAN]
      /\ ~healthy'[b] /\ ~vindicated'[b]
      /\ \A c \in Backend \ {b} : /\ healthy'[c] = healthy[c]
                                  /\ vindicated'[c] = vindicated[c]
  BY <1>3, <1>4
<1>6. /\ stale' \in [Backend -> 0..MaxPending] /\ stale'[b] = pending'[b]
      /\ \A c \in Backend \ {b} : stale'[c] = stale[c]
  BY <1>0, <1>4, Caps
<1>7. changed' \in BOOLEAN
  BY <1>3
<1>8. ManagerTypeOK'
  BY <1>0, <1>1, <1>2, <1>5, <1>6, <1>7 DEF ManagerTypeOK
<1>9. StaleInv'
  BY <1>0, <1>6, Caps DEF StaleInv
<1>10. StreakInv'
  BY <1>0, <1>2, <1>5, <1>6 DEF StreakInv
<1>11. TableFresh'
  <2>1. ~changed' => Healthy' = Healthy /\ ~changed
    BY <1>3, <1>5 DEF Healthy
  <2> QED BY <1>0, <2>1 DEF TableFresh
<1>12. HealthyIffNoFailures'
  BY <1>1, <1>5 DEF HealthyIffNoFailures
<1>13. HealthyIsVindicated'
  BY <1>0, <1>5 DEF HealthyIsVindicated
<1> QED
  BY <1>0, <1>8, <1>9, <1>10, <1>11, <1>12, <1>13 DEF MInv

\* A probe of b succeeds.  A late answer comes only while one is due, and a
\* fresh one only when not all that are due are late.
LEMMA ProbeSucceedsStep ==
  ASSUME MInv, NEW b \in Backend, ProbeAnswer(b), NEW late \in BOOLEAN,
         ProbeSucceeds(b, late),
         IF late THEN stale[b] > 0 ELSE stale[b] < pending[b]
  PROVE  MInv'
<1> USE DEF MInv, ManagerTypeOK
<1>0. /\ stickySession' = stickySession /\ opaque' = opaque
      /\ healthyTable' = healthyTable
      /\ healthCheckInFlight' = healthCheckInFlight /\ checkDue' = checkDue
      /\ pending' \in [Backend -> 0..(IF opaque = {} THEN 1 ELSE MaxPending)]
      /\ pending'[b] = pending[b] - 1
      /\ \A c \in Backend \ {b} : pending'[c] = pending[c]
      /\ RoundInv' /\ BoundInv'
      /\ opaque = {} => healthCheckInFlight /\ pending[b] = 1
  BY AnswerRound
<1>1. /\ healthy' \in [Backend -> BOOLEAN]
      /\ healthy'[b] <=> healthy[b] \/ Recovers(b)
      /\ \A c \in Backend \ {b} : healthy'[c] = healthy[c]
  BY Zenon DEF ProbeSucceeds, Recovers
<1>2. /\ vindicated' \in [Backend -> BOOLEAN]
      /\ vindicated'[b] <=> vindicated[b] \/ ~late
      /\ \A c \in Backend \ {b} : vindicated'[c] = vindicated[c]
  BY Zenon DEF ProbeSucceeds
<1>3. /\ consecutiveSuccesses' \in [Backend -> 0..SuccessCap]
      /\ consecutiveSuccesses'[b] = Bump(consecutiveSuccesses[b], SuccessCap)
      /\ \A c \in Backend \ {b} : consecutiveSuccesses'[c] = consecutiveSuccesses[c]
      /\ consecutiveFailures' \in [Backend -> 0..FailureCap]
  BY BumpType, Caps DEF ProbeSucceeds
<1>4. /\ failures' \in [Backend -> 0..FailureCap]
      /\ failures'[b] = IF healthy'[b] THEN 0 ELSE failures[b]
      /\ \A c \in Backend \ {b} : failures'[c] = failures[c]
  BY Caps DEF ProbeSucceeds
<1>5. changed' = (changed \/ Recovers(b))
  BY Zenon DEF ProbeSucceeds
<1>6. /\ stale' \in [Backend -> 0..MaxPending]
      /\ stale'[b] = IF late THEN stale[b] - 1 ELSE stale[b]
      /\ \A c \in Backend \ {b} : stale'[c] = stale[c]
  BY Caps DEF ProbeSucceeds
<1>7. changed' \in BOOLEAN
  BY <1>5, Zenon DEF Recovers
<1>8. ManagerTypeOK'
  BY <1>0, <1>1, <1>2, <1>3, <1>4, <1>6, <1>7 DEF ManagerTypeOK
<1>9. StaleInv'
  BY <1>0, <1>6, Caps DEF StaleInv
<1>10. ASSUME opaque = {}, ~vindicated'[b]
       PROVE  /\ ~Recovers(b)
              /\ consecutiveSuccesses'[b] <= 1
              /\ stale'[b] = 0
  <2>1. late /\ ~vindicated[b] /\ stale[b] > 0
    BY <1>2, <1>10
  <2>2. consecutiveSuccesses[b] = 0
    BY <1>10, <2>1, Caps DEF StreakInv
  <2>3. stale[b] = 1
    BY <1>0, <1>10, <2>1, Caps DEF StaleInv
  <2>4. Bump(consecutiveSuccesses[b], SuccessCap) = 1
    BY <2>2, Caps DEF Bump
  <2> QED
    BY <1>3, <1>6, <2>1, <2>3, <2>4, Caps DEF Recovers
<1>11. StreakInv'
  BY <1>0, <1>2, <1>3, <1>6, <1>10 DEF StreakInv
<1>12. TableFresh'
  <2>1. ~changed' => ~changed /\ \A c \in Backend : healthy'[c] = healthy[c]
    BY <1>1, <1>5
  <2>2. ~changed' => ~changed /\ Healthy' = Healthy
    BY <2>1 DEF Healthy
  <2> QED BY <1>0, <2>2 DEF TableFresh
<1>13. HealthyIffNoFailures'
  BY <1>1, <1>4 DEF HealthyIffNoFailures
<1>14. HealthyIsVindicated'
  BY <1>0, <1>1, <1>2, <1>10 DEF HealthyIsVindicated
<1> QED
  BY <1>0, <1>8, <1>9, <1>11, <1>12, <1>13, <1>14 DEF MInv

\* The answers of a probe together.
LEMMA ProbeAnswerStep ==
  ASSUME MInv, NEW b \in Backend, ProbeAnswer(b)
  PROVE  MInv'
<1>1. CASE ProbeFails(b)
  BY <1>1, ProbeFailsStep
<1>2. CASE stale[b] > 0 /\ ProbeSucceeds(b, TRUE)
  BY <1>2, ProbeSucceedsStep
<1>3. CASE stale[b] < pending[b] /\ ProbeSucceeds(b, FALSE)
  BY <1>3, ProbeSucceedsStep
<1> QED
  BY <1>1, <1>2, <1>3 DEF ProbeAnswer

\* The invariant is a matter of the manager's variables only.
LEMMA StutterMInv == MInv /\ UNCHANGED mvars => MInv'
BY DEF mvars, config, health, round, MInv, ManagerTypeOK, RoundInv, BoundInv,
   StaleInv, StreakInv, TableFresh, HealthyIffNoFailures, HealthyIsVindicated, Healthy

\* Every call and every event of the manager keeps the invariant.
LEMMA ManagerStep == MInv /\ [ManagerNext]_mvars => MInv'
<1> SUFFICES ASSUME MInv, [ManagerNext]_mvars PROVE MInv'
  OBVIOUS
<1>1. CASE Background
  BY <1>1, IntervalStep, ProbeAnswerStep, RoundEndsStep, RoundRejectsStep DEF Background
<1>2. CASE GetBackend
  BY <1>2, GetBackendStep
<1>3. CASE \E b \in Backend : MarkFailed(b)
  BY <1>3, MarkFailedStep
<1>4. CASE \E b \in Backend : MarkHealthy(b) /\ RoundMoves
  BY <1>4, MarkHealthyStep
<1>5. CASE UNCHANGED mvars
  BY <1>5, StutterMInv
<1> QED
  BY <1>1, <1>2, <1>3, <1>4, <1>5 DEF ManagerNext, RoundMoves

\* The manager keeps its invariant in any environment.
THEOREM ManagerInductive == ManagerSpec => []MInv
<1>1. MInv /\ [ManagerNext]_mvars => MInv'
  BY ManagerStep
<1> QED
  BY <1>1, InitMInv, PTL DEF ManagerSpec

-----------------------------------------------------------------------------
(* Selection *)

\* A set of backends that is not empty has a first one, in list order.
LEMMA LowestExists ==
  ASSUME NEW S \in SUBSET Backend, S # {}
  PROVE  Lowest(S) \in S
<1>1. S \subseteq Nat
  BY ManagerAssumption DEF Backend
<1> DEFINE R == OpToRel(<, Nat)
<1>2. \A c, d \in Nat : c < d => <<c, d>> \in R
  <2>1. R = {p \in Nat \X Nat : p[1] < p[2]}
    BY Zenon DEF OpToRel
  <2> HIDE DEF R
  <2> QED BY <2>1
<1>3. IsWellFoundedOn(R, Nat)
  BY NatLessThanWellFounded
<1> HIDE DEF R
<1>4. PICK m \in S : \A c \in S : ~(<<c, m>> \in R)
  BY <1>1, <1>3, WFMin
<1>5. ASSUME NEW c \in S PROVE m <= c
  <2>1. c \in Nat /\ m \in Nat
    BY <1>1
  <2>2. ~(c < m)
    BY <1>2, <1>4, <2>1, Zenon
  <2> QED BY <2>1, <2>2
<1> QED
  BY <1>5 DEF Lowest

\* First takes an element of a set, if there is one.
LEMMA FirstOf ==
  ASSUME NEW S \in SUBSET Backend
  PROVE  First(S) \subseteq S /\ (S # {} => First(S) # {})
BY LowestExists DEF First

\* Selection returns a backend, and one that was not tried if there is one.
LEMMA PicksAreFresh ==
  ASSUME ManagerTypeOK, NEW excluded \in SUBSET Backend
  PROVE  /\ Picks(excluded) \subseteq Backend
         /\ Backend \ excluded # {} => Picks(excluded) \cap excluded = {}
<1>1. Healthy \subseteq Backend /\ healthyTable \subseteq Backend /\ 0 \in Backend
  BY ManagerAssumption DEF ManagerTypeOK, Healthy, Backend
<1>2. First(Healthy \ excluded) \subseteq Backend \ excluded
  BY <1>1, FirstOf
<1>3. StickyHealthyPicks(excluded) \subseteq Backend \ excluded
  <2> DEFINE top == {b \in First(healthyTable) : healthy[b] /\ b \notin excluded}
  <2>1. First(healthyTable) \subseteq Backend
    BY <1>1, FirstOf
  <2>2. top \subseteq Backend \ excluded
    BY <2>1
  <2>3. StickyHealthyPicks(excluded) = IF top # {} THEN top ELSE First(Healthy \ excluded)
    BY DEF StickyHealthyPicks
  <2> QED BY <1>2, <2>2, <2>3
<1>4. HealthyPicks(excluded) \subseteq Backend \ excluded
  BY <1>1, <1>3 DEF HealthyPicks
<1>5. /\ AnyPicks(excluded) \subseteq Backend \ excluded
      /\ Backend \ excluded # {} => AnyPicks(excluded) # {}
  BY FirstOf DEF AnyPicks
<1> QED
  BY <1>1, <1>4, <1>5 DEF Picks

\* Selection takes a healthy backend, if one was not tried, when it goes by
\* the health flags: in sticky mode, and when the table is up to date.
LEMMA PicksAreHealthy ==
  ASSUME ManagerTypeOK, NEW excluded \in SUBSET Backend,
         Healthy \ excluded # {}, stickySession \/ healthyTable = Healthy
  PROVE  Picks(excluded) \subseteq Healthy
<1>1. Healthy \subseteq Backend /\ healthyTable \subseteq Backend
  BY DEF ManagerTypeOK, Healthy
<1>2. CASE stickySession
  <2> DEFINE top == {b \in First(healthyTable) : healthy[b] /\ b \notin excluded}
  <2>1. First(healthyTable) \subseteq Backend
    BY <1>1, FirstOf
  <2>2. top \subseteq Healthy
    BY <2>1 DEF Healthy
  <2>3. First(Healthy \ excluded) \subseteq Healthy /\ First(Healthy \ excluded) # {}
    BY <1>1, FirstOf
  <2>4. StickyHealthyPicks(excluded) = IF top # {} THEN top ELSE First(Healthy \ excluded)
    BY DEF StickyHealthyPicks
  <2>5. StickyHealthyPicks(excluded) \subseteq Healthy /\ StickyHealthyPicks(excluded) # {}
    BY <2>2, <2>3, <2>4
  <2>6. Picks(excluded) = StickyHealthyPicks(excluded)
    BY <1>2, <2>5 DEF Picks, HealthyPicks
  <2> QED BY <2>5, <2>6
<1>3. CASE ~stickySession /\ healthyTable = Healthy
  <2>1. HealthyPicks(excluded) = Healthy \ excluded
    BY <1>3 DEF HealthyPicks
  <2>2. Picks(excluded) = Healthy \ excluded
    BY <2>1 DEF Picks
  <2> QED BY <2>2
<1> QED BY <1>2, <1>3

-----------------------------------------------------------------------------
(* The coroutines *)

RequestTypeOK ==
  /\ phase \in [Request -> {"idle", "awaiting", "backoff"}]
  /\ kind \in [Request -> Kind \cup {"none"}]
  /\ tried \in [Request -> Seq(Backend)]
  /\ result \in [Request -> {"none", "failure"}]
  /\ \A r \in Request :
       Len(tried[r]) \in IF phase[r] = "awaiting" THEN 1..MaxAttempts
                        ELSE 0..(MaxAttempts - 1)

Spread(s) == IsInjective(s) \/ ToSet(s) = Backend

SpreadInv == \A r \in Request : Spread(tried[r])

FInv == MInv /\ RequestTypeOK /\ SpreadInv

\* The backends tried are backends, and the current one is among them.
LEMMA TriedType ==
  ASSUME RequestTypeOK, NEW r \in Request
  PROVE  /\ Tried(r) \in SUBSET Backend
         /\ phase[r] = "awaiting" => Current(r) \in Backend
<1>1. tried[r] \in Seq(Backend)
  BY DEF RequestTypeOK
<1>2. Tried(r) \in SUBSET Backend
  BY <1>1 DEF Tried, ToSet
<1>3. ASSUME phase[r] = "awaiting" PROVE Current(r) \in Backend
  <2>1. Len(tried[r]) \in 1..MaxAttempts
    BY <1>3 DEF RequestTypeOK
  <2> QED BY <1>1, <2>1, FailoverAssumption DEF Current, Last
<1> QED BY <1>2, <1>3

\* Appending a backend that was not tried keeps the attempts spread, and so
\* does appending any when all of them were.
LEMMA SpreadAppend ==
  ASSUME NEW s \in Seq(Backend), NEW b \in Backend, Spread(s),
         Backend \ ToSet(s) # {} => b \notin ToSet(s)
  PROVE  Spread(Append(s, b))
<1>1. CASE ToSet(s) = Backend
  <2>1. ToSet(s) \subseteq ToSet(Append(s, b))
    BY DEF ToSet
  <2>2. ToSet(Append(s, b)) \subseteq Backend
    BY DEF ToSet
  <2> QED BY <1>1, <2>1, <2>2 DEF Spread
<1>2. CASE ToSet(s) # Backend
  <2>1. b \notin ToSet(s) /\ IsInjective(s)
    BY <1>2 DEF Spread, ToSet
  <2>2. \A i \in 1..Len(s) : s[i] # b
    BY <2>1 DEF ToSet
  <2>3. \A i, j \in 1..Len(s) : s[i] = s[j] => i = j
    BY <2>1 DEF IsInjective
  <2>4. IsInjective(Append(s, b))
    BY <2>2, <2>3 DEF IsInjective
  <2> QED BY <2>4 DEF Spread
<1> QED BY <1>1, <1>2

\* A turn of the loop: what it appends is a pick.
LEMMA DialEffect ==
  ASSUME FInv, NEW r \in Request, Dial(r), phase[r] # "awaiting"
  PROVE  /\ GetBackend
         /\ \E b \in Backend : /\ b \in Picks(Tried(r))
                               /\ tried' = [tried EXCEPT ![r] = Append(tried[r], b)]
         /\ tried' \in [Request -> Seq(Backend)]
         /\ phase' \in [Request -> {"idle", "awaiting", "backoff"}]
         /\ \A q \in Request :
              Len(tried'[q]) \in IF phase'[q] = "awaiting" THEN 1..MaxAttempts
                                ELSE 0..(MaxAttempts - 1)
         /\ SpreadInv'
<1>1. tried \in [Request -> Seq(Backend)] /\ phase \in [Request -> {"idle", "awaiting", "backoff"}]
  BY DEF FInv, RequestTypeOK
<1>2. Tried(r) \in SUBSET Backend
  BY TriedType DEF FInv
<1>3. /\ Picks(Tried(r)) \subseteq Backend
      /\ Backend \ Tried(r) # {} => Picks(Tried(r)) \cap Tried(r) = {}
  BY <1>2, PicksAreFresh DEF FInv, MInv
<1>4. PICK b \in Picks(Tried(r)) : tried' = [tried EXCEPT ![r] = Append(tried[r], b)]
  BY DEF Dial
<1>5. b \in Backend
  BY <1>3
<1>6. /\ tried'[r] = Append(tried[r], b) /\ tried'[r] \in Seq(Backend)
      /\ Len(tried'[r]) = Len(tried[r]) + 1
      /\ \A q \in Request \ {r} : tried'[q] = tried[q]
  BY <1>1, <1>4, <1>5
<1>7. /\ phase'[r] = "awaiting"
      /\ \A q \in Request \ {r} : phase'[q] = phase[q]
      /\ phase' \in [Request -> {"idle", "awaiting", "backoff"}]
  BY <1>1 DEF Dial
<1>8. Len(tried[r]) \in 0..(MaxAttempts - 1)
  BY <1>1 DEF FInv, RequestTypeOK
<1>9. \A q \in Request :
        Len(tried'[q]) \in IF phase'[q] = "awaiting" THEN 1..MaxAttempts
                          ELSE 0..(MaxAttempts - 1)
  <2>1. Len(tried'[r]) \in 1..MaxAttempts
    BY <1>6, <1>8, FailoverAssumption
  <2> QED BY <1>6, <1>7, <2>1 DEF FInv, RequestTypeOK
<1>10. SpreadInv'
  <2>1. Spread(tried'[r])
    BY <1>1, <1>3, <1>5, <1>6, SpreadAppend DEF FInv, SpreadInv, Tried
  <2> QED BY <1>6, <2>1 DEF FInv, SpreadInv
<1>11. tried' \in [Request -> Seq(Backend)]
  BY <1>1, <1>4, <1>6
<1> QED
  BY <1>4, <1>5, <1>7, <1>9, <1>10, <1>11 DEF Dial

\* An answer frees the slot of the request.
LEMMA ReplyEffect ==
  ASSUME FInv, NEW r \in Request, NEW a \in {"none", "failure"}, Reply(r, a)
  PROVE  RequestTypeOK' /\ SpreadInv'
<1>1. /\ tried \in [Request -> Seq(Backend)]
      /\ phase \in [Request -> {"idle", "awaiting", "backoff"}]
      /\ kind \in [Request -> Kind \cup {"none"}]
      /\ result \in [Request -> {"none", "failure"}]
  BY DEF FInv, RequestTypeOK
<1>2. /\ phase' \in [Request -> {"idle", "awaiting", "backoff"}] /\ phase'[r] = "idle"
      /\ kind' \in [Request -> Kind \cup {"none"}]
      /\ tried' \in [Request -> Seq(Backend)] /\ tried'[r] = <<>>
      /\ result' \in [Request -> {"none", "failure"}]
      /\ \A q \in Request \ {r} : phase'[q] = phase[q] /\ tried'[q] = tried[q]
  BY <1>1 DEF Reply
<1>3. RequestTypeOK'
  <2>1. Len(tried'[r]) \in 0..(MaxAttempts - 1)
    BY <1>2, FailoverAssumption
  <2> QED BY <1>2, <2>1 DEF FInv, RequestTypeOK
<1>4. SpreadInv'
  <2>1. Spread(<<>>)
    BY DEF Spread, IsInjective
  <2> QED BY <1>2, <2>1 DEF FInv, SpreadInv
<1> QED BY <1>3, <1>4

\* Every step of the failover loop is one of the manager, or a stutter of it.
LEMMA FailoverToManager ==
  ASSUME FInv, [Next]_vars
  PROVE  [ManagerNext]_mvars
<1>1. CASE UNCHANGED vars
  BY <1>1 DEF vars
<1>2. CASE Background
  BY <1>2 DEF ManagerNext
<1>3. CASE Refuse
  <2>1. Picks({}) \subseteq Backend
    BY PicksAreFresh DEF FInv, MInv
  <2> QED BY <1>3, <2>1 DEF Refuse, ManagerNext
<1>4. ASSUME NEW r \in Request, Arrive(r) \/ Retry(r)
      PROVE  ManagerNext
  BY <1>4 DEF Arrive, Retry, Dial, ManagerNext
<1>5. ASSUME NEW r \in Request, Settle(r)
      PROVE  ManagerNext
  <2>1. phase[r] = "awaiting"
    BY <1>5 DEF Settle, Succeed, Fail
  <2>2. Current(r) \in Backend
    BY <2>1, TriedType DEF FInv
  <2> QED BY <1>5, <2>2 DEF Settle, Succeed, Fail, ManagerNext
<1> QED
  BY <1>1, <1>2, <1>3, <1>4, <1>5 DEF Next

\* What the requests keep, action by action.
LEMMA RequestStep ==
  ASSUME FInv, [Next]_vars
  PROVE  RequestTypeOK' /\ SpreadInv'
<1>1. CASE UNCHANGED fvars
  BY <1>1 DEF fvars, FInv, RequestTypeOK, SpreadInv
<1>2. ASSUME NEW r \in Request, Arrive(r)
      PROVE  RequestTypeOK' /\ SpreadInv'
  <2>1. /\ kind' \in [Request -> Kind \cup {"none"}]
        /\ result' \in [Request -> {"none", "failure"}]
    BY <1>2 DEF Arrive, FInv, RequestTypeOK
  <2> QED BY <1>2, <2>1, DialEffect DEF Arrive, RequestTypeOK
<1>3. ASSUME NEW r \in Request, Retry(r)
      PROVE  RequestTypeOK' /\ SpreadInv'
  <2>1. /\ kind' \in [Request -> Kind \cup {"none"}]
        /\ result' \in [Request -> {"none", "failure"}]
    BY <1>3 DEF Retry, FInv, RequestTypeOK
  <2> QED BY <1>3, <2>1, DialEffect DEF Retry, RequestTypeOK
<1>4. ASSUME NEW r \in Request, Succeed(r)
      PROVE  RequestTypeOK' /\ SpreadInv'
  BY <1>4, ReplyEffect DEF Succeed
<1>5. ASSUME NEW r \in Request, Fail(r)
      PROVE  RequestTypeOK' /\ SpreadInv'
  <2>1. CASE MoreAttempts(r)
    <3>1. /\ phase[r] = "awaiting" /\ phase' = [phase EXCEPT ![r] = "backoff"]
          /\ kind' = kind /\ tried' = tried /\ result' = result
      BY <1>5, <2>1 DEF Fail
    <3>2. Len(tried[r]) \in 1..MaxAttempts
      BY <3>1 DEF FInv, RequestTypeOK
    <3>3. Len(tried[r]) \in 0..(MaxAttempts - 1)
      BY <2>1, <3>2, FailoverAssumption DEF MoreAttempts
    <3>4. SpreadInv'
      BY <3>1 DEF FInv, SpreadInv
    <3> QED BY <3>1, <3>3, <3>4 DEF FInv, RequestTypeOK
  <2>2. CASE ~MoreAttempts(r)
    BY <1>5, <2>2, ReplyEffect DEF Fail
  <2> QED BY <2>1, <2>2
<1> QED
  BY <1>1, <1>2, <1>3, <1>4, <1>5 DEF Next, Refuse, Settle, vars

-----------------------------------------------------------------------------
(* Theorems *)

\* The invariant holds at first and every step keeps it.
THEOREM FailoverInductive == SafetySpec => []FInv
<1>1. Init => FInv
  <2> SUFFICES ASSUME Init PROVE FInv
    OBVIOUS
  <2>1. MInv
    BY InitMInv DEF Init
  <2>2. RequestTypeOK
    BY FailoverAssumption DEF Init, RequestTypeOK
  <2>3. SpreadInv
    BY DEF Init, SpreadInv, Spread, IsInjective
  <2> QED BY <2>1, <2>2, <2>3 DEF FInv
<1>2. FInv /\ [Next]_vars => FInv'
  <2> SUFFICES ASSUME FInv, [Next]_vars PROVE FInv'
    OBVIOUS
  <2>1. MInv'
    BY FailoverToManager, ManagerStep DEF FInv
  <2> QED BY <2>1, RequestStep DEF FInv
<1> QED BY <1>1, <1>2, PTL DEF SafetySpec

\* Types, and no two probes of one backend under way at once: rounds do not
\* overlap (backend.ts:759).
THEOREM FailoverTypeCorrect == SafetySpec => []TypeOK
<1>1. FInv => TypeOK
  BY DEF FInv, MInv, RequestTypeOK, TypeOK
<1> QED BY <1>1, FailoverInductive, PTL

\* The table selection draws from is up to date whenever no round of probes
\* has flipped a backend and not ended (backend.ts:775-778).
THEOREM TableIsFresh == SafetySpec => []TableFresh
<1>1. FInv => TableFresh
  BY DEF FInv, MInv
<1> QED BY <1>1, FailoverInductive, PTL

\* A backend is healthy exactly when its failure count is zero, whoever wrote
\* to its state last (backend.ts:494-547,814-860).
THEOREM HealthAgreesWithFailures == SafetySpec => []HealthyIffNoFailures
<1>1. FInv => HealthyIffNoFailures
  BY DEF FInv, MInv
<1> QED BY <1>1, FailoverInductive, PTL

\* No backend recovers on probes that were all sent before its last failure
\* (backend.ts:826).
THEOREM RecoveryIsVindicated == SafetySpec => []HealthyIsVindicated
<1>1. FInv => HealthyIsVindicated
  BY DEF FInv, MInv
<1> QED BY <1>1, FailoverInductive, PTL

\* Failover drives the manager through its own behaviours only.
THEOREM DrivesManager == SafetySpec => ManagerSpec
<1>1. Init => InitManager
  BY DEF Init
<1>2. FInv /\ [Next]_vars => [ManagerNext]_mvars
  BY FailoverToManager
<1> QED BY <1>1, <1>2, FailoverInductive, PTL DEF SafetySpec, ManagerSpec

\* A client hears of a failure only after MaxAttempts attempts over as many
\* different backends as there are (index.ts:483-558).
THEOREM FailoverExhausts == SafetySpec => FailoverIsExhaustive
<1> DEFINE Exhaustive ==
      \A r \in Request :
        result[r] = "none" /\ result'[r] = "failure" =>
          Len(tried[r]) = MaxAttempts /\ (Tried(r) = Backend \/ IsInjective(tried[r]))
<1>1. FInv /\ [Next]_vars => [Exhaustive]_vars
  <2> SUFFICES ASSUME FInv, Next, NEW r \in Request,
                      result[r] = "none", result'[r] = "failure"
               PROVE  /\ Len(tried[r]) = MaxAttempts
                      /\ Tried(r) = Backend \/ IsInjective(tried[r])
    OBVIOUS
  <2>1. result \in [Request -> {"none", "failure"}]
    BY DEF FInv, RequestTypeOK
  <2>2. ~(UNCHANGED result)
    OBVIOUS
  <2>3. ASSUME NEW q \in Request, Arrive(q) PROVE FALSE
    BY <2>1, <2>3 DEF Arrive
  <2>4. ASSUME NEW q \in Request, Succeed(q) PROVE FALSE
    BY <2>1, <2>4 DEF Succeed, Reply
  <2>5. PICK q \in Request : Fail(q)
    BY <2>2, <2>3, <2>4 DEF Next, Refuse, Retry, Settle, fvars
  <2>6. ~MoreAttempts(q) /\ phase[q] = "awaiting" /\ result' = [result EXCEPT ![q] = "failure"]
    BY <2>2, <2>5 DEF Fail, Reply
  <2>7. q = r
    BY <2>1, <2>6
  <2>8. Len(tried[r]) \in 1..MaxAttempts
    BY <2>6, <2>7 DEF FInv, RequestTypeOK
  <2>9. Len(tried[r]) = MaxAttempts
    BY <2>6, <2>7, <2>8, FailoverAssumption DEF MoreAttempts
  <2> QED
    BY <2>9 DEF FInv, SpreadInv, Spread, Tried
<1> QED
  BY <1>1, FailoverInductive, PTL DEF SafetySpec, FailoverIsExhaustive

\* An unhealthy backend is chosen over a healthy one only in weighted mode
\* and during a round of probes that has flipped a backend (backend.ts:715-778).
THEOREM UnhealthyComesLast == SafetySpec => UnhealthyIsLastResort
<1> DEFINE LastResort ==
      \A r \in Request, b \in Backend :
        Picked(r, b) /\ opaque = {} /\ ~healthy[b] /\ HealthyUntried(r)
          => healthCheckInFlight /\ changed /\ ~stickySession
<1>1. FInv /\ [Next]_vars => [LastResort]_vars
  <2> SUFFICES ASSUME FInv, Next, NEW r \in Request, NEW b \in Backend,
                      Picked(r, b), opaque = {}, HealthyUntried(r),
                      ~(healthCheckInFlight /\ changed /\ ~stickySession)
               PROVE  healthy[b]
    OBVIOUS
  <2>1. tried \in [Request -> Seq(Backend)]
    BY DEF FInv, RequestTypeOK
  <2>2. tried'[r] # tried[r] /\ tried'[r] # <<>>
    BY <2>1 DEF Picked
  <2>3. ASSUME NEW q \in Request, Settle(q) PROVE FALSE
    BY <2>1, <2>2, <2>3 DEF Settle, Succeed, Fail, Reply, fvars
  <2>4. PICK q \in Request : Arrive(q) \/ Retry(q)
    BY <2>2, <2>3 DEF Next, Refuse, fvars
  <2>5. PICK c \in Picks(Tried(q)) : tried' = [tried EXCEPT ![q] = Append(tried[q], c)]
    BY <2>4 DEF Arrive, Retry, Dial
  <2>6. q = r
    BY <2>1, <2>2, <2>5
  <2>7. Tried(r) \in SUBSET Backend
    BY TriedType DEF FInv
  <2>8. c \in Backend
    BY <2>6, <2>7, PicksAreFresh DEF FInv, MInv
  <2>9. c = b
    <3>1. Append(tried[r], c) = Append(tried[r], b)
      BY <2>1, <2>5, <2>6 DEF Picked
    <3> QED BY <2>1, <2>8, <3>1
  <2>10. stickySession \/ healthyTable = Healthy
    BY DEF FInv, MInv, TableFresh
  <2>11. Picks(Tried(r)) \subseteq Healthy
    BY <2>7, <2>10, PicksAreHealthy DEF HealthyUntried, FInv, MInv
  <2> QED
    BY <2>5, <2>6, <2>9, <2>11 DEF Healthy
<1> QED
  BY <1>1, FailoverInductive, PTL DEF SafetySpec, UnhealthyIsLastResort
=============================================================================
