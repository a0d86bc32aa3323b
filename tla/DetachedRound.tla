---------------------------- MODULE DetachedRound ----------------------------
(***************************************************************************)
(* Failover on a runtime that ends the work a request has left behind.     *)
(* getBackend starts a round of probes without awaiting it, and hands it   *)
(* to nobody (`void this.runHealthChecks()`, backend.ts:764; fetch takes   *)
(* no context on which to call waitUntil, index.ts:562).  Workers may      *)
(* cancel such work once the request that started it is over: its probes   *)
(* do not come back, and the finally that clears the flag does not run.    *)
(***************************************************************************)
EXTENDS Failover

CONSTANT Nobody    \* a request that is over, and none of Request

VARIABLES
  starter,    \* the request that started the last round
  cancelled   \* that round was cancelled

rvars == <<vars, starter, cancelled>>

DetachedInit == Init /\ starter = Nobody /\ cancelled = FALSE

\* maybeRunScheduledHealthChecks may start a round, which is then r's.
StartedBy(r) ==
  starter' = IF ~healthCheckInFlight /\ healthCheckInFlight' THEN r ELSE starter

\* When r has been answered, the round it started is nobody's.
LeftBy(r) ==
  starter' = IF starter = r /\ phase'[r] = "idle" THEN Nobody ELSE starter

\* The runtime cancels a round whose request is over, its probes with it.
Cancel ==
  /\ healthCheckInFlight /\ ~cancelled /\ starter = Nobody
  /\ cancelled' = TRUE
  /\ pending' = [b \in Backend |-> 0]
  /\ stale' = [b \in Backend |-> 0]
  /\ UNCHANGED <<config, health, healthyTable, healthCheckInFlight, checkDue, changed,
                 vindicated, fvars, starter>>

\* A round that was cancelled comes to no end.
Continue ==
  \/ ~cancelled /\ (RoundEnds \/ RoundRejects)
  \/ IntervalElapsed \/ \E b \in Backend : ProbeAnswer(b)

DetachedNext ==
  \/ Cancel
  \/ /\ UNCHANGED cancelled
     /\ \/ Continue /\ UNCHANGED <<fvars, starter>>
        \/ Refuse /\ StartedBy(Nobody)
        \/ \E r \in Request : (Arrive(r) \/ Retry(r)) /\ StartedBy(r)
        \/ \E r \in Request : Settle(r) /\ LeftBy(r)

\* Fairness as in Failover, for what was not cancelled.
DetachedFairness ==
  /\ \A r \in Request : WF_vars(Retry(r) \/ Settle(r))
  /\ \A b \in Backend : WF_vars(ProbeAnswer(b) /\ UNCHANGED fvars)
  /\ WF_vars((RoundEnds \/ RoundRejects) /\ ~cancelled /\ UNCHANGED fvars)

DetachedSpec == DetachedInit /\ [][DetachedNext]_rvars /\ DetachedFairness
=============================================================================
