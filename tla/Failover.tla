------------------------------ MODULE Failover ------------------------------
(***************************************************************************)
(* Requests going through handleWithBackendFailover (src/src/index.ts)     *)
(* over one BackendManager.  Every request is a coroutine: it selects a    *)
(* backend and calls the transport handler in one stretch, awaits the      *)
(* handler, records the verdict, waits for the backoff and starts over.    *)
(*                                                                         *)
(* What a handler does with a request depends on what it is:               *)
(*   "plain"    an upgrade, or a pass-through without a body, is fetched;  *)
(*   "stream"   a pass-through with a body: toPassthroughInit hands over   *)
(*              request.body itself, a stream that the first fetch uses    *)
(*              up, so that every later fetch throws before it leaves;     *)
(*   refused    one that the handler answers on its own with 400 (a method *)
(*              or an option it does not take, ws.ts:102-104): it calls no *)
(*              backend and awaits nothing: its whole life is one step.    *)
(***************************************************************************)
EXTENDS BackendManager, Sequences, SequencesExt

CONSTANTS Request,       \* slots for requests under way at once
          MaxAttempts    \* resolveMaxRetryAttempts(env)

ASSUME FailoverAssumption == MaxAttempts \in Nat \ {0}

Kind == {"plain", "stream"}

VARIABLES
  phase,   \* "idle", "awaiting" the handler, "backoff"
  kind,    \* "none" in an idle slot
  tried,   \* attemptedBackendUrls
  result   \* "failure" if the last request in the slot got one, else "none"

fvars == <<phase, kind, tried, result>>
vars  == <<mvars, fvars>>

Tried(r) == ToSet(tried[r])
Current(r) == Last(tried[r])

Init ==
  /\ InitManager
  /\ phase = [r \in Request |-> "idle"]
  /\ kind = [r \in Request |-> "none"]
  /\ tried = [r \in Request |-> <<>>]
  /\ result = [r \in Request |-> "none"]

\* One turn of the loop up to the await of the handler (index.ts:483-501).
Dial(r) ==
  /\ GetBackend
  /\ \E b \in Picks(Tried(r)) : tried' = [tried EXCEPT ![r] = Append(@, b)]
  /\ phase' = [phase EXCEPT ![r] = "awaiting"]

\* A request arrives in a free slot and runs up to its first await.
Arrive(r) ==
  /\ phase[r] = "idle"
  /\ \E k \in Kind : kind' = [kind EXCEPT ![r] = k]
  /\ result' = [result EXCEPT ![r] = "none"]
  /\ Dial(r)

\* waitForRetry is over.
Retry(r) ==
  /\ phase[r] = "backoff"
  /\ Dial(r)
  /\ UNCHANGED <<kind, result>>

\* A refused request comes and goes; its response carries no failure marker
\* either, and marks the selected backend (index.ts:503-505).
Refuse ==
  /\ MaybeRunScheduledHealthChecks
  /\ \E b \in Picks({}) : MarkHealthy(b)
  /\ UNCHANGED fvars

\* The attempt under way reaches a backend.
Contacts(r) ==
  \/ kind[r] = "plain"
  \/ kind[r] = "stream" /\ Len(tried[r]) = 1

Reply(r, answer) ==
  /\ phase' = [phase EXCEPT ![r] = "idle"]
  /\ kind' = [kind EXCEPT ![r] = "none"]
  /\ tried' = [tried EXCEPT ![r] = <<>>]
  /\ result' = [result EXCEPT ![r] = answer]

\* The backend's response carries no failure marker (index.ts:503-506).
Succeed(r) ==
  /\ phase[r] = "awaiting"
  /\ Contacts(r)
  /\ MarkHealthy(Current(r))
  /\ UNCHANGED round
  /\ Reply(r, "none")

MoreAttempts(r) == Len(tried[r]) < MaxAttempts

\* Mutant: the last failure waits for yet another turn of the loop.
Fail_WaitsForever(r) ==
  /\ phase[r] = "awaiting"
  /\ MarkFailed(Current(r))
  /\ IF MoreAttempts(r)
     THEN phase' = [phase EXCEPT ![r] = "backoff"] /\ UNCHANGED <<kind, tried, result>>
     ELSE UNCHANGED fvars

\* It returns a marked response or throws (index.ts:508-543); after the last
\* attempt the failure goes to the client (index.ts:546-558).
Fail(r) ==
  /\ phase[r] = "awaiting"
  /\ MarkFailed(Current(r))
  /\ IF MoreAttempts(r)
     THEN phase' = [phase EXCEPT ![r] = "backoff"] /\ UNCHANGED <<kind, tried, result>>
     ELSE Reply(r, "failure")

Settle(r) == Succeed(r) \/ Fail(r)

Next ==
  \/ Background /\ UNCHANGED fvars
  \/ Refuse
  \/ \E r \in Request : Arrive(r) \/ Retry(r) \/ Settle(r)

\* Fairness.  Every fetch of a handler and of a probe is aborted by a timer,
\* the waits between attempts are timers too, and a coroutine whose await is
\* settled resumes.  Nothing makes requests arrive.
Fairness ==
  /\ \A r \in Request : WF_vars(Retry(r) \/ Settle(r))
  /\ \A b \in Backend : WF_vars(ProbeAnswer(b) /\ UNCHANGED fvars)
  /\ WF_vars((RoundEnds \/ RoundRejects) /\ UNCHANGED fvars)

SafetySpec == Init /\ [][Next]_vars
Spec == SafetySpec /\ Fairness

-----------------------------------------------------------------------------
(* Properties *)

\* Types of the coroutines; a request that awaits has a current backend.
TypeOK ==
  /\ ManagerTypeOK
  /\ phase \in [Request -> {"idle", "awaiting", "backoff"}]
  /\ kind \in [Request -> Kind \cup {"none"}]
  /\ tried \in [Request -> Seq(Backend)]
  /\ result \in [Request -> {"none", "failure"}]
  /\ \A r \in Request :
       Len(tried[r]) \in IF phase[r] = "awaiting" THEN 1..MaxAttempts
                        ELSE 0..(MaxAttempts - 1)

\* A client is told of a failure only after MaxAttempts attempts, spread over
\* as many different backends as there are: no backend is tried twice while
\* another was not tried at all, whatever health changes in between.
FailoverIsExhaustive ==
  [][\A r \in Request :
       result[r] = "none" /\ result'[r] = "failure" =>
         Len(tried[r]) = MaxAttempts /\ (Tried(r) = Backend \/ IsInjective(tried[r]))]_vars

\* r picks b in this step.
Picked(r, b) == tried'[r] = Append(tried[r], b)

\* Some healthy backend was still to be tried.
HealthyUntried(r) == Healthy \ Tried(r) # {}

\* An unhealthy backend is chosen over a healthy one only in weighted mode
\* and while a round of probes that flipped a backend is not over.
UnhealthyIsLastResort ==
  [][\A r \in Request, b \in Backend :
       Picked(r, b) /\ opaque = {} /\ ~healthy[b] /\ HealthyUntried(r)
         => healthCheckInFlight /\ changed /\ ~stickySession]_vars

\* In this step b has a say in what is thought of it: a probe of b comes to
\* its end, or an attempt that did contact b does.
HeardFrom(b) ==
  \/ pending'[b] < pending[b]
  \/ \E r \in Request : /\ phase[r] = "awaiting" /\ phase'[r] # "awaiting"
                        /\ Current(r) = b /\ Contacts(r)

\* backend.ts:522 "Marks a backend as healthy after a successful attempt":
\* a backend turns healthy only when it is heard from.
HealthyOnlyOnContact ==
  [][\A b \in Backend : ~healthy[b] /\ healthy'[b] => HeardFrom(b)]_vars

\* A backend that is healthy again goes back into the structures selection
\* draws from, or fails again; it is not forgotten outside them.
RecoveredReturns ==
  \A b \in Backend :
    (opaque = {} /\ healthy[b]) ~> (b \in healthyTable \/ ~healthy[b])

\* docs/multi-backend-setup.md:25: "Health checks run every
\* `BACKEND_HEALTH_CHECK_INTERVAL` and recover backends automatically": as long
\* as requests come, a round that is due does start.
ChecksKeepRunning ==
  []<>(\E r \in Request : phase[r] = "awaiting") => (checkDue ~> ~checkDue)

\* Every request is answered, whatever the backends do.
RequestAnswered ==
  \A r \in Request : (phase[r] = "awaiting") ~> (phase[r] = "idle")
=============================================================================
