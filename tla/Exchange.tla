------------------------------ MODULE Exchange ------------------------------
(***************************************************************************)
(* What one request and the transport handlers promise each other, seen    *)
(* from handleWithBackendFailover (src/src/index.ts): the handler that is  *)
(* awaited comes back by itself, with the answer of a backend or with a    *)
(* failure; a failure is followed by another call until MaxAttempts calls  *)
(* were made; and a request with a body can only succeed at its first      *)
(* call, the body being used up by then.                                   *)
(***************************************************************************)
EXTENDS Naturals

CONSTANTS MaxAttempts

VARIABLES
  phase,   \* "idle", "awaiting" the handler, "backoff"
  kind,    \* "plain", "stream" (with a body to pass on); "none" if idle
  made,    \* calls of the handler
  result   \* "failure" if the last request got one, else "none"

vars == <<phase, kind, made, result>>

Init == phase = "idle" /\ kind = "none" /\ made = 0 /\ result = "none"

Arrive ==
  /\ phase = "idle"
  /\ phase' = "awaiting"
  /\ kind' \in {"plain", "stream"}
  /\ made' = 1
  /\ result' = "none"

Retry ==
  /\ phase = "backoff"
  /\ phase' = "awaiting"
  /\ made' = made + 1
  /\ UNCHANGED <<kind, result>>

Reply(answer) ==
  /\ phase' = "idle"
  /\ kind' = "none"
  /\ made' = 0
  /\ result' = answer

Succeed ==
  /\ phase = "awaiting"
  /\ kind = "plain" \/ made = 1
  /\ Reply("none")

Fail ==
  /\ phase = "awaiting"
  /\ IF made < MaxAttempts
     THEN phase' = "backoff" /\ UNCHANGED <<kind, made, result>>
     ELSE Reply("failure")

Next == Arrive \/ Retry \/ Succeed \/ Fail

SafetySpec == Init /\ [][Next]_vars

\* The handler comes back, and so does the failover loop from its backoff.
Liveness == WF_vars(Retry) /\ WF_vars(Succeed \/ Fail)

Spec == SafetySpec /\ Liveness
=============================================================================
