------------------------------ MODULE Handlers ------------------------------
(***************************************************************************)
(* The transport handlers (src/src/transports/) under the failover loop,   *)
(* down to the fetches of fetchWithTimeout (src/src/utils/fetch.ts) with   *)
(* their abort timers, and to the sockets a handler creates.  The three    *)
(* handlers have one shape; where they differ the transport decides.       *)
(*                                                                         *)
(* A call of a handler is one turn of the failover loop.  index.ts always  *)
(* names the backend (backendOverride), so the handlers' own loop is run   *)
(* through once, and a URL object can be parsed again: no answer 500.  A   *)
(* pass-through repeats its fetch in fetchWithTimeout, MAX_RETRIES times.  *)
(*                                                                         *)
(* The backends and the runtime are external: any fetch may be answered,   *)
(* be refused or hang, a new socket may refuse to be used.  A pass-through *)
(* is not answered with 101, which the runtime gives to WebSocket          *)
(* handshakes only.  A slot of Request is used once; a request that the    *)
(* handler refuses comes and goes in one step and needs no slot.           *)
(***************************************************************************)
EXTENDS Integers, FiniteSets

CONSTANTS Request,
          Shape,         \* the kinds of requests that arrive, see ShapeType
          NoShape,       \* of a slot still free
          MaxAttempts,   \* resolveMaxRetryAttempts(env)
          MaxRetries,    \* MAX_RETRIES, the default of fetchWithTimeout
          MaxEarlyData   \* MAX_EARLY_DATA_BYTES

ShapeType == [transport : {"ws", "httpupgrade", "xhttp"},
              upgrade   : {"none", "websocket", "other"},   \* with Connection: upgrade
              get       : BOOLEAN,                          \* the method is GET
              body      : BOOLEAN,
              mode      : {"auto", "packet-up", "other"},
              ed        : Int,                              \* -1 for what is no number
              token     : Nat]    \* bytes in a Sec-WebSocket-Protocol that is one
                                  \* base64url token, 0 if it is something else

ASSUME HandlersAssumption ==
  /\ IsFiniteSet(Request)
  /\ Shape \subseteq ShapeType
  /\ \A s \in Shape : s.body => ~s.get
  /\ NoShape \notin Shape
  /\ MaxAttempts \in Nat \ {0}
  /\ MaxRetries \in Nat
  /\ MaxEarlyData \in Nat

Call == 1..MaxAttempts
Try == 1..(MaxRetries + 1)

VARIABLES
  shape,      \* of the request
  phase,      \* "new", "fetching", "throwing" (the body is used up), "waiting" for
              \* the next fetch, "cancelling" a body, "backoff", "bridged", "done"
  calls,      \* of the handler
  tries,      \* fetches of this call
  aborted,    \* the AbortController of the last fetch fired
  timers,     \* abort timers that are set, as <<call, try>>
  bodySent,   \* fetches that took request.body along
  pairs,      \* calls whose WebSocketPair is open
  ends,       \* calls whose backend socket is open
  answer      \* "none", "backend", "101", "failure"

hvars == <<shape, phase, calls, tries, aborted, timers, bodySent, pairs, ends,
           answer>>

-----------------------------------------------------------------------------
(* What is asked *)

\* isUpgradeRequest of index.ts: the request passes the gates of admission.
Gated(s) == s.upgrade # "none"

\* hasUpgradeRequest, strict but for httpupgrade
Upgrades(s) ==
  \/ s.upgrade = "websocket"
  \/ s.upgrade = "other" /\ s.transport = "httpupgrade"

\* parseEarlyDataHint
Hint(s) == IF s.ed > MaxEarlyData THEN MaxEarlyData ELSE s.ed

\* parseEarlyDataFromWebSocketProtocolHeader: the token is taken for early
\* data, which must not be too long.
EarlyData(s) == s.transport = "xhttp" /\ Hint(s) > 0 /\ s.token > 0

\* Answered by the handler with 400, on the spot; if it has a pair already it
\* closes it.
Refused(s) ==
  /\ Upgrades(s)
  /\ \/ s.transport # "xhttp" /\ ~s.get
     \/ s.transport = "xhttp" /\ (s.ed < 0 \/ s.mode = "other")
     \/ EarlyData(s) /\ s.token > Hint(s)

\* Mutant: one fetch too many.
Retries_OneMore(s) == IF Upgrades(s) THEN 0 ELSE MaxRetries + 1

\* The last argument of fetchWithTimeout.
Retries(s) == IF Upgrades(s) THEN 0 ELSE MaxRetries

\* toPassthroughInit hands over the stream of the request itself.
Streams(s) == s.body /\ ~Upgrades(s)

\* The stream belongs to the first fetch that was given it.
UsedUp(r) == bodySent[r] > 0

UpdateAt(f, r, v) == [f EXCEPT ![r] = v]

-----------------------------------------------------------------------------
(* Fetches *)

Init ==
  /\ shape = [r \in Request |-> NoShape]
  /\ phase = [r \in Request |-> "new"]
  /\ calls = [r \in Request |-> 0]
  /\ tries = [r \in Request |-> 0]
  /\ aborted = [r \in Request |-> FALSE]
  /\ timers = [r \in Request |-> {}]
  /\ bodySent = [r \in Request |-> 0]
  /\ pairs = [r \in Request |-> {}]
  /\ ends = [r \in Request |-> {}]
  /\ answer = [r \in Request |-> "none"]

\* Mutant: the first fetch only has a timer.
SetTimer_Once(r, c, t) ==
  timers' = UpdateAt(timers, r, IF t = 1 THEN timers[r] \cup {<<c, t>>} ELSE timers[r])

SetTimer(r, c, t) == timers' = UpdateAt(timers, r, timers[r] \cup {<<c, t>>})

\* One turn of fetchWithTimeout up to its await: a new controller and timer.
Fetch(r, s, c, t) ==
  /\ calls' = UpdateAt(calls, r, c)
  /\ tries' = UpdateAt(tries, r, t)
  /\ aborted' = UpdateAt(aborted, r, FALSE)
  /\ SetTimer(r, c, t)
  /\ IF Streams(s) /\ UsedUp(r)
     THEN phase' = UpdateAt(phase, r, "throwing") /\ UNCHANGED bodySent
     ELSE /\ phase' = UpdateAt(phase, r, "fetching")
          /\ bodySent' = IF Streams(s)
                         THEN UpdateAt(bodySent, r, bodySent[r] + 1) ELSE bodySent

\* The handler is called and goes on to its first fetch; an upgrade has a
\* WebSocketPair by then.
CallHandler(r, s) ==
  /\ Fetch(r, s, calls[r] + 1, 1)
  /\ pairs' = IF Upgrades(s) THEN UpdateAt(pairs, r, pairs[r] \cup {calls[r] + 1}) ELSE pairs
  /\ UNCHANGED <<ends, answer>>

\* A request that the handler does not refuse.
Arrive(r, s) ==
  /\ phase[r] = "new"
  /\ ~Refused(s)
  /\ shape' = UpdateAt(shape, r, s)
  /\ CallHandler(r, s)

\* The backoff of the failover loop is over, the cancel before it (index.ts:537)
\* included, which is taken to succeed.
Retry(r) ==
  /\ phase[r] = "backoff"
  /\ CallHandler(r, shape[r])
  /\ UNCHANGED shape

\* waitForRetry between two fetches is over.
FetchAgain(r) ==
  /\ phase[r] = "waiting"
  /\ Fetch(r, shape[r], calls[r], tries[r] + 1)
  /\ UNCHANGED <<shape, pairs, ends, answer>>

\* A timer aborts the fetch it was set for, whatever has become of it.
TimerFires(r) ==
  \E t \in timers[r] :
    /\ timers' = UpdateAt(timers, r, timers[r] \ {t})
    /\ aborted' = UpdateAt(aborted, r, aborted[r] \/ t = <<calls[r], tries[r]>>)
    /\ UNCHANGED <<shape, phase, calls, tries, bodySent, pairs, ends, answer>>

\* Mutant: fetchWithTimeout has no finally.
ClearTimer_Not(r) == UNCHANGED timers

\* The finally of fetchWithTimeout.
ClearTimer(r) == timers' = UpdateAt(timers, r, timers[r] \ {<<calls[r], tries[r]>>})

-----------------------------------------------------------------------------
(* What comes of a fetch *)

\* The fetch under way reached a backend and was not aborted.
CanBeAnswered(r) == phase[r] = "fetching" /\ ~aborted[r]

\* The handler comes back with a marked response, its pair closed; the failover
\* loop cancels the body and goes on to the backoff, or passes the response on.
CallFails(r) ==
  /\ pairs' = UpdateAt(pairs, r, pairs[r] \ {calls[r]})
  /\ IF calls[r] < MaxAttempts
     THEN phase' = UpdateAt(phase, r, "backoff") /\ UNCHANGED answer
     ELSE /\ phase' = UpdateAt(phase, r, "done")
          /\ answer' = UpdateAt(answer, r, "failure")

\* The fetch rejects: it was aborted, its body is used up, or the network fails.
Throws(r) ==
  /\ phase[r] \in {"fetching", "throwing"}
  /\ ClearTimer(r)
  /\ IF tries[r] <= Retries(shape[r])
     THEN phase' = UpdateAt(phase, r, "waiting") /\ UNCHANGED <<pairs, answer>>
     ELSE CallFails(r)
  /\ UNCHANGED <<shape, calls, tries, aborted, bodySent, ends>>

\* A pass-through is answered, with whatever status.
PassThrough(r) ==
  /\ CanBeAnswered(r)
  /\ ~Upgrades(shape[r])
  /\ ClearTimer(r)
  /\ phase' = UpdateAt(phase, r, "done")
  /\ answer' = UpdateAt(answer, r, "backend")
  /\ UNCHANGED <<shape, calls, tries, aborted, bodySent, pairs, ends>>

\* A pass-through is answered with a response that carries the failure marker:
\* isBackendFailureResponse cannot tell it from one of the handler's own.
PassThroughMarked(r) ==
  /\ CanBeAnswered(r)
  /\ ~Upgrades(shape[r])
  /\ ClearTimer(r)
  /\ CallFails(r)
  /\ UNCHANGED <<shape, calls, tries, aborted, bodySent, ends>>

\* The backend answers 101: its socket is accepted and given the early data,
\* and bridgeSockets relays from here on.
Bridge(r) ==
  /\ CanBeAnswered(r)
  /\ Upgrades(shape[r])
  /\ ClearTimer(r)
  /\ phase' = UpdateAt(phase, r, "bridged")
  /\ answer' = UpdateAt(answer, r, "101")
  /\ ends' = UpdateAt(ends, r, ends[r] \cup {calls[r]})
  /\ UNCHANGED <<shape, calls, tries, aborted, bodySent, pairs>>

\* Mutant: the backend socket is not closed.
BridgeThrows_LeavesEnd(r) ==
  /\ CanBeAnswered(r)
  /\ Upgrades(shape[r])
  /\ ClearTimer(r)
  /\ CallFails(r)
  /\ ends' = UpdateAt(ends, r, ends[r] \cup {calls[r]})
  /\ UNCHANGED <<shape, calls, tries, aborted, bodySent>>

\* It answers 101, but its socket cannot be accepted or sent to: it is closed.
BridgeThrows(r) ==
  /\ CanBeAnswered(r)
  /\ Upgrades(shape[r])
  /\ ClearTimer(r)
  /\ CallFails(r)
  /\ UNCHANGED <<shape, calls, tries, aborted, bodySent, ends>>

\* It answers an upgrade with another status: the body is cancelled first.
Reject(r) ==
  /\ CanBeAnswered(r)
  /\ Upgrades(shape[r])
  /\ ClearTimer(r)
  /\ phase' = UpdateAt(phase, r, "cancelling")
  /\ UNCHANGED <<shape, calls, tries, aborted, bodySent, pairs, ends, answer>>

\* The body is cancelled, or that fails, which the handler takes alike.
CancelEnds(r) ==
  /\ phase[r] = "cancelling"
  /\ CallFails(r)
  /\ UNCHANGED <<shape, calls, tries, aborted, timers, bodySent, ends>>

\* closeBoth of the bridge, whatever set it off.
BridgeCloses(r) ==
  /\ phase[r] = "bridged"
  /\ phase' = UpdateAt(phase, r, "done")
  /\ pairs' = UpdateAt(pairs, r, pairs[r] \ {calls[r]})
  /\ ends' = UpdateAt(ends, r, ends[r] \ {calls[r]})
  /\ UNCHANGED <<shape, calls, tries, aborted, timers, bodySent, answer>>

\* What happens to a request after its arrival.
Continue(r) ==
  \/ Retry(r) \/ FetchAgain(r) \/ TimerFires(r)
  \/ Throws(r) \/ PassThrough(r) \/ PassThroughMarked(r)
  \/ Bridge(r) \/ BridgeThrows(r) \/ Reject(r) \/ CancelEnds(r) \/ BridgeCloses(r)

\* An aborted fetch and one without a body to send do reject.
MustThrow(r) == Throws(r) /\ (aborted[r] \/ phase[r] = "throwing")

-----------------------------------------------------------------------------
(* Properties *)

Live(r) == phase[r] \in {"fetching", "throwing", "waiting", "cancelling", "backoff"}

HandlersTypeOK ==
  /\ shape \in [Request -> Shape \cup {NoShape}]
  /\ phase \in [Request -> {"new", "fetching", "throwing", "waiting", "cancelling",
                            "backoff", "bridged", "done"}]
  /\ calls \in [Request -> 0..MaxAttempts]
  /\ tries \in [Request -> 0..(MaxRetries + 1)]
  /\ aborted \in [Request -> BOOLEAN]
  /\ timers \in [Request -> SUBSET (Call \X Try)]
  /\ bodySent \in [Request -> Nat]
  /\ pairs \in [Request -> SUBSET Call]
  /\ ends \in [Request -> SUBSET Call]
  /\ answer \in [Request -> {"none", "backend", "101", "failure"}]

\* The sockets that are open are those of the bridge or, before, the pair of
\* the call under way: a call that fails leaves none, wherever it fails.
SocketsAreClosed ==
  \A r \in Request :
    /\ pairs[r] = IF phase[r] \in {"fetching", "cancelling", "bridged"} /\ Upgrades(shape[r])
                  THEN {calls[r]} ELSE {}
    /\ ends[r] = IF phase[r] = "bridged" THEN {calls[r]} ELSE {}

\* No timer reaches the response or the bridge of a fetch that was answered,
\* although the signal of its controller stays attached to them.
AnswerNeverAborted ==
  \A r \in Request : answer[r] \in {"backend", "101"} => ~aborted[r]
=============================================================================
