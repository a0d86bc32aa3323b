---------------------------- MODULE WorkerProofs ----------------------------
(***************************************************************************)
(* Theorems about Worker and its handlers, for any number of requests and  *)
(* environments, attempts and retries, any shapes of requests, any limits  *)
(* and any bound of the caches.                                            *)
(*                                                                         *)
(* Handlers have their own invariant, HInv: an action changes one request; *)
(* what it does to that request is one lemma per action, and MovesKeep     *)
(* puts them together.  The worker adds that limiters and UUID managers    *)
(* hold exactly the requests that have not given back.                     *)
(***************************************************************************)
EXTENDS Worker, FiniteSetTheorems, TLAPS

-----------------------------------------------------------------------------
(* The handlers *)

Phase == {"new", "fetching", "throwing", "waiting", "cancelling", "backoff", "bridged", "done"}

\* A free slot; otherwise where the loops stand in each phase.  A retry is
\* left only where fetchWithTimeout retries, which for an upgrade is nowhere.
LoopInv(r) ==
  /\ phase[r] = "new" <=> shape[r] = NoShape
  /\ phase[r] = "new" => calls[r] = 0 /\ bodySent[r] = 0
  /\ phase[r] # "new" => calls[r] >= 1 /\ tries[r] >= 1 /\ tries[r] <= Retries(shape[r]) + 1
  /\ phase[r] = "waiting" => tries[r] <= Retries(shape[r])
  /\ phase[r] = "backoff" => calls[r] < MaxAttempts
  /\ phase[r] \in {"cancelling", "bridged"} => Upgrades(shape[r])

\* The timer that is set is the one of the fetch under way, and there is an
\* answer only when there is no fetch any more.
TimerInv(r) ==
  /\ timers[r] \subseteq IF phase[r] \in {"fetching", "throwing"}
                         THEN {<<calls[r], tries[r]>>} ELSE {}
  /\ phase[r] \notin {"bridged", "done"} => answer[r] = "none"
  /\ answer[r] \in {"backend", "101"} => ~aborted[r]

\* A stream goes out with the first fetch of the first call, and any other
\* fetch is without it.
BodyInv(r) ==
  /\ bodySent[r] <= 1
  /\ phase[r] = "throwing" => Streams(shape[r])
  /\ phase[r] # "new" /\ Streams(shape[r]) => bodySent[r] = 1
  /\ phase[r] = "fetching" /\ Streams(shape[r]) => calls[r] = 1

SocketInv(r) ==
  /\ pairs[r] = IF phase[r] \in {"fetching", "cancelling", "bridged"} /\ Upgrades(shape[r])
                THEN {calls[r]} ELSE {}
  /\ ends[r] = IF phase[r] = "bridged" THEN {calls[r]} ELSE {}

RequestInv(r) == LoopInv(r) /\ TimerInv(r) /\ BodyInv(r) /\ SocketInv(r)

HInv == HandlersTypeOK /\ \A r \in Request : RequestInv(r)

\* The request q is left alone.
Unmoved(q) ==
  /\ shape'[q] = shape[q] /\ phase'[q] = phase[q] /\ calls'[q] = calls[q]
  /\ tries'[q] = tries[q] /\ aborted'[q] = aborted[q] /\ timers'[q] = timers[q]
  /\ bodySent'[q] = bodySent[q] /\ pairs'[q] = pairs[q] /\ ends'[q] = ends[q]
  /\ answer'[q] = answer[q]

\* What an action for the request r has to do.
Moves(r) ==
  /\ HandlersTypeOK'
  /\ RequestInv(r)'
  /\ \A q \in Request \ {r} : Unmoved(q)

-----------------------------------------------------------------------------

\* A request that is left alone keeps its invariant.
LEMMA Kept == ASSUME NEW q, RequestInv(q), Unmoved(q) PROVE RequestInv(q)'
<1>1. LoopInv(q)'
  BY DEF RequestInv, LoopInv, Unmoved
<1>2. TimerInv(q)'
  BY DEF RequestInv, TimerInv, Unmoved
<1>3. BodyInv(q)'
  BY DEF RequestInv, BodyInv, Unmoved
<1>4. SocketInv(q)'
  BY DEF RequestInv, SocketInv, Unmoved
<1> QED BY <1>1, <1>2, <1>3, <1>4 DEF RequestInv

\* The numbers of HandlersAssumption, and what a shape is.
LEMMA Bounds ==
  /\ MaxAttempts \in Nat /\ MaxAttempts >= 1 /\ MaxRetries \in Nat
  /\ \A s \in Shape : /\ s # NoShape /\ s.token \in Nat
                      /\ Retries(s) \in 0..MaxRetries
                      /\ Upgrades(s) => Retries(s) = 0 /\ ~Streams(s)
<1>1. ASSUME NEW s \in Shape
      PROVE  s # NoShape /\ s.token \in Nat
  BY HandlersAssumption DEF ShapeType
<1>2. ASSUME NEW s \in Shape
      PROVE  Retries(s) \in 0..MaxRetries /\ (Upgrades(s) => Retries(s) = 0 /\ ~Streams(s))
  BY HandlersAssumption DEF Retries, Streams
<1> QED BY <1>1, <1>2, HandlersAssumption

\* The first call.
LEMMA ArriveMoves ==
  ASSUME NEW r \in Request, NEW s \in Shape, HInv, Arrive(r, s)
  PROVE  Moves(r)
<1>1. HandlersTypeOK'
  BY Bounds DEF HInv, RequestInv, LoopInv, HandlersTypeOK, UpdateAt, Arrive, CallHandler, Fetch,
    SetTimer, UsedUp, Call, Try
<1>2. LoopInv(r)'
  BY Bounds DEF HInv, RequestInv, LoopInv, HandlersTypeOK, UpdateAt, Arrive, CallHandler, Fetch,
    SetTimer, UsedUp
<1>3. TimerInv(r)'
  BY Bounds DEF HInv, RequestInv, TimerInv, HandlersTypeOK, UpdateAt, Arrive, CallHandler,
    Fetch, SetTimer, UsedUp, LoopInv
<1>4. BodyInv(r)'
  BY Bounds DEF HInv, RequestInv, BodyInv, HandlersTypeOK, UpdateAt, Arrive, CallHandler, Fetch,
    SetTimer, UsedUp, LoopInv
<1>5. SocketInv(r)'
  BY Bounds DEF HInv, RequestInv, SocketInv, HandlersTypeOK, UpdateAt, Arrive, CallHandler,
    Fetch, SetTimer, UsedUp, LoopInv
<1>6. \A q \in Request \ {r} : Unmoved(q)
  BY DEF Unmoved, HInv, HandlersTypeOK, UpdateAt, Arrive, CallHandler, Fetch, SetTimer, UsedUp
<1> QED BY <1>1, <1>2, <1>3, <1>4, <1>5, <1>6 DEF Moves, RequestInv

\* Another call.
LEMMA RetryMoves ==
  ASSUME NEW r \in Request, HInv, Retry(r)
  PROVE  Moves(r)
<1>1. HandlersTypeOK'
  BY Bounds DEF HInv, RequestInv, LoopInv, HandlersTypeOK, UpdateAt, Retry, CallHandler, Fetch,
    SetTimer, UsedUp, Call, Try
<1>2. LoopInv(r)'
  BY Bounds DEF HInv, RequestInv, LoopInv, HandlersTypeOK, UpdateAt, Retry, CallHandler, Fetch,
    SetTimer, UsedUp
<1>3. TimerInv(r)'
  BY Bounds DEF HInv, RequestInv, TimerInv, HandlersTypeOK, UpdateAt, Retry, CallHandler, Fetch,
    SetTimer, UsedUp
<1>4. BodyInv(r)'
  BY Bounds DEF HInv, RequestInv, BodyInv, HandlersTypeOK, UpdateAt, Retry, CallHandler, Fetch,
    SetTimer, UsedUp, LoopInv
<1>5. SocketInv(r)'
  <2>1. pairs[r] = {} /\ ends[r] = {}
    BY DEF HInv, RequestInv, SocketInv, Retry
  <2>2. shape[r] \in Shape
    BY DEF HInv, RequestInv, LoopInv, HandlersTypeOK, Retry
  <2>3. /\ phase'[r] \in {"fetching", "throwing"}
        /\ phase'[r] = "throwing" => Streams(shape[r])
        /\ calls'[r] = calls[r] + 1 /\ shape'[r] = shape[r]
    BY DEF HInv, HandlersTypeOK, UpdateAt, Retry, CallHandler, Fetch
  <2>4. pairs'[r] = IF Upgrades(shape[r]) THEN {calls[r] + 1} ELSE {}
    BY <2>1 DEF HInv, HandlersTypeOK, UpdateAt, Retry, CallHandler
  <2>5. ends'[r] = {}
    BY <2>1 DEF Retry, CallHandler
  <2> QED BY <2>2, <2>3, <2>4, <2>5, Bounds DEF SocketInv
<1>6. \A q \in Request \ {r} : Unmoved(q)
  BY DEF Unmoved, HInv, HandlersTypeOK, UpdateAt, Retry, CallHandler, Fetch, SetTimer, UsedUp
<1> QED BY <1>1, <1>2, <1>3, <1>4, <1>5, <1>6 DEF Moves, RequestInv

\* Another fetch of a call.
LEMMA FetchAgainMoves ==
  ASSUME NEW r \in Request, HInv, FetchAgain(r)
  PROVE  Moves(r)
<1>1. HandlersTypeOK'
  BY Bounds DEF HInv, RequestInv, LoopInv, HandlersTypeOK, UpdateAt, FetchAgain, Fetch,
    SetTimer, UsedUp, Call, Try
<1>2. LoopInv(r)'
  BY Bounds DEF HInv, RequestInv, LoopInv, HandlersTypeOK, UpdateAt, FetchAgain, Fetch,
    SetTimer, UsedUp
<1>3. TimerInv(r)'
  BY Bounds DEF HInv, RequestInv, TimerInv, HandlersTypeOK, UpdateAt, FetchAgain, Fetch,
    SetTimer, UsedUp
<1>4. BodyInv(r)'
  BY Bounds DEF HInv, RequestInv, BodyInv, HandlersTypeOK, UpdateAt, FetchAgain, Fetch,
    SetTimer, UsedUp, LoopInv
<1>5. SocketInv(r)'
  BY Bounds DEF HInv, RequestInv, SocketInv, HandlersTypeOK, UpdateAt, FetchAgain, Fetch,
    SetTimer, UsedUp, LoopInv
<1>6. \A q \in Request \ {r} : Unmoved(q)
  BY DEF Unmoved, HInv, HandlersTypeOK, UpdateAt, FetchAgain, Fetch, SetTimer, UsedUp
<1> QED BY <1>1, <1>2, <1>3, <1>4, <1>5, <1>6 DEF Moves, RequestInv

\* A timer fires: there is no answer yet.
LEMMA TimerFiresMoves ==
  ASSUME NEW r \in Request, HInv, TimerFires(r)
  PROVE  Moves(r)
<1>1. HandlersTypeOK'
  BY Bounds DEF HInv, RequestInv, LoopInv, HandlersTypeOK, UpdateAt, TimerFires
<1>2. LoopInv(r)'
  BY Bounds DEF HInv, RequestInv, LoopInv, HandlersTypeOK, UpdateAt, TimerFires
<1>3. TimerInv(r)'
  BY Bounds DEF HInv, RequestInv, TimerInv, HandlersTypeOK, UpdateAt, TimerFires
<1>4. BodyInv(r)'
  BY Bounds DEF HInv, RequestInv, BodyInv, HandlersTypeOK, UpdateAt, TimerFires
<1>5. SocketInv(r)'
  BY Bounds DEF HInv, RequestInv, SocketInv, HandlersTypeOK, UpdateAt, TimerFires
<1>6. \A q \in Request \ {r} : Unmoved(q)
  BY DEF Unmoved, HInv, HandlersTypeOK, UpdateAt, TimerFires
<1> QED BY <1>1, <1>2, <1>3, <1>4, <1>5, <1>6 DEF Moves, RequestInv

\* A fetch rejects.
LEMMA ThrowsMoves ==
  ASSUME NEW r \in Request, HInv, Throws(r)
  PROVE  Moves(r)
<1>1. HandlersTypeOK'
  BY Bounds DEF HInv, RequestInv, LoopInv, HandlersTypeOK, UpdateAt, Throws, ClearTimer,
    CallFails
<1>2. LoopInv(r)'
  BY Bounds DEF HInv, RequestInv, LoopInv, HandlersTypeOK, UpdateAt, Throws, ClearTimer,
    CallFails
<1>3. TimerInv(r)'
  BY Bounds DEF HInv, RequestInv, TimerInv, HandlersTypeOK, UpdateAt, Throws, ClearTimer,
    CallFails, LoopInv
<1>4. BodyInv(r)'
  BY Bounds DEF HInv, RequestInv, BodyInv, HandlersTypeOK, UpdateAt, Throws, ClearTimer,
    CallFails, LoopInv
<1>5. SocketInv(r)'
  <2>1. shape[r] \in Shape /\ tries[r] >= 1 /\ tries[r] \in Nat
    BY DEF HInv, RequestInv, LoopInv, HandlersTypeOK, Throws
  <2>2. ends'[r] = {} /\ shape'[r] = shape[r] /\ calls'[r] = calls[r]
    BY DEF HInv, RequestInv, SocketInv, Throws
  <2>3. phase'[r] \in {"waiting", "backoff", "done"}
    BY DEF HInv, HandlersTypeOK, UpdateAt, Throws, CallFails
  <2>4. pairs'[r] = {}
    <3>1. CASE Upgrades(shape[r])
      BY <2>1, <3>1, Bounds DEF HInv, RequestInv, SocketInv, HandlersTypeOK, UpdateAt, Throws,
                                CallFails
    <3>2. CASE ~Upgrades(shape[r])
      BY <3>2 DEF HInv, RequestInv, SocketInv, HandlersTypeOK, UpdateAt, Throws, CallFails
    <3> QED BY <3>1, <3>2
  <2> QED BY <2>2, <2>3, <2>4 DEF SocketInv
<1>6. \A q \in Request \ {r} : Unmoved(q)
  BY DEF Unmoved, HInv, HandlersTypeOK, UpdateAt, Throws, ClearTimer, CallFails
<1> QED BY <1>1, <1>2, <1>3, <1>4, <1>5, <1>6 DEF Moves, RequestInv

\* A pass-through is answered: there is no pair to close.
LEMMA PassThroughMoves ==
  ASSUME NEW r \in Request, HInv, PassThrough(r)
  PROVE  Moves(r)
<1>1. HandlersTypeOK'
  BY Bounds DEF HInv, RequestInv, LoopInv, HandlersTypeOK, UpdateAt, PassThrough, CanBeAnswered,
    ClearTimer
<1>2. LoopInv(r)'
  BY Bounds DEF HInv, RequestInv, LoopInv, HandlersTypeOK, UpdateAt, PassThrough, CanBeAnswered,
    ClearTimer
<1>3. TimerInv(r)'
  BY Bounds DEF HInv, RequestInv, TimerInv, HandlersTypeOK, UpdateAt, PassThrough,
    CanBeAnswered, ClearTimer, LoopInv
<1>4. BodyInv(r)'
  BY Bounds DEF HInv, RequestInv, BodyInv, HandlersTypeOK, UpdateAt, PassThrough, CanBeAnswered,
    ClearTimer, LoopInv
<1>5. SocketInv(r)'
  BY Bounds DEF HInv, RequestInv, SocketInv, HandlersTypeOK, UpdateAt, PassThrough,
    CanBeAnswered, ClearTimer, LoopInv
<1>6. \A q \in Request \ {r} : Unmoved(q)
  BY DEF Unmoved, HInv, HandlersTypeOK, UpdateAt, PassThrough, CanBeAnswered, ClearTimer
<1> QED BY <1>1, <1>2, <1>3, <1>4, <1>5, <1>6 DEF Moves, RequestInv

\* A pass-through whose answer is marked: a failure.
LEMMA PassThroughMarkedMoves ==
  ASSUME NEW r \in Request, HInv, PassThroughMarked(r)
  PROVE  Moves(r)
<1>1. HandlersTypeOK'
  BY Bounds DEF HInv, RequestInv, LoopInv, HandlersTypeOK, UpdateAt, PassThroughMarked,
    CanBeAnswered, ClearTimer, CallFails
<1>2. LoopInv(r)'
  BY Bounds DEF HInv, RequestInv, LoopInv, HandlersTypeOK, UpdateAt, PassThroughMarked,
    CanBeAnswered, ClearTimer, CallFails
<1>3. TimerInv(r)'
  BY Bounds DEF HInv, RequestInv, TimerInv, HandlersTypeOK, UpdateAt, PassThroughMarked,
    CanBeAnswered, ClearTimer, CallFails, LoopInv
<1>4. BodyInv(r)'
  BY Bounds DEF HInv, RequestInv, BodyInv, HandlersTypeOK, UpdateAt, PassThroughMarked,
    CanBeAnswered, ClearTimer, CallFails, LoopInv
<1>5. SocketInv(r)'
  BY Bounds DEF HInv, RequestInv, SocketInv, HandlersTypeOK, UpdateAt, PassThroughMarked,
    CanBeAnswered, ClearTimer, CallFails, LoopInv
<1>6. \A q \in Request \ {r} : Unmoved(q)
  BY DEF Unmoved, HInv, HandlersTypeOK, UpdateAt, PassThroughMarked, CanBeAnswered, ClearTimer,
    CallFails
<1> QED BY <1>1, <1>2, <1>3, <1>4, <1>5, <1>6 DEF Moves, RequestInv

\* A bridge opens the backend's end.
LEMMA BridgeMoves ==
  ASSUME NEW r \in Request, HInv, Bridge(r)
  PROVE  Moves(r)
<1>1. HandlersTypeOK'
  <2>1. calls[r] \in Call
    BY Bounds DEF HInv, RequestInv, LoopInv, HandlersTypeOK, Bridge, CanBeAnswered, Call
  <2> QED
    BY <2>1 DEF HInv, HandlersTypeOK, UpdateAt, Bridge, ClearTimer
<1>2. LoopInv(r)'
  BY Bounds DEF HInv, RequestInv, LoopInv, HandlersTypeOK, UpdateAt, Bridge, CanBeAnswered,
    ClearTimer
<1>3. TimerInv(r)'
  BY Bounds DEF HInv, RequestInv, TimerInv, HandlersTypeOK, UpdateAt, Bridge, CanBeAnswered,
    ClearTimer, LoopInv
<1>4. BodyInv(r)'
  BY Bounds DEF HInv, RequestInv, BodyInv, HandlersTypeOK, UpdateAt, Bridge, CanBeAnswered,
    ClearTimer, LoopInv
<1>5. SocketInv(r)'
  BY Bounds DEF HInv, RequestInv, SocketInv, HandlersTypeOK, UpdateAt, Bridge, CanBeAnswered,
    ClearTimer, LoopInv
<1>6. \A q \in Request \ {r} : Unmoved(q)
  BY DEF Unmoved, HInv, HandlersTypeOK, UpdateAt, Bridge, CanBeAnswered, ClearTimer
<1> QED BY <1>1, <1>2, <1>3, <1>4, <1>5, <1>6 DEF Moves, RequestInv

\* A bridge that cannot be set up.
LEMMA BridgeThrowsMoves ==
  ASSUME NEW r \in Request, HInv, BridgeThrows(r)
  PROVE  Moves(r)
<1>1. HandlersTypeOK'
  BY Bounds DEF HInv, RequestInv, LoopInv, HandlersTypeOK, UpdateAt, BridgeThrows,
    CanBeAnswered, ClearTimer, CallFails
<1>2. LoopInv(r)'
  BY Bounds DEF HInv, RequestInv, LoopInv, HandlersTypeOK, UpdateAt, BridgeThrows,
    CanBeAnswered, ClearTimer, CallFails
<1>3. TimerInv(r)'
  BY Bounds DEF HInv, RequestInv, TimerInv, HandlersTypeOK, UpdateAt, BridgeThrows,
    CanBeAnswered, ClearTimer, CallFails, LoopInv
<1>4. BodyInv(r)'
  BY Bounds DEF HInv, RequestInv, BodyInv, HandlersTypeOK, UpdateAt, BridgeThrows,
    CanBeAnswered, ClearTimer, CallFails, LoopInv
<1>5. SocketInv(r)'
  BY Bounds DEF HInv, RequestInv, SocketInv, HandlersTypeOK, UpdateAt, BridgeThrows,
    CanBeAnswered, ClearTimer, CallFails, LoopInv
<1>6. \A q \in Request \ {r} : Unmoved(q)
  BY DEF Unmoved, HInv, HandlersTypeOK, UpdateAt, BridgeThrows, CanBeAnswered, ClearTimer,
    CallFails
<1> QED BY <1>1, <1>2, <1>3, <1>4, <1>5, <1>6 DEF Moves, RequestInv

\* An upgrade that is rejected: its timer is cleared before the body is cancelled.
LEMMA RejectMoves ==
  ASSUME NEW r \in Request, HInv, Reject(r)
  PROVE  Moves(r)
<1>1. HandlersTypeOK'
  BY Bounds DEF HInv, RequestInv, LoopInv, HandlersTypeOK, UpdateAt, Reject, CanBeAnswered,
    ClearTimer
<1>2. LoopInv(r)'
  BY Bounds DEF HInv, RequestInv, LoopInv, HandlersTypeOK, UpdateAt, Reject, CanBeAnswered,
    ClearTimer
<1>3. TimerInv(r)'
  BY Bounds DEF HInv, RequestInv, TimerInv, HandlersTypeOK, UpdateAt, Reject, CanBeAnswered,
    ClearTimer, LoopInv
<1>4. BodyInv(r)'
  BY Bounds DEF HInv, RequestInv, BodyInv, HandlersTypeOK, UpdateAt, Reject, CanBeAnswered,
    ClearTimer, LoopInv
<1>5. SocketInv(r)'
  BY Bounds DEF HInv, RequestInv, SocketInv, HandlersTypeOK, UpdateAt, Reject, CanBeAnswered,
    ClearTimer, LoopInv
<1>6. \A q \in Request \ {r} : Unmoved(q)
  BY DEF Unmoved, HInv, HandlersTypeOK, UpdateAt, Reject, CanBeAnswered, ClearTimer
<1> QED BY <1>1, <1>2, <1>3, <1>4, <1>5, <1>6 DEF Moves, RequestInv

\* The call that was rejected ends.
LEMMA CancelEndsMoves ==
  ASSUME NEW r \in Request, HInv, CancelEnds(r)
  PROVE  Moves(r)
<1>1. HandlersTypeOK'
  BY Bounds DEF HInv, RequestInv, LoopInv, HandlersTypeOK, UpdateAt, CancelEnds, CallFails
<1>2. LoopInv(r)'
  BY Bounds DEF HInv, RequestInv, LoopInv, HandlersTypeOK, UpdateAt, CancelEnds, CallFails
<1>3. TimerInv(r)'
  BY Bounds DEF HInv, RequestInv, TimerInv, HandlersTypeOK, UpdateAt, CancelEnds, CallFails,
    LoopInv
<1>4. BodyInv(r)'
  BY Bounds DEF HInv, RequestInv, BodyInv, HandlersTypeOK, UpdateAt, CancelEnds, CallFails,
    LoopInv
<1>5. SocketInv(r)'
  BY Bounds DEF HInv, RequestInv, SocketInv, HandlersTypeOK, UpdateAt, CancelEnds, CallFails,
    LoopInv
<1>6. \A q \in Request \ {r} : Unmoved(q)
  BY DEF Unmoved, HInv, HandlersTypeOK, UpdateAt, CancelEnds, CallFails
<1> QED BY <1>1, <1>2, <1>3, <1>4, <1>5, <1>6 DEF Moves, RequestInv

\* A bridge closes both its ends.
LEMMA BridgeClosesMoves ==
  ASSUME NEW r \in Request, HInv, BridgeCloses(r)
  PROVE  Moves(r)
<1>1. HandlersTypeOK'
  BY Bounds DEF HInv, RequestInv, LoopInv, HandlersTypeOK, UpdateAt, BridgeCloses, LoopInv
<1>2. LoopInv(r)'
  BY Bounds DEF HInv, RequestInv, LoopInv, HandlersTypeOK, UpdateAt, BridgeCloses, LoopInv
<1>3. TimerInv(r)'
  BY Bounds DEF HInv, RequestInv, TimerInv, HandlersTypeOK, UpdateAt, BridgeCloses, LoopInv
<1>4. BodyInv(r)'
  BY Bounds DEF HInv, RequestInv, BodyInv, HandlersTypeOK, UpdateAt, BridgeCloses, LoopInv
<1>5. SocketInv(r)'
  BY Bounds DEF HInv, RequestInv, SocketInv, HandlersTypeOK, UpdateAt, BridgeCloses, LoopInv
<1>6. \A q \in Request \ {r} : Unmoved(q)
  BY DEF Unmoved, HInv, HandlersTypeOK, UpdateAt, BridgeCloses, LoopInv
<1> QED BY <1>1, <1>2, <1>3, <1>4, <1>5, <1>6 DEF Moves, RequestInv

-----------------------------------------------------------------------------
(* The invariant *)

LEMMA HandlersInit == Init => HInv
<1> SUFFICES ASSUME Init PROVE HInv
  OBVIOUS
<1>1. HandlersTypeOK
  BY Bounds DEF Init, HandlersTypeOK
<1>2. ASSUME NEW r \in Request PROVE RequestInv(r)
  BY DEF Init, RequestInv, LoopInv, TimerInv, BodyInv, SocketInv
<1> QED BY <1>1, <1>2 DEF HInv

LEMMA MovesKeep == ASSUME NEW r \in Request, HInv, Moves(r) PROVE HInv'
<1>1. ASSUME NEW q \in Request PROVE RequestInv(q)'
  <2>1. CASE q = r
    BY <2>1 DEF Moves
  <2>2. CASE q # r
    BY <2>2, Kept DEF HInv, Moves
  <2> QED BY <2>1, <2>2
<1> QED BY <1>1 DEF HInv, Moves

\* Every step of a request moves that request and keeps the invariant.
LEMMA ContinueMoves == ASSUME NEW r \in Request, HInv, Continue(r) PROVE Moves(r)
BY RetryMoves, FetchAgainMoves, TimerFiresMoves, ThrowsMoves, PassThroughMoves,
   PassThroughMarkedMoves, BridgeMoves, BridgeThrowsMoves, RejectMoves, CancelEndsMoves,
   BridgeClosesMoves DEF Continue

\* What is checked of the handlers follows.
LEMMA HandlersAreRight == HInv => SocketsAreClosed /\ AnswerNeverAborted
BY DEF HInv, RequestInv, SocketInv, BodyInv, TimerInv, SocketsAreClosed, AnswerNeverAborted

-----------------------------------------------------------------------------
(* The worker *)

Names == Name \cup {NoManager}

CachesInv ==
  /\ cached \in [Cache -> SUBSET Key]
  /\ created \in [Cache -> [Key -> Nat]]
  /\ \A k \in Cache : \A x \in cached[k] : created[k][x] > 0

\* Those that hold a slot.
Holding == {q \in Bridged \cup Dialling : Gated(shape[q])}

HoldersInv ==
  /\ limiter \in [Request -> Names]
  /\ uuids \in [Request -> Names]
  /\ active = {<<limiter[r], r>> : r \in Holding}
  /\ registered = {<<uuids[r], r>> : r \in Bridged}
  /\ \A m \in Names : Cardinality(Admitted(m)) <= MaxConnPerIp

WInv == HInv /\ CachesInv /\ HoldersInv

-----------------------------------------------------------------------------
(* Caches *)

LEMMA GetKeepsCaches ==
  ASSUME NEW e \in Env, CachesInv, Get(e)
  PROVE  CachesInv'
<1>1. \A k \in Cache : KeyOf[k][e] \in Key /\ Pruned(k) \subseteq cached[k]
  BY WorkerAssumption DEF Pruned
<1>2. cached' \in [Cache -> SUBSET Key] /\ created' \in [Cache -> [Key -> Nat]]
  BY <1>1 DEF Get, CachesInv
<1>3. ASSUME NEW k \in Cache, NEW f \in cached'[k] PROVE created'[k][f] > 0
  <2> DEFINE x == KeyOf[k][e]
  <2>1. CASE Missed(k, x)
    <3>1. f = x \/ f \in cached[k]
      BY <1>1, <1>3, <2>1 DEF Get
    <3>2. created'[k] = [created[k] EXCEPT ![x] = @ + 1]
      BY <2>1 DEF Get
    <3>3. x \in Key
      BY <1>1
    <3> HIDE DEF x
    <3> QED BY <3>1, <3>2, <3>3 DEF CachesInv
  <2>2. CASE ~Missed(k, x)
    BY <1>3, <2>2 DEF Get, CachesInv
  <2> QED BY <2>1, <2>2
<1> QED BY <1>2, <1>3 DEF CachesInv

\* The manager that is found or made has a name.
LEMMA ManagerHasName ==
  ASSUME NEW e \in Env, NEW k \in Cache, CachesInv
  PROVE  Manager(k, e) \in Name
<1> DEFINE x == KeyOf[k][e]
<1>1. x \in Key
  BY WorkerAssumption
<1>2. created[k][x] \in Nat /\ (~Missed(k, x) => created[k][x] > 0)
  BY <1>1 DEF CachesInv, Missed
<1>3. Manager(k, e) = <<x, IF Missed(k, x) THEN created[k][x] + 1 ELSE created[k][x]>>
  BY DEF Manager, Latest
<1> HIDE DEF x
<1> QED BY <1>1, <1>2, <1>3 DEF Name

-----------------------------------------------------------------------------
(* Holders *)

\* A limiter counts no more when fewer are active.
LEMMA FewerAdmitted ==
  ASSUME HoldersInv, active' \subseteq active
  PROVE  \A m \in Names : Cardinality(Admitted(m)') <= MaxConnPerIp
<1> SUFFICES ASSUME NEW m \in Names PROVE Cardinality(Admitted(m)') <= MaxConnPerIp
  OBVIOUS
<1>1. IsFiniteSet(Admitted(m)) /\ Admitted(m)' \subseteq Admitted(m)
  BY HandlersAssumption, FS_Subset DEF Admitted
<1>2. IsFiniteSet(Admitted(m)') /\ Cardinality(Admitted(m)') <= Cardinality(Admitted(m))
  BY <1>1, FS_Subset
<1>3. Cardinality(Admitted(m)) \in Nat /\ Cardinality(Admitted(m)') \in Nat
  BY <1>1, <1>2, FS_CardinalityType
<1>4. Cardinality(Admitted(m)) <= MaxConnPerIp /\ MaxConnPerIp \in Nat
  BY WorkerAssumption DEF HoldersInv
<1> QED BY <1>2, <1>3, <1>4

\* A request that goes on has arrived and is not over; its shape stays, and
\* from its bridge it can only come to its end.
LEMMA ContinuePhase ==
  ASSUME NEW r \in Request, HInv, Continue(r)
  PROVE  /\ phase[r] \notin {"new", "done"} /\ phase'[r] # "new"
         /\ shape' = shape
         /\ phase[r] = "bridged" => phase'[r] = "done"
<1>1. timers[r] # {} => phase[r] \in {"fetching", "throwing"}
  BY DEF HInv, RequestInv, TimerInv
<1>2. shape' = shape
  BY DEF Continue, Retry, FetchAgain, TimerFires, Throws, PassThrough,
         PassThroughMarked, Bridge, BridgeThrows, Reject, CancelEnds, BridgeCloses
<1>3. phase[r] \notin {"new", "done"}
  BY <1>1 DEF Continue, Retry, FetchAgain, TimerFires, Throws, PassThrough,
              PassThroughMarked, Bridge, BridgeThrows, Reject, CancelEnds, BridgeCloses,
              CanBeAnswered
<1>4. phase'[r] # "new"
  BY <1>2, <1>3, ContinueMoves DEF HInv, Moves, RequestInv, LoopInv
<1>5. phase[r] = "bridged" => phase'[r] = "done"
  BY <1>1 DEF Continue, Retry, FetchAgain, TimerFires, Throws, PassThrough,
              PassThroughMarked, Bridge, BridgeThrows, Reject, CancelEnds, BridgeCloses,
              CanBeAnswered, UpdateAt, HInv, HandlersTypeOK
<1> QED BY <1>2, <1>3, <1>4, <1>5

LEMMA ProceedKeepsHolders ==
  ASSUME NEW r \in Request, WInv, Proceed(r)
  PROVE  HoldersInv'
<1>1. Continue(r) /\ HInv /\ HoldersInv
  BY DEF Proceed, WInv
<1>2. \A q \in Request \ {r} : phase'[q] = phase[q] /\ shape'[q] = shape[q]
  BY <1>1, ContinueMoves DEF Moves, Unmoved
<1>3. limiter' = limiter /\ uuids' = uuids
  BY DEF Proceed
<1>4. \A q \in Request \ {r} : /\ q \in Holding' <=> q \in Holding
                               /\ q \in Bridged' <=> q \in Bridged
  BY <1>2 DEF Holding, Bridged, Dialling, Live
<1>5. phase \in [Request -> Phase] /\ phase'[r] \in Phase
  BY <1>1, ContinueMoves DEF HInv, HandlersTypeOK, Moves, Phase
<1>6. active' = {<<limiter[q], q>> : q \in Holding'}
  <2>1. CASE phase'[r] = "done"
    <3>1. Holding' = Holding \ {r}
      BY <1>4, <2>1 DEF Holding, Bridged, Dialling, Live
    <3>2. active' = active \ {<<limiter[r], r>>}
      BY <1>1, <2>1, ContinuePhase DEF Proceed, Released, HeldLimiter
    <3> QED BY <3>1, <3>2, <1>1 DEF HoldersInv
  <2>2. CASE phase'[r] # "done"
    <3>1. r \in Holding' <=> r \in Holding
      BY <1>1, <1>5, <2>2, ContinuePhase DEF Holding, Bridged, Dialling, Live, Phase
    <3>2. Holding' = Holding
      BY <1>4, <3>1 DEF Holding, Bridged, Dialling
    <3>3. active' = active
      BY <2>2 DEF Proceed
    <3> QED BY <3>2, <3>3, <1>1 DEF HoldersInv
  <2> QED BY <2>1, <2>2
<1>7. registered' = {<<uuids[q], q>> : q \in Bridged'}
  <2>1. CASE phase'[r] = "done"
    <3>1. Bridged' = Bridged \ {r}
      BY <1>4, <2>1 DEF Bridged
    <3>2. registered' = registered \ {<<uuids[r], r>>}
      BY <1>1, <2>1, ContinuePhase DEF Proceed, Released
    <3> QED BY <3>1, <3>2, <1>1 DEF HoldersInv
  <2>2. CASE phase'[r] = "bridged"
    <3>1. Bridged' = Bridged \cup {r}
      BY <1>4, <2>2 DEF Bridged
    <3>2. registered' = registered \cup {<<uuids[r], r>>}
      BY <2>2 DEF Proceed
    <3> QED BY <3>1, <3>2, <1>1 DEF HoldersInv
  <2>3. CASE phase'[r] \notin {"done", "bridged"}
    <3>1. Bridged' = Bridged
      BY <1>1, <1>4, <2>3, ContinuePhase DEF Bridged
    <3>2. registered' = registered
      BY <2>3 DEF Proceed
    <3> QED BY <3>1, <3>2, <1>1 DEF HoldersInv
  <2> QED BY <2>1, <2>2, <2>3
<1>8. active' \subseteq active
  BY DEF Proceed, Released
<1> QED BY <1>1, <1>3, <1>6, <1>7, <1>8, FewerAdmitted DEF HoldersInv

\* A request that arrives holds a slot exactly if it is an upgrade.
LEMMA ArriveHolds ==
  ASSUME NEW r \in Request, NEW s \in Shape, HInv, Arrive(r, s)
  PROVE  /\ phase[r] = "new" /\ phase'[r] \in {"fetching", "throwing"} /\ shape'[r] = s
         /\ r \notin Holding /\ r \notin Bridged /\ Bridged' = Bridged
         /\ Holding' = IF Gated(s) THEN Holding \cup {r} ELSE Holding
<1>1. phase[r] = "new"
  BY DEF Arrive
<1>2. phase'[r] \in {"fetching", "throwing"}
  BY DEF Arrive, CallHandler, Fetch, UpdateAt, HInv, HandlersTypeOK
<1>3. shape'[r] = s
  BY DEF Arrive, UpdateAt, HInv, HandlersTypeOK
<1>4. \A q \in Request \ {r} : phase'[q] = phase[q] /\ shape'[q] = shape[q]
  BY ArriveMoves DEF Moves, Unmoved
<1>5. r \notin Holding /\ r \notin Bridged
  BY <1>1 DEF Holding, Bridged, Dialling, Live
<1>6. Bridged' = Bridged
  BY <1>2, <1>4, <1>5 DEF Bridged
<1>7. \A q \in Request \ {r} : q \in Holding' <=> q \in Holding
  BY <1>4 DEF Holding, Bridged, Dialling, Live
<1>8. r \in Holding' <=> Gated(s)
  BY <1>2, <1>3 DEF Holding, Bridged, Dialling, Live
<1>9. Holding' \subseteq Request /\ Holding \subseteq Request
  BY DEF Holding, Bridged, Dialling
<1>10. Holding' = IF Gated(s) THEN Holding \cup {r} ELSE Holding
  BY <1>5, <1>7, <1>8, <1>9
<1> QED BY <1>1, <1>2, <1>3, <1>5, <1>6, <1>10

LEMMA UngatedKeepsHolders ==
  ASSUME NEW r \in Request, NEW s \in Shape, WInv, ArriveUngated(r, s)
  PROVE  HoldersInv'
<1>1. Holding' = Holding /\ Bridged' = Bridged
  BY ArriveHolds DEF ArriveUngated, WInv
<1>2. active' = active /\ registered' = registered /\ limiter' = limiter /\ uuids' = uuids
  BY DEF ArriveUngated, wvars
<1>3. active' \subseteq active
  BY <1>2
<1> QED BY <1>1, <1>2, <1>3, FewerAdmitted DEF WInv, HoldersInv

\* An upgrade takes the slot that its limiter had free.
LEMMA GatedKeepsHolders ==
  ASSUME NEW r \in Request, NEW s \in Shape, NEW e \in Env, WInv, ArriveGated(r, s, e)
  PROVE  HoldersInv'
<1> DEFINE m == Manager("limiters", e)
           u == Manager("uuids", e)
<1>1. m \in Names /\ u \in Names
  BY ManagerHasName DEF WInv, Names, Cache
<1>2. /\ Holding' = Holding \cup {r} /\ r \notin Holding
      /\ Bridged' = Bridged /\ r \notin Bridged
  BY ArriveHolds DEF ArriveGated, WInv
<1>3. /\ limiter' = [limiter EXCEPT ![r] = m] /\ uuids' = [uuids EXCEPT ![r] = u]
      /\ active' = active \cup {<<m, r>>} /\ registered' = registered
      /\ Cardinality(Admitted(m)) < MaxConnPerIp
  BY DEF ArriveGated, UpdateAt, Allowed
<1> HIDE DEF m, u
<1>4. /\ limiter \in [Request -> Names] /\ uuids \in [Request -> Names]
      /\ active = {<<limiter[q], q>> : q \in Holding}
      /\ registered = {<<uuids[q], q>> : q \in Bridged}
      /\ \A n \in Names : Cardinality(Admitted(n)) <= MaxConnPerIp
  BY DEF WInv, HoldersInv
<1>5. Holding \subseteq Request /\ Bridged \subseteq Request
  BY DEF Holding, Bridged, Dialling
<1>6. limiter' \in [Request -> Names] /\ uuids' \in [Request -> Names]
  BY <1>1, <1>3, <1>4
<1>7. active' = {<<limiter'[q], q>> : q \in Holding'}
  <2>1. \A q \in Holding : limiter'[q] = limiter[q]
    BY <1>2, <1>3, <1>4, <1>5
  <2>2. limiter'[r] = m
    BY <1>3, <1>4
  <2> QED BY <1>2, <1>3, <1>4, <2>1, <2>2
<1>8. registered' = {<<uuids'[q], q>> : q \in Bridged'}
  <2>1. \A q \in Bridged : uuids'[q] = uuids[q]
    BY <1>2, <1>3, <1>4, <1>5
  <2> QED BY <1>2, <1>3, <1>4, <2>1
<1>9. ASSUME NEW n \in Names PROVE Cardinality(Admitted(n)') <= MaxConnPerIp
  <2>1. IsFiniteSet(Admitted(n))
    BY HandlersAssumption, FS_Subset DEF Admitted
  <2>2. Cardinality(Admitted(n)) \in Nat /\ MaxConnPerIp \in Nat
    BY <2>1, FS_CardinalityType, WorkerAssumption
  <2>3. CASE n # m
    <3>1. Admitted(n)' = Admitted(n)
      BY <1>3, <2>3 DEF Admitted
    <3> QED BY <1>4, <3>1
  <2>4. CASE n = m
    <3>1. Admitted(n)' = Admitted(n) \cup {r}
      BY <1>3, <2>4 DEF Admitted
    <3>2. Cardinality(Admitted(n) \cup {r}) <= Cardinality(Admitted(n)) + 1
      <4>1. Cardinality(Admitted(n) \cup {r}) =
              IF r \in Admitted(n) THEN Cardinality(Admitted(n))
                                   ELSE Cardinality(Admitted(n)) + 1
        BY <2>1, FS_AddElement
      <4> QED BY <2>2, <4>1
    <3>3. IsFiniteSet(Admitted(n) \cup {r})
      BY <2>1, FS_AddElement
    <3>4. Cardinality(Admitted(n) \cup {r}) \in Nat
      BY <3>3, FS_CardinalityType
    <3>5. Cardinality(Admitted(n)) < MaxConnPerIp
      BY <1>3, <2>4
    <3>6. Cardinality(Admitted(n) \cup {r}) <= MaxConnPerIp
      BY <2>2, <3>2, <3>4, <3>5
    <3> QED BY <3>1, <3>6
  <2> QED BY <2>3, <2>4
<1> QED BY <1>6, <1>7, <1>8, <1>9 DEF HoldersInv

-----------------------------------------------------------------------------
(* The invariant *)

LEMMA HandlersStay == ASSUME HInv, UNCHANGED hvars PROVE HInv'
<1>1. HandlersTypeOK'
  BY DEF HInv, HandlersTypeOK, hvars
<1>2. ASSUME NEW q \in Request PROVE RequestInv(q)'
  <2>1. Unmoved(q)
    BY DEF Unmoved, hvars
  <2> QED BY <2>1, Kept DEF HInv
<1> QED BY <1>1, <1>2 DEF HInv

\* A request that is over at once is no holder.
LEMMA PassesKeeps == ASSUME NEW e \in Env, WInv, Passes(e) PROVE WInv'
<1>1. HInv' /\ CachesInv'
  BY HandlersStay, GetKeepsCaches DEF WInv, Passes
<1>2. /\ active' = active /\ registered' = registered /\ limiter' = limiter
      /\ uuids' = uuids /\ phase' = phase /\ shape' = shape
  BY DEF Passes, hvars
<1>3. HoldersInv'
  BY <1>2 DEF WInv, HoldersInv, Holding, Bridged, Dialling, Live, Admitted
<1> QED BY <1>1, <1>3 DEF WInv

LEMMA WorkerStep == WInv /\ [Next]_vars => WInv'
<1> SUFFICES ASSUME WInv, [Next]_vars PROVE WInv'
  OBVIOUS
<1>1. ASSUME NEW r \in Request, NEW s \in Shape, ArriveUngated(r, s) PROVE WInv'
  <2>1. HInv'
    BY <1>1, ArriveMoves, MovesKeep DEF ArriveUngated, WInv
  <2>2. CachesInv'
    BY <1>1 DEF ArriveUngated, wvars, WInv, CachesInv
  <2> QED BY <1>1, <2>1, <2>2, UngatedKeepsHolders DEF WInv
<1>2. ASSUME NEW r \in Request, NEW s \in Shape, NEW e \in Env, ArriveGated(r, s, e)
      PROVE  WInv'
  <2>1. HInv'
    BY <1>2, ArriveMoves, MovesKeep DEF ArriveGated, WInv
  <2>2. CachesInv'
    BY <1>2, GetKeepsCaches DEF ArriveGated, WInv
  <2> QED BY <1>2, <2>1, <2>2, GatedKeepsHolders DEF WInv
<1>3. ASSUME NEW r \in Request, Proceed(r) PROVE WInv'
  <2>1. HInv'
    BY <1>3, ContinueMoves, MovesKeep DEF Proceed, WInv
  <2>2. CachesInv'
    BY <1>3 DEF Proceed, WInv, CachesInv
  <2> QED BY <1>3, <2>1, <2>2, ProceedKeepsHolders DEF WInv
<1>4. ASSUME NEW e \in Env, Deny(e) \/ \E s \in Shape : Refuse(s, e) PROVE WInv'
  BY <1>4, PassesKeeps DEF Deny, Refuse
<1>5. CASE UNCHANGED vars
  <2>1. UNCHANGED hvars /\ UNCHANGED wvars
    BY <1>5 DEF vars
  <2>2. HInv'
    BY <2>1, HandlersStay DEF WInv
  <2>3. CachesInv' /\ HoldersInv'
    BY <2>1 DEF WInv, CachesInv, HoldersInv, Holding, Bridged, Dialling, Live, Admitted,
                hvars, wvars
  <2> QED BY <2>2, <2>3 DEF WInv
<1> QED BY <1>1, <1>2, <1>3, <1>4, <1>5 DEF Next

\* The invariant holds at first and is kept.
THEOREM WorkerInductive == Spec => []WInv
<1>1. WorkerInit => WInv
  <2> SUFFICES ASSUME WorkerInit PROVE WInv
    OBVIOUS
  <2>1. HInv
    BY HandlersInit DEF WorkerInit
  <2>2. CachesInv
    BY DEF WorkerInit, CachesInv
  <2>3. Holding = {} /\ Bridged = {}
    BY DEF WorkerInit, Init, Holding, Bridged, Dialling, Live
  <2>4. \A m \in Names : Admitted(m) = {}
    BY DEF WorkerInit, Admitted
  <2>5. Cardinality({}) = 0 /\ MaxConnPerIp \in Nat
    BY FS_EmptySet, WorkerAssumption
  <2>6. \A m \in Names : Cardinality(Admitted(m)) <= MaxConnPerIp
    BY <2>4, <2>5
  <2>7. HoldersInv
    BY <2>3, <2>6 DEF WorkerInit, HoldersInv, Names
  <2> QED BY <2>1, <2>2, <2>7 DEF WInv
<1> QED BY <1>1, WorkerStep, PTL DEF Spec, SafetySpec

-----------------------------------------------------------------------------
(* What follows *)

\* Types; an environment in a cache has a manager (index.ts:70-126).
THEOREM WorkerTypeCorrect == Spec => []TypeOK
<1>1. WInv => TypeOK
  <2> SUFFICES ASSUME WInv PROVE TypeOK
    OBVIOUS
  <2>1. Holding \subseteq Request /\ Bridged \subseteq Request
    BY DEF Holding, Bridged, Dialling
  <2>2. /\ active \subseteq {limiter[r] : r \in Request} \X Request
        /\ registered \subseteq {uuids[r] : r \in Request} \X Request
    BY <2>1 DEF WInv, HoldersInv
  <2> QED BY <2>2 DEF TypeOK, WInv, HInv, CachesInv, HoldersInv, Names
<1> QED BY <1>1, WorkerInductive, PTL

\* However a call of a handler ends, it leaves no socket open (ws.ts:138-210,
\* xhttp.ts and httpupgrade.ts alike).
THEOREM SocketsClosed == Spec => []SocketsAreClosed
<1>1. WInv => SocketsAreClosed
  BY HandlersAreRight DEF WInv
<1> QED BY <1>1, WorkerInductive, PTL

\* No timer reaches what was answered (fetch.ts:53-70).
THEOREM AnswersStand == Spec => []AnswerNeverAborted
<1>1. WInv => AnswerNeverAborted
  BY HandlersAreRight DEF WInv
<1> QED BY <1>1, WorkerInductive, PTL

\* Limiters and UUID managers, whether still cached or not, hold exactly the
\* upgrades under way and the bridges (index.ts:638-702), in any environment.
THEOREM HoldersExact == Spec => []HoldersAreExact
<1>1. WInv => HoldersAreExact
  BY DEF WInv, HoldersInv, HoldersAreExact, Holding, Names
<1> QED BY <1>1, WorkerInductive, PTL

-----------------------------------------------------------------------------
(* The contract *)

\* A request that is left alone stutters.
LEMMA UnmovedStutters ==
  ASSUME NEW q \in Request, Unmoved(q)
  PROVE  UNCHANGED E(q)!vars
BY DEF Unmoved, E!vars, Live, Streams, Upgrades

\* What an arrival is to the failover loop.
LEMMA ArriveIsArrive ==
  ASSUME NEW r \in Request, NEW s \in Shape, HInv, Arrive(r, s)
  PROVE  E(r)!Next
<1>1. phase[r] = "new" /\ phase'[r] \in {"fetching", "throwing"}
  BY ArriveHolds
<1>2. calls[r] = 0 /\ answer[r] = "none"
  BY <1>1 DEF HInv, RequestInv, LoopInv, TimerInv
<1>3. calls'[r] = 1 /\ answer'[r] = "none"
  BY <1>2 DEF HInv, HandlersTypeOK, Arrive, CallHandler, Fetch, UpdateAt
<1>4. ~Live(r) /\ Live(r)' /\ phase[r] # "backoff" /\ phase'[r] # "backoff"
  BY <1>1 DEF Live
<1>5. E(r)!Arrive
  BY <1>2, <1>3, <1>4 DEF E!Arrive
<1> QED BY <1>5 DEF E!Next

\* A call that fails is followed by another one, or the request fails.
LEMMA CallFailsIsFail ==
  ASSUME NEW r \in Request, HInv, CallFails(r),
         phase[r] \in {"fetching", "throwing", "cancelling"}, UNCHANGED <<shape, calls>>
  PROVE  E(r)!Next
<1>1. Live(r) /\ phase[r] # "backoff" /\ answer[r] = "none"
  BY DEF Live, HInv, RequestInv, TimerInv
<1>2. CASE calls[r] < MaxAttempts
  <2>1. phase'[r] = "backoff" /\ answer'[r] = answer[r]
    BY <1>2 DEF CallFails, UpdateAt, HInv, HandlersTypeOK
  <2>2. Live(r)'
    BY <2>1 DEF Live
  <2>3. E(r)!Fail
    BY <1>1, <1>2, <2>1, <2>2 DEF E!Fail, Streams, Upgrades
  <2> QED BY <2>3 DEF E!Next
<1>3. CASE ~(calls[r] < MaxAttempts)
  <2>1. phase'[r] = "done" /\ answer'[r] = "failure"
    BY <1>3 DEF CallFails, UpdateAt, HInv, HandlersTypeOK
  <2>2. ~Live(r)'
    BY <2>1 DEF Live
  <2>3. E(r)!Fail
    BY <1>1, <1>3, <2>1, <2>2 DEF E!Fail, E!Reply
  <2> QED BY <2>3 DEF E!Next
<1> QED BY <1>2, <1>3

\* A backend that answers succeeds, at the first call if there is a body.
LEMMA AnswerIsSucceed ==
  ASSUME NEW r \in Request, HInv, PassThrough(r) \/ Bridge(r)
  PROVE  E(r)!Next
<1>1. phase[r] = "fetching" /\ Live(r)
  BY DEF PassThrough, Bridge, CanBeAnswered, Live
<1>2. phase'[r] \in {"bridged", "done"} /\ answer'[r] \in {"backend", "101"}
  BY DEF PassThrough, Bridge, UpdateAt, HInv, HandlersTypeOK
<1>3. ~Live(r)' /\ phase'[r] # "backoff"
  BY <1>2 DEF Live
<1>4. Streams(shape[r]) => calls[r] = 1
  BY <1>1 DEF HInv, RequestInv, BodyInv
<1>5. E(r)!Succeed
  BY <1>1, <1>2, <1>3, <1>4 DEF E!Succeed, E!Reply
<1> QED BY <1>5 DEF E!Next

\* Retries of fetches, timers and the close of a bridge are no concern of it.
LEMMA InsideStutters ==
  ASSUME NEW r \in Request, HInv,
         FetchAgain(r) \/ TimerFires(r) \/ Reject(r) \/ BridgeCloses(r)
  PROVE  UNCHANGED E(r)!vars
<1>1. shape' = shape /\ calls'[r] = calls[r] /\ answer' = answer
  BY DEF FetchAgain, Fetch, TimerFires, Reject, BridgeCloses, UpdateAt, HInv, HandlersTypeOK
<1>2. Live(r)' = Live(r)
  BY DEF FetchAgain, Fetch, TimerFires, Reject, BridgeCloses, CanBeAnswered, UpdateAt, Live,
         HInv, HandlersTypeOK
<1>3. phase'[r] = "backoff" <=> phase[r] = "backoff"
  BY DEF FetchAgain, Fetch, TimerFires, Reject, BridgeCloses, CanBeAnswered, UpdateAt, Live,
         HInv, HandlersTypeOK
<1> QED BY <1>1, <1>2, <1>3 DEF E!vars, Streams, Upgrades

LEMMA RetryIsRetry ==
  ASSUME NEW r \in Request, HInv, Retry(r)
  PROVE  E(r)!Next
<1>1. phase[r] = "backoff" /\ phase'[r] \in {"fetching", "throwing"}
  BY DEF Retry, CallHandler, Fetch, UpdateAt, HInv, HandlersTypeOK
<1>2. calls'[r] = calls[r] + 1 /\ shape' = shape /\ answer' = answer
  BY DEF Retry, CallHandler, Fetch, UpdateAt, HInv, HandlersTypeOK
<1>3. Live(r) /\ Live(r)' /\ phase'[r] # "backoff"
  BY <1>1 DEF Live
<1>4. E(r)!Retry
  BY <1>1, <1>2, <1>3 DEF E!Retry, Streams, Upgrades
<1> QED BY <1>4 DEF E!Next

\* A fetch that rejects is fetched again or ends its call.
LEMMA ThrowsIsFail ==
  ASSUME NEW r \in Request, HInv, Throws(r)
  PROVE  [E(r)!Next]_(E(r)!vars)
<1>1. CASE tries[r] <= Retries(shape[r])
  <2>1. phase[r] \in {"fetching", "throwing"} /\ phase'[r] = "waiting"
    BY <1>1 DEF Throws, UpdateAt, HInv, HandlersTypeOK
  <2>2. Live(r) /\ Live(r)' /\ phase[r] # "backoff" /\ phase'[r] # "backoff"
    BY <2>1 DEF Live
  <2>3. shape' = shape /\ calls' = calls /\ answer' = answer
    BY <1>1 DEF Throws
  <2> QED BY <2>2, <2>3 DEF E!vars, Streams, Upgrades
<1>2. CASE ~(tries[r] <= Retries(shape[r]))
  BY <1>2, CallFailsIsFail DEF Throws
<1> QED BY <1>1, <1>2

\* Whatever happens to a request is a step of its contract, or none.
LEMMA ContinueIsStep ==
  ASSUME NEW r \in Request, HInv, Continue(r)
  PROVE  [E(r)!Next]_(E(r)!vars)
<1>1. ASSUME BridgeThrows(r) PROVE E(r)!Next
  BY <1>1, CallFailsIsFail DEF BridgeThrows, CanBeAnswered
<1>2. ASSUME CancelEnds(r) PROVE E(r)!Next
  BY <1>2, CallFailsIsFail DEF CancelEnds
<1>3. ASSUME PassThroughMarked(r) PROVE E(r)!Next
  BY <1>3, CallFailsIsFail DEF PassThroughMarked, CanBeAnswered
<1> QED BY <1>1, <1>2, <1>3, RetryIsRetry, ThrowsIsFail, AnswerIsSucceed, InsideStutters DEF Continue

\* Every request keeps to the contract that the failover loop relies on
\* (index.ts:483-558): its handler fails as often as it was called and not
\* again, and a request without a body left to send does not succeed.
THEOREM WorkerKeepsContract == Spec => StepsLikeExchange
<1>1. WorkerInit => \A r \in Request : E(r)!Init
  <2> SUFFICES ASSUME WorkerInit, NEW r \in Request PROVE E(r)!Init
    OBVIOUS
  <2>1. ~Live(r) /\ phase[r] # "backoff" /\ answer[r] # "failure"
    BY DEF WorkerInit, Init, Live
  <2> QED BY <2>1 DEF E!Init
<1> DEFINE Keeps == \A r \in Request : [E(r)!Next]_(E(r)!vars)
<1>2. WInv /\ [Next]_vars => [Keeps]_vars
  <2> SUFFICES ASSUME WInv, Next, NEW r \in Request
               PROVE  [E(r)!Next]_(E(r)!vars)
    OBVIOUS
  <2>1. HInv
    BY DEF WInv
  <2>2. ASSUME NEW q \in Request, NEW s \in Shape, Arrive(q, s)
        PROVE  [E(r)!Next]_(E(r)!vars)
    <3>1. CASE q = r
      BY <2>1, <2>2, <3>1, ArriveIsArrive
    <3>2. CASE q # r
      BY <2>1, <2>2, <3>2, ArriveMoves, UnmovedStutters DEF Moves
    <3> QED BY <3>1, <3>2
  <2>3. ASSUME NEW q \in Request, Proceed(q)
        PROVE  [E(r)!Next]_(E(r)!vars)
    <3>1. Continue(q)
      BY <2>3 DEF Proceed
    <3>2. CASE q = r
      BY <2>1, <3>1, <3>2, ContinueIsStep
    <3>3. CASE q # r
      BY <2>1, <3>1, <3>3, ContinueMoves, UnmovedStutters DEF Moves
    <3> QED BY <3>2, <3>3
  <2>4. ASSUME NEW e \in Env, Deny(e) \/ \E s \in Shape : Refuse(s, e)
        PROVE  [E(r)!Next]_(E(r)!vars)
    <3>1. Unmoved(r)
      BY <2>4 DEF Deny, Refuse, Passes, hvars, Unmoved
    <3> QED BY <3>1, UnmovedStutters
  <2> QED BY <2>2, <2>3, <2>4 DEF Next, ArriveGated, ArriveUngated
<1> QED BY <1>1, <1>2, WorkerInductive, PTL DEF Spec, SafetySpec, StepsLikeExchange
=============================================================================
