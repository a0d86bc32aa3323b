---------------------------- MODULE SocketBridge ----------------------------
(***************************************************************************)
(* bridgeSockets (src/src/utils/socket.ts): two WebSockets whose events    *)
(* the runtime dispatches one at a time.  A payload is passed on in the    *)
(* handler of its event, except a Blob, whose bytes are read first, while  *)
(* other events come in between.  Whatever ends the bridge goes through    *)
(* closeBoth, which closes both ends and runs onClosed.                    *)
(*                                                                         *)
(* A payload is named by its place among those of its side that have been  *)
(* dispatched.  The sockets themselves are the runtime's: a socket that is *)
(* not open any more has a close event under way, and a send on it throws  *)
(* or is ignored.  The listeners are attached exactly while ~closed.       *)
(***************************************************************************)
EXTENDS Integers, Sequences, SequencesExt

CONSTANTS CloseCodes,     \* codes that come with a close event
          MaxPayloads     \* bound: payloads sent by one peer

ASSUME BridgeAssumption ==
  /\ CloseCodes \subseteq Int
  /\ MaxPayloads \in Nat

Side == {"client", "backend"}
Other(s) == IF s = "client" THEN "backend" ELSE "client"
Payload == {"data", "blob"}     \* "data" is a string or an ArrayBuffer

VARIABLES
  open,       \* open[s]: readyState of the socket of s is 1
  queue,      \* queue[s]: its events that are not dispatched yet
  closed,
  reading,    \* <<s, n>>: Blob n from s is being read
  taken,      \* taken[s]: the payloads of s that were dispatched
  sent,       \* sent[s]: which of these were sent to the other end, in order
  released    \* how often onClosed has run

bridge == <<open, closed, released>>
vars   == <<open, queue, closed, reading, taken, sent, released>>

Init ==
  /\ open = [s \in Side |-> TRUE]
  /\ queue = [s \in Side |-> <<>>]
  /\ closed = FALSE
  /\ reading = {}
  /\ taken = [s \in Side |-> <<>>]
  /\ sent = [s \in Side |-> <<>>]
  /\ released = 0

-----------------------------------------------------------------------------
(* The runtime *)

\* What close() takes: no code, or one that may be sent.
NoCode == 0
Accepts(code) == code = NoCode \/ code \in (1000..4999) \ {1004, 1005, 1006, 1015}

PeerSends(s) ==
  /\ open[s]
  /\ Len(taken[s]) + Len(queue[s]) < MaxPayloads
  /\ \E p \in Payload : queue' = [queue EXCEPT ![s] = Append(@, p)]
  /\ UNCHANGED <<bridge, reading, taken, sent>>

\* The peer closes, or the connection to it fails.
PeerGoes(s) ==
  /\ open[s]
  /\ open' = [open EXCEPT ![s] = FALSE]
  /\ \E e \in {"close", "error"} : queue' = [queue EXCEPT ![s] = Append(@, e)]
  /\ UNCHANGED <<closed, released, reading, taken, sent>>

-----------------------------------------------------------------------------
(* The bridge *)

SanitizeCloseCode(code) ==
  IF code \in 1000..4999 /\ code \notin {1005, 1006} THEN code ELSE 1011

\* Mutant: a code that the runtime refuses leaves the socket as it is.
SafelyCloses_NoFallback(code) == Accepts(SanitizeCloseCode(code))

\* safeClose: with the code, and if that throws without one.
SafelyCloses(code) == \E c \in {SanitizeCloseCode(code), NoCode} : Accepts(c)

\* Mutant: nothing remembers that the bridge is closed.
CloseBoth_Again(code) ==
  /\ closed' = TRUE
  /\ open' = [s \in Side |-> open[s] /\ ~SafelyCloses(code)]
  /\ released' = released + 1

CloseBoth(code) ==
  IF closed THEN UNCHANGED bridge
  ELSE /\ closed' = TRUE
       /\ open' = [s \in Side |-> open[s] /\ ~SafelyCloses(code)]
       /\ released' = released + 1

\* Mutant: a failure to relay is logged and that is all.
OnForwardFailure_LogsOnly == UNCHANGED bridge

OnForwardFailure == CloseBoth(1011)

\* The send of payload n from s: done, ignored by a socket that is not open
\* any more, or it throws.
Send(s, n) ==
  \/ /\ sent' = IF open[Other(s)] THEN [sent EXCEPT ![s] = Append(@, n)] ELSE sent
     /\ UNCHANGED bridge
  \/ /\ OnForwardFailure
     /\ UNCHANGED sent

\* Mutant: every payload is read like a Blob.
Forward_AllRead(s, p, n) ==
  /\ reading' = reading \cup {<<s, n>>}
  /\ UNCHANGED <<bridge, sent>>

\* forward
Forward(s, p, n) ==
  \/ /\ p = "blob"
     /\ reading' = reading \cup {<<s, n>>}
     /\ UNCHANGED <<bridge, sent>>
  \/ /\ p = "data"
     /\ IF open[Other(s)] THEN Send(s, n) ELSE UNCHANGED <<bridge, sent>>
     /\ UNCHANGED reading

\* onClientMessage, onBackendMessage
OnMessage(s) ==
  /\ ~closed /\ queue[s] # <<>> /\ Head(queue[s]) \in Payload
  /\ queue' = [queue EXCEPT ![s] = Tail(@)]
  /\ taken' = [taken EXCEPT ![s] = Append(@, Head(queue[s]))]
  /\ Forward(s, Head(queue[s]), Len(taken[s]) + 1)

\* Mutant: nobody listens to the closing of the backend.
OnEnd_ClientOnly(s) ==
  /\ s = "client"
  /\ ~closed /\ queue[s] # <<>> /\ Head(queue[s]) \notin Payload
  /\ queue' = [queue EXCEPT ![s] = Tail(@)]
  /\ \E code \in CloseCodes \cup {1011} : CloseBoth(code)
  /\ UNCHANGED <<reading, taken, sent>>

\* onClientClose, onBackendClose with the code of the event, and
\* onClientError, onBackendError with 1011
OnEnd(s) ==
  /\ ~closed /\ queue[s] # <<>> /\ Head(queue[s]) \notin Payload
  /\ queue' = [queue EXCEPT ![s] = Tail(@)]
  /\ \E code \in IF Head(queue[s]) = "close" THEN CloseCodes ELSE {1011} : CloseBoth(code)
  /\ UNCHANGED <<reading, taken, sent>>

\* The arrayBuffer of Blob n from s is there.
BlobRead(s, n) ==
  /\ <<s, n>> \in reading
  /\ reading' = reading \ {<<s, n>>}
  /\ IF closed THEN UNCHANGED <<bridge, sent>> ELSE Send(s, n)
  /\ UNCHANGED <<queue, taken>>

\* Reading it fails.
BlobRejects(s, n) ==
  /\ <<s, n>> \in reading
  /\ reading' = reading \ {<<s, n>>}
  /\ OnForwardFailure
  /\ UNCHANGED <<queue, taken, sent>>

\* The UUID manager disconnects the session: it is stale, or replaced.
Disconnect ==
  /\ ~closed
  /\ \E code \in {1001, 1008} : CloseBoth(code)
  /\ UNCHANGED <<queue, reading, taken, sent>>

Next ==
  \/ \E s \in Side : \/ PeerSends(s) \/ PeerGoes(s)
                     \/ OnMessage(s) \/ OnEnd(s)
                     \/ \E n \in 1..MaxPayloads : BlobRead(s, n) \/ BlobRejects(s, n)
  \/ Disconnect

\* Fairness: the runtime dispatches the events of each socket.
Fairness == \A s \in Side : WF_vars(OnMessage(s) \/ OnEnd(s))

SafetySpec == Init /\ [][Next]_vars
Spec == SafetySpec /\ Fairness

-----------------------------------------------------------------------------
(* Properties *)

Event == Payload \cup {"close", "error"}

\* Types; only Blobs are ever read.
TypeOK ==
  /\ open \in [Side -> BOOLEAN]
  /\ queue \in [Side -> Seq(Event)]
  /\ closed \in BOOLEAN
  /\ taken \in [Side -> Seq(Payload)]
  /\ sent \in [Side -> Seq(1..MaxPayloads)]
  /\ released \in Nat
  /\ \A s \in Side : Len(taken[s]) <= MaxPayloads
  /\ \A e \in reading : /\ e \in Side \X (1..MaxPayloads)
                        /\ e[2] <= Len(taken[e[1]]) /\ taken[e[1]][e[2]] = "blob"

\* The release of index.ts runs once per bridge, when it closes, however many
\* of close, error, relay failure, late Blob and disconnect come together.
ReleasedOnce == released = IF closed THEN 1 ELSE 0

\* A closed bridge leaves no end open, whatever code the other one came with
\* (1015 passes sanitizeCloseCode, and the runtime refuses it).
EndsAreClosed == closed => \A s \in Side : ~open[s]

\* A payload is overtaken only while it is a Blob being read; the others
\* arrive in order, and nothing arrives twice.
OnlyBlobsAreOvertaken ==
  \A s \in Side : \A i, j \in DOMAIN sent[s] :
    i < j => \/ sent[s][i] < sent[s][j]
             \/ sent[s][j] < sent[s][i] /\ taken[s][sent[s][j]] = "blob"

\* As long as both ends are open nothing is lost: what was dispatched was
\* sent, or is a Blob being read.
NothingLostWhileOpen ==
  (\A s \in Side : open[s]) =>
    \A s \in Side : 1..Len(taken[s]) =
                      ToSet(sent[s]) \cup {n \in 1..MaxPayloads : <<s, n>> \in reading}

\* When one end goes, the other one is closed and the connection is released.
EndsGoTogether == \A s \in Side : ~open[s] ~> (released = 1)
=============================================================================
