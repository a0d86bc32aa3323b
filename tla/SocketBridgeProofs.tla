------------------------- MODULE SocketBridgeProofs -------------------------
(***************************************************************************)
(* Theorems about SocketBridge, for any number of payloads and any codes.  *)
(*                                                                         *)
(* The order of what is sent is inductive once it is known that a payload  *)
(* that was sent has been dispatched and is not being read any more.       *)
(***************************************************************************)
EXTENDS SocketBridge, TLAPS

SentInv ==
  \A s \in Side : \A i \in DOMAIN sent[s] :
    /\ sent[s][i] <= Len(taken[s])
    /\ <<s, sent[s][i]>> \notin reading

\* A queue q behind t dispatched payloads, of a socket that is open if o: an
\* end comes last, after the socket went, and nothing exceeds the bound.
QueueOK(q, t, o) ==
  /\ q \in Seq(Event)
  /\ \A i \in 1..Len(q) : q[i] \notin Payload => i = Len(q) /\ o = FALSE
  /\ t + Len(q) <= MaxPayloads + 1
  /\ t + Len(q) = MaxPayloads + 1 => Len(q) > 0 /\ q[Len(q)] \notin Payload

QueueInv == \A s \in Side : QueueOK(queue[s], Len(taken[s]), open[s])

\* The part of the invariant that is about the payloads.
TakenInv ==
  /\ taken \in [Side -> Seq(Payload)]
  /\ \A s \in Side : Len(taken[s]) <= MaxPayloads

SentType == sent \in [Side -> Seq(1..MaxPayloads)]

ReadingInv ==
  \A e \in reading : /\ e \in Side \X (1..MaxPayloads)
                     /\ e[2] <= Len(taken[e[1]]) /\ taken[e[1]][e[2]] = "blob"

RelayInv ==
  TakenInv /\ SentType /\ ReadingInv /\ SentInv /\ OnlyBlobsAreOvertaken

\* More payloads may have been dispatched.
Grows ==
  /\ TakenInv'
  /\ \A s \in Side : Len(taken[s]) <= Len(taken'[s])
  /\ \A s \in Side : \A n \in 1..Len(taken[s]) : taken'[s][n] = taken[s][n]

\* The part that is about the two ends and the release.
EndsInv ==
  /\ open \in [Side -> BOOLEAN]
  /\ closed \in BOOLEAN
  /\ released \in Nat
  /\ ReleasedOnce
  /\ EndsAreClosed

\* The inductive invariant.
BInv ==
  /\ queue \in [Side -> Seq(Event)]
  /\ QueueInv
  /\ EndsInv
  /\ RelayInv
  /\ NothingLostWhileOpen

\* The bridge is closed in this step, or was before.
Ends == closed' = TRUE /\ released' = 1 /\ open' = [s \in Side |-> FALSE]

-----------------------------------------------------------------------------
(* The ends *)

\* closeBoth closes both ends with every code, and releases if it is the first.
LEMMA CloseBothEnds ==
  ASSUME EndsInv, NEW code, CloseBoth(code)
  PROVE  Ends
<1>1. SafelyCloses(code)
  BY DEF SafelyCloses, Accepts
<1>2. CASE closed
  <2>1. open = [s \in Side |-> FALSE]
    BY <1>2 DEF EndsInv, EndsAreClosed
  <2> QED BY <1>2, <2>1 DEF CloseBoth, bridge, Ends, EndsInv, ReleasedOnce
<1>3. CASE ~closed
  <2>1. open' = [s \in Side |-> FALSE]
    BY <1>1, <1>3 DEF CloseBoth
  <2> QED BY <1>3, <2>1 DEF CloseBoth, Ends, EndsInv, ReleasedOnce
<1> QED BY <1>2, <1>3

\* Closing keeps the invariant of the ends.
LEMMA EndsKept ==
  ASSUME Ends
  PROVE  EndsInv' /\ ~(\A s \in Side : open'[s])
<1>1. "client" \in Side
  BY DEF Side
<1> QED BY <1>1 DEF Ends, EndsInv, ReleasedOnce, EndsAreClosed

-----------------------------------------------------------------------------
(* The payloads *)

\* What a sequence holds at one of its places.
LEMMA ElementOfSeq ==
  ASSUME NEW S, NEW q \in Seq(S), NEW i \in DOMAIN q
  PROVE  i \in 1..Len(q) /\ q[i] \in S
OBVIOUS

\* What was dispatched stays dispatched.
LEMMA TakenStays ==
  ASSUME TakenInv, Grows, NEW r \in Side
  PROVE  /\ Len(taken[r]) \in Nat
         /\ Len(taken'[r]) \in Nat
         /\ \A n \in 1..Len(taken[r]) : n \in 1..Len(taken'[r]) /\ taken'[r][n] = taken[r][n]
<1>1. taken[r] \in Seq(Payload) /\ taken'[r] \in Seq(Payload)
  BY DEF TakenInv, Grows
<1>2. Len(taken[r]) \in Nat /\ Len(taken'[r]) \in Nat
  BY <1>1
<1> QED BY <1>2 DEF Grows

\* What was sent has been dispatched and is not being read.
LEMMA SentElement ==
  ASSUME TakenInv, SentType, SentInv, NEW r \in Side, NEW i \in DOMAIN sent[r]
  PROVE  /\ sent[r][i] \in 1..Len(taken[r])
         /\ <<r, sent[r][i]>> \notin reading
<1>1. sent[r] \in Seq(1..MaxPayloads)
  BY DEF SentType
<1>2. sent[r][i] \in 1..MaxPayloads
  <2> DEFINE S == 1..MaxPayloads
  <2>1. sent[r] \in Seq(S)
    BY <1>1
  <2> HIDE DEF S
  <2>2. sent[r][i] \in S
    BY <2>1, ElementOfSeq
  <2> QED BY <2>2 DEF S
<1>3. taken[r] \in Seq(Payload)
  BY DEF TakenInv
<1>4. Len(taken[r]) \in Nat
  BY <1>3
<1>5. sent[r][i] <= Len(taken[r]) /\ <<r, sent[r][i]>> \notin reading
  BY DEF SentInv
<1> QED BY <1>2, <1>4, <1>5

\* What is being read has been dispatched, as a Blob.
LEMMA ReadingElement ==
  ASSUME TakenInv, ReadingInv, NEW r \in Side, NEW n, <<r, n>> \in reading
  PROVE  n \in 1..MaxPayloads /\ n \in 1..Len(taken[r]) /\ taken[r][n] = "blob"
<1>1. taken[r] \in Seq(Payload)
  BY DEF TakenInv
<1>2. Len(taken[r]) \in Nat
  BY <1>1
<1>3. n \in 1..MaxPayloads /\ n <= Len(taken[r]) /\ taken[r][n] = "blob"
  BY DEF ReadingInv
<1> QED BY <1>2, <1>3

\* The Blobs being read stay what they are, and new ones may come.
LEMMA ReadingKept ==
  ASSUME TakenInv, ReadingInv, Grows,
         \A e \in reading' \ reading :
           /\ e \in Side \X (1..MaxPayloads)
           /\ e[2] <= Len(taken'[e[1]]) /\ taken'[e[1]][e[2]] = "blob"
  PROVE  ReadingInv'
<1> SUFFICES ASSUME NEW e \in reading'
             PROVE  /\ e \in Side \X (1..MaxPayloads)
                    /\ e[2] <= Len(taken'[e[1]]) /\ taken'[e[1]][e[2]] = "blob"
  BY DEF ReadingInv
<1>1. CASE e \in reading
  <2>1. e \in Side \X (1..MaxPayloads)
    BY <1>1 DEF ReadingInv
  <2>2. PICK r \in Side, n \in 1..MaxPayloads : e = <<r, n>>
    BY <2>1
  <2>3. n \in 1..Len(taken[r]) /\ taken[r][n] = "blob"
    BY <1>1, <2>2, ReadingElement
  <2>4. n \in 1..Len(taken'[r]) /\ taken'[r][n] = "blob" /\ Len(taken'[r]) \in Nat
    BY <2>3, TakenStays
  <2>5. n <= Len(taken'[r])
    BY <2>4
  <2> QED BY <2>1, <2>2, <2>4, <2>5
<1>2. CASE e \notin reading
  BY <1>2
<1> QED BY <1>1, <1>2

\* A payload that was not sent before is later than what was sent, or a Blob.
LEMMA Overtakes ==
  ASSUME TakenInv, SentType, ReadingInv, SentInv, Grows,
         NEW s \in Side, NEW n \in 1..MaxPayloads, NEW i \in DOMAIN sent[s],
         n > Len(taken[s]) \/ <<s, n>> \in reading
  PROVE  sent[s][i] < n \/ (n < sent[s][i] /\ taken'[s][n] = "blob")
<1>1. sent[s][i] \in 1..Len(taken[s]) /\ <<s, sent[s][i]>> \notin reading
  BY SentElement
<1>2. Len(taken[s]) \in Nat
  BY TakenStays
<1>3. CASE n > Len(taken[s])
  BY <1>1, <1>2, <1>3
<1>4. CASE <<s, n>> \in reading
  <2>1. n \in 1..Len(taken[s]) /\ taken[s][n] = "blob"
    BY <1>4, ReadingElement
  <2>2. taken'[s][n] = "blob"
    BY <2>1, TakenStays
  <2>3. n # sent[s][i]
    BY <1>1, <1>4
  <2> QED BY <1>1, <1>2, <2>1, <2>2, <2>3
<1> QED BY <1>3, <1>4

\* The order of two payloads that were sent stays what it is.
LEMMA OrderStays ==
  ASSUME RelayInv, Grows, NEW s \in Side,
         NEW i \in DOMAIN sent[s], NEW j \in DOMAIN sent[s], i < j
  PROVE  \/ sent[s][i] < sent[s][j]
         \/ sent[s][j] < sent[s][i] /\ taken'[s][sent[s][j]] = "blob"
<1>1. \/ sent[s][i] < sent[s][j]
      \/ sent[s][j] < sent[s][i] /\ taken[s][sent[s][j]] = "blob"
  BY DEF RelayInv, OnlyBlobsAreOvertaken
<1>2. sent[s][j] \in 1..Len(taken[s])
  BY SentElement DEF RelayInv
<1>3. taken'[s][sent[s][j]] = taken[s][sent[s][j]]
  BY <1>2, TakenStays DEF RelayInv
<1> QED BY <1>1, <1>3

\* Sending payload n keeps the invariant when n has been dispatched, was not
\* sent before and is not being read any more.
LEMMA SendKeepsOrder ==
  ASSUME RelayInv, Grows, NEW s \in Side, NEW n \in 1..MaxPayloads,
         reading' \subseteq reading,
         n <= Len(taken'[s]),
         <<s, n>> \notin reading',
         n > Len(taken[s]) \/ <<s, n>> \in reading,
         sent' = [sent EXCEPT ![s] = Append(@, n)]
  PROVE  RelayInv'
<1> DEFINE last == Len(sent[s]) + 1
<1>1. SentType'
  BY DEF RelayInv, SentType
<1>2. /\ DOMAIN sent[s] = 1..Len(sent[s]) /\ Len(sent[s]) \in Nat
      /\ DOMAIN sent'[s] = DOMAIN sent[s] \cup {last}
      /\ \A i \in DOMAIN sent[s] : sent'[s][i] = sent[s][i]
      /\ sent'[s][last] = n
      /\ \A r \in Side \ {s} : sent'[r] = sent[r]
  <2>1. sent[s] \in Seq(1..MaxPayloads) /\ sent'[s] = Append(sent[s], n)
    BY DEF RelayInv, SentType
  <2>2. \A r \in Side \ {s} : sent'[r] = sent[r]
    BY DEF RelayInv, SentType
  <2> QED BY <2>1, <2>2
<1>3. ReadingInv'
  BY ReadingKept DEF RelayInv
<1>4. SentInv'
  <2> SUFFICES ASSUME NEW r \in Side, NEW i \in DOMAIN sent'[r]
               PROVE  sent'[r][i] <= Len(taken'[r]) /\ <<r, sent'[r][i]>> \notin reading'
    BY DEF SentInv
  <2>1. CASE i \in DOMAIN sent[r] /\ sent'[r][i] = sent[r][i]
    <3>1. sent[r][i] \in 1..Len(taken[r]) /\ <<r, sent[r][i]>> \notin reading
      BY <2>1, SentElement DEF RelayInv
    <3>2. sent[r][i] \in 1..Len(taken'[r])
      BY <3>1, TakenStays DEF RelayInv
    <3>3. Len(taken'[r]) \in Nat
      BY TakenStays DEF RelayInv
    <3> QED BY <2>1, <3>1, <3>2, <3>3
  <2>2. CASE r = s /\ i = last
    BY <1>2, <2>2
  <2> QED BY <1>2, <2>1, <2>2
<1>5. OnlyBlobsAreOvertaken'
  <2> SUFFICES ASSUME NEW r \in Side, NEW i \in DOMAIN sent'[r], NEW j \in DOMAIN sent'[r],
                      i < j
               PROVE  \/ sent'[r][i] < sent'[r][j]
                      \/ sent'[r][j] < sent'[r][i] /\ taken'[r][sent'[r][j]] = "blob"
    BY DEF OnlyBlobsAreOvertaken
  <2>1. CASE r # s
    <3>1. sent'[r] = sent[r]
      BY <1>2, <2>1
    <3> QED BY <3>1, OrderStays
  <2>2. CASE r = s /\ j \in DOMAIN sent[s]
    <3>1. i \in DOMAIN sent[s]
      BY <1>2, <2>2
    <3>2. sent'[s][i] = sent[s][i] /\ sent'[s][j] = sent[s][j]
      BY <1>2, <2>2, <3>1
    <3> QED BY <2>2, <3>1, <3>2, OrderStays
  <2>3. CASE r = s /\ j = last
    <3>1. i \in DOMAIN sent[s]
      BY <1>2, <2>3
    <3>2. sent[s][i] < n \/ (n < sent[s][i] /\ taken'[s][n] = "blob")
      BY <3>1, Overtakes DEF RelayInv
    <3> QED BY <1>2, <2>3, <3>1, <3>2
  <2> QED BY <1>2, <2>1, <2>2, <2>3
<1> QED BY <1>1, <1>3, <1>4, <1>5 DEF RelayInv, Grows

\* A step that sends nothing keeps it too, if the Blobs it begins to read have
\* just been dispatched.
LEMMA NoSendKeepsOrder ==
  ASSUME RelayInv, Grows,
         \A e \in reading' \ reading :
           /\ e \in Side \X (1..MaxPayloads)
           /\ e[2] > Len(taken[e[1]])
           /\ e[2] <= Len(taken'[e[1]]) /\ taken'[e[1]][e[2]] = "blob",
         sent' = sent
  PROVE  RelayInv'
<1>1. ReadingInv'
  BY ReadingKept DEF RelayInv
<1>2. SentInv'
  <2> SUFFICES ASSUME NEW r \in Side, NEW i \in DOMAIN sent[r]
               PROVE  sent[r][i] <= Len(taken'[r]) /\ <<r, sent[r][i]>> \notin reading'
    BY DEF SentInv
  <2>1. sent[r][i] \in 1..Len(taken[r]) /\ <<r, sent[r][i]>> \notin reading
    BY SentElement DEF RelayInv
  <2>2. Len(taken[r]) \in Nat /\ Len(taken'[r]) \in Nat /\ sent[r][i] \in 1..Len(taken'[r])
    BY <2>1, TakenStays DEF RelayInv
  <2>3. ~(sent[r][i] > Len(taken[r]))
    BY <2>1, <2>2
  <2>4. <<r, sent[r][i]>> \notin reading'
    BY <2>1, <2>3
  <2> QED BY <2>2, <2>4
<1>3. OnlyBlobsAreOvertaken'
  <2> SUFFICES ASSUME NEW r \in Side, NEW i \in DOMAIN sent[r], NEW j \in DOMAIN sent[r], i < j
               PROVE  \/ sent[r][i] < sent[r][j]
                      \/ sent[r][j] < sent[r][i] /\ taken'[r][sent[r][j]] = "blob"
    BY DEF OnlyBlobsAreOvertaken
  <2> QED BY OrderStays
<1>4. SentType'
  BY DEF RelayInv, SentType
<1> QED BY <1>1, <1>2, <1>3, <1>4 DEF RelayInv, Grows

-----------------------------------------------------------------------------
(* The queues *)

\* The peer of an open socket may send while the bound allows it.
LEMMA QueueSends ==
  ASSUME NEW q, NEW t \in Nat, QueueOK(q, t, TRUE), t + Len(q) < MaxPayloads,
         NEW p \in Payload
  PROVE  QueueOK(Append(q, p), t, TRUE)
BY BridgeAssumption DEF QueueOK, Event

\* It ends once.
LEMMA QueueEnds ==
  ASSUME NEW q, NEW t \in Nat, QueueOK(q, t, TRUE), NEW e \in {"close", "error"}
  PROVE  QueueOK(Append(q, e), t, FALSE)
<1>1. q \in Seq(Event) /\ e \in Event /\ e \notin Payload
  BY DEF QueueOK, Event, Payload
<1>2. Len(q) \in Nat /\ Append(q, e) \in Seq(Event) /\ Len(Append(q, e)) = Len(q) + 1
  BY <1>1
<1>3. t + Len(q) <= MaxPayloads
  <2>1. Len(q) > 0 => q[Len(q)] \in Payload
    BY <1>2 DEF QueueOK
  <2> QED BY <1>2, <2>1, BridgeAssumption DEF QueueOK
<1>4. \A i \in 1..Len(q) : q[i] \in Payload /\ Append(q, e)[i] = q[i]
  BY <1>1 DEF QueueOK
<1>5. Append(q, e)[Len(q) + 1] = e
  BY <1>1
<1>6. \A i \in 1..Len(Append(q, e)) : Append(q, e)[i] \notin Payload => i = Len(Append(q, e))
  BY <1>2, <1>4
<1> QED BY <1>1, <1>2, <1>3, <1>5, <1>6, BridgeAssumption DEF QueueOK

\* A payload is dispatched.
LEMMA QueueTakes ==
  ASSUME NEW q, NEW t \in Nat, NEW o \in BOOLEAN, QueueOK(q, t, o),
         q # <<>>, Head(q) \in Payload
  PROVE  QueueOK(Tail(q), t + 1, o) /\ t + 1 <= MaxPayloads
<1>1. q \in Seq(Event) /\ Len(q) \in Nat /\ Len(q) > 0 /\ q[1] \in Payload
  BY DEF QueueOK
<1>2. /\ Tail(q) \in Seq(Event) /\ Len(Tail(q)) = Len(q) - 1
      /\ \A i \in 1..Len(Tail(q)) : Tail(q)[i] = q[i + 1]
  BY <1>1
<1>3. t + 1 <= MaxPayloads
  BY <1>1, BridgeAssumption DEF QueueOK
<1>4. \A i \in 1..Len(Tail(q)) : Tail(q)[i] \notin Payload => i = Len(Tail(q)) /\ o = FALSE
  <2> SUFFICES ASSUME NEW i \in 1..Len(Tail(q)), Tail(q)[i] \notin Payload
               PROVE  i = Len(Tail(q)) /\ o = FALSE
    OBVIOUS
  <2>1. i + 1 \in 1..Len(q) /\ q[i + 1] \notin Payload
    BY <1>1, <1>2
  <2>2. i + 1 = Len(q) /\ o = FALSE
    BY <2>1 DEF QueueOK
  <2>3. i \in Int
    BY <1>1, <1>2
  <2>4. i = Len(q) - 1
    BY <1>1, <2>2, <2>3
  <2>5. i = Len(Tail(q))
    BY <1>2, <2>4, Zenon
  <2> QED BY <2>2, <2>5
<1>5. (t + 1) + Len(Tail(q)) = MaxPayloads + 1
        => Len(Tail(q)) > 0 /\ Tail(q)[Len(Tail(q))] \notin Payload
  <2> SUFFICES ASSUME (t + 1) + Len(Tail(q)) = MaxPayloads + 1
               PROVE  Len(Tail(q)) > 0 /\ Tail(q)[Len(Tail(q))] \notin Payload
    OBVIOUS
  <2>1. t + Len(q) = MaxPayloads + 1
    BY <1>1, <1>2
  <2>2. q[Len(q)] \notin Payload
    BY <2>1 DEF QueueOK
  <2>3. Len(q) # 1
    BY <1>1, <2>2
  <2>4. Len(Tail(q)) \in 1..Len(Tail(q)) /\ Len(Tail(q)) + 1 = Len(q)
    BY <1>1, <1>2, <2>3
  <2> QED BY <1>2, <2>2, <2>4
<1>6. (t + 1) + Len(Tail(q)) <= MaxPayloads + 1
  <2>1. t + Len(q) <= MaxPayloads + 1
    BY DEF QueueOK
  <2> QED BY <1>1, <1>2, <2>1, BridgeAssumption
<1> QED BY <1>2, <1>3, <1>4, <1>5, <1>6 DEF QueueOK

\* An end is dispatched, and was the last event.
LEMMA QueueDone ==
  ASSUME NEW q, NEW t \in Nat, NEW o \in BOOLEAN, QueueOK(q, t, o),
         q # <<>>, Head(q) \notin Payload
  PROVE  QueueOK(Tail(q), t, o)
<1>1. q \in Seq(Event) /\ Len(q) \in Nat /\ Len(q) > 0 /\ q[1] \notin Payload
  BY DEF QueueOK
<1>2. Len(q) = 1
  <2>1. 1 \in 1..Len(q)
    BY <1>1
  <2> QED BY <1>1, <2>1 DEF QueueOK
<1>3. Tail(q) \in Seq(Event) /\ Len(Tail(q)) = 0
  BY <1>1, <1>2
<1>4. t + 1 <= MaxPayloads + 1
  BY <1>2 DEF QueueOK
<1> QED BY <1>3, <1>4, BridgeAssumption DEF QueueOK

\* Closing a socket changes nothing about its events.
LEMMA QueueShut ==
  ASSUME NEW q, NEW t, NEW o, QueueOK(q, t, o)
  PROVE  QueueOK(q, t, FALSE)
BY DEF QueueOK

-----------------------------------------------------------------------------
(* The steps *)

\* What is known of a payload of s: it was sent, or it is being read.
Held(s) == ToSet(sent[s]) \cup {n \in 1..MaxPayloads : <<s, n>> \in reading}

\* Sending adds one payload to what s has sent.
LEMMA SentSet ==
  ASSUME SentType, NEW s \in Side, NEW n \in 1..MaxPayloads,
         sent' = [sent EXCEPT ![s] = Append(@, n)]
  PROVE  /\ ToSet(sent'[s]) = ToSet(sent[s]) \cup {n}
         /\ \A r \in Side \ {s} : ToSet(sent'[r]) = ToSet(sent[r])
<1>1. sent[s] \in Seq(1..MaxPayloads) /\ sent'[s] = Append(sent[s], n)
  BY DEF SentType
<1>2. \A r \in Side \ {s} : sent'[r] = sent[r]
  BY DEF SentType
<1>3. /\ DOMAIN sent'[s] = DOMAIN sent[s] \cup {Len(sent[s]) + 1}
      /\ \A i \in DOMAIN sent[s] : sent'[s][i] = sent[s][i]
      /\ sent'[s][Len(sent[s]) + 1] = n
  BY <1>1
<1>4. ToSet(sent'[s]) = ToSet(sent[s]) \cup {n}
  BY <1>3 DEF ToSet
<1> QED BY <1>2, <1>4

\* While both ends are open, every payload that was dispatched is held.
LEMMA HeldIsTaken ==
  NothingLostWhileOpen <=> ((\A s \in Side : open[s]) =>
                              \A s \in Side : 1..Len(taken[s]) = Held(s))
BY DEF NothingLostWhileOpen, Held

\* A step that closes the ends keeps everything about the queues and leaves
\* nothing to say of what the open ends hold.
LEMMA EndsQueue ==
  ASSUME Ends, QueueInv, NEW s \in Side, queue'[s] = queue[s], taken'[s] = taken[s]
  PROVE  QueueOK(queue'[s], Len(taken'[s]), open'[s])
<1>1. open'[s] = FALSE
  BY DEF Ends
<1>2. QueueOK(queue[s], Len(taken[s]), FALSE)
  BY QueueShut DEF QueueInv
<1> QED BY <1>1, <1>2

LEMMA EndsLose ==
  ASSUME Ends
  PROVE  EndsInv' /\ NothingLostWhileOpen'
BY EndsKept DEF NothingLostWhileOpen

\* A step that does not touch the payloads keeps what is known of them.
LEMMA RelayKept ==
  ASSUME RelayInv, UNCHANGED <<reading, taken, sent>>
  PROVE  RelayInv' /\ Grows
<1>1. Grows
  <2>1. \A s \in Side : Len(taken[s]) \in Nat
    BY DEF RelayInv, TakenInv
  <2> QED BY <2>1 DEF RelayInv, TakenInv, Grows
<1> QED BY <1>1, NoSendKeepsOrder

\* When nothing is dispatched, taken grows trivially.
LEMMA TakenKept ==
  ASSUME RelayInv, UNCHANGED taken
  PROVE  Grows
<1>1. \A s \in Side : Len(taken[s]) \in Nat
  BY DEF RelayInv, TakenInv
<1> QED BY <1>1 DEF RelayInv, TakenInv, Grows

\* A peer sends.
LEMMA PeerSendsStep ==
  ASSUME BInv, NEW s \in Side, PeerSends(s)
  PROVE  BInv'
<1> USE DEF PeerSends
<1>1. PICK p \in Payload : queue' = [queue EXCEPT ![s] = Append(@, p)]
  OBVIOUS
<1>2. queue \in [Side -> Seq(Event)] /\ QueueInv /\ EndsInv /\ RelayInv /\ NothingLostWhileOpen
  BY DEF BInv
<1>3. queue' \in [Side -> Seq(Event)]
  BY <1>1, <1>2 DEF Event
<1>4. QueueInv'
  <2>1. open[s] = TRUE
    BY <1>2 DEF EndsInv
  <2>2. Len(taken[s]) \in Nat
    BY <1>2, TakenKept, TakenStays DEF RelayInv
  <2>3. QueueOK(queue[s], Len(taken[s]), TRUE)
    BY <1>2, <2>1 DEF QueueInv
  <2>4. QueueOK(Append(queue[s], p), Len(taken[s]), TRUE)
    BY <2>2, <2>3, QueueSends
  <2>5. QueueOK(queue'[s], Len(taken'[s]), open'[s])
    BY <1>1, <1>2, <2>1, <2>4 DEF bridge
  <2>6. \A r \in Side \ {s} : QueueOK(queue'[r], Len(taken'[r]), open'[r])
    BY <1>1, <1>2 DEF QueueInv, bridge
  <2> QED BY <2>5, <2>6 DEF QueueInv
<1>5. EndsInv'
  BY <1>2 DEF EndsInv, bridge, ReleasedOnce, EndsAreClosed
<1>6. RelayInv'
  BY <1>2, RelayKept
<1>7. NothingLostWhileOpen'
  BY <1>2 DEF NothingLostWhileOpen, bridge
<1> QED BY <1>3, <1>4, <1>5, <1>6, <1>7 DEF BInv

\* A peer goes.
LEMMA PeerGoesStep ==
  ASSUME BInv, NEW s \in Side, PeerGoes(s)
  PROVE  BInv'
<1> USE DEF PeerGoes
<1>1. PICK e \in {"close", "error"} : queue' = [queue EXCEPT ![s] = Append(@, e)]
  OBVIOUS
<1>2. queue \in [Side -> Seq(Event)] /\ QueueInv /\ EndsInv /\ RelayInv /\ NothingLostWhileOpen
  BY DEF BInv
<1>3. queue' \in [Side -> Seq(Event)]
  BY <1>1, <1>2 DEF Event
<1>4. QueueInv'
  <2>1. open[s] = TRUE /\ open'[s] = FALSE
    BY <1>2 DEF EndsInv
  <2>2. Len(taken[s]) \in Nat
    BY <1>2, TakenKept, TakenStays DEF RelayInv
  <2>3. QueueOK(queue[s], Len(taken[s]), TRUE)
    BY <1>2, <2>1 DEF QueueInv
  <2>4. QueueOK(Append(queue[s], e), Len(taken[s]), FALSE)
    BY <2>2, <2>3, QueueEnds
  <2>5. QueueOK(queue'[s], Len(taken'[s]), open'[s])
    BY <1>1, <1>2, <2>1, <2>4
  <2>6. \A r \in Side \ {s} : QueueOK(queue'[r], Len(taken'[r]), open'[r])
    BY <1>1, <1>2 DEF QueueInv, EndsInv
  <2> QED BY <2>5, <2>6 DEF QueueInv
<1>5. EndsInv'
  BY <1>2 DEF EndsInv, ReleasedOnce, EndsAreClosed
<1>6. RelayInv'
  BY <1>2, RelayKept
<1>7. NothingLostWhileOpen'
  BY <1>2 DEF NothingLostWhileOpen, EndsInv
<1> QED BY <1>3, <1>4, <1>5, <1>6, <1>7 DEF BInv

\* The manager disconnects the session.
LEMMA DisconnectStep ==
  ASSUME BInv, Disconnect
  PROVE  BInv'
<1> USE DEF Disconnect
<1>1. queue \in [Side -> Seq(Event)] /\ QueueInv /\ EndsInv /\ RelayInv
  BY DEF BInv
<1>2. Ends
  BY <1>1, CloseBothEnds
<1>3. QueueInv'
  BY <1>1, <1>2, EndsQueue DEF QueueInv
<1>4. RelayInv'
  BY <1>1, RelayKept
<1> QED BY <1>1, <1>2, <1>3, <1>4, EndsLose DEF BInv

\* An end is dispatched.
LEMMA OnEndStep ==
  ASSUME BInv, NEW s \in Side, OnEnd(s)
  PROVE  BInv'
<1>1. queue \in [Side -> Seq(Event)] /\ QueueInv /\ EndsInv /\ RelayInv
  BY DEF BInv
<1>2. /\ queue[s] # <<>> /\ Head(queue[s]) \notin Payload
      /\ queue' = [queue EXCEPT ![s] = Tail(@)]
      /\ UNCHANGED <<reading, taken, sent>>
  BY DEF OnEnd
<1>3. Ends
  <2>1. PICK code : CloseBoth(code)
    BY DEF OnEnd
  <2> QED BY <1>1, <2>1, CloseBothEnds
<1>4. queue' \in [Side -> Seq(Event)]
  <2>1. queue[s] \in Seq(Event) /\ queue[s] # <<>>
    BY <1>1, <1>2
  <2>2. Tail(queue[s]) \in Seq(Event)
    BY <2>1
  <2> QED BY <1>1, <1>2, <2>2
<1>5. QueueInv'
  <2>1. Len(taken[s]) \in Nat
    BY <1>1, <1>2, TakenKept, TakenStays DEF RelayInv
  <2>2. QueueOK(queue[s], Len(taken[s]), open[s])
    BY <1>1 DEF QueueInv
  <2>3. QueueOK(queue[s], Len(taken[s]), FALSE)
    BY <2>2, QueueShut
  <2>4. QueueOK(Tail(queue[s]), Len(taken[s]), FALSE)
    BY <1>2, <2>1, <2>3, QueueDone
  <2>5. queue'[s] = Tail(queue[s]) /\ taken'[s] = taken[s] /\ open'[s] = FALSE
    BY <1>1, <1>2, <1>3 DEF Ends
  <2>6. QueueOK(queue'[s], Len(taken'[s]), open'[s])
    BY <2>4, <2>5
  <2>7. \A r \in Side \ {s} : queue'[r] = queue[r] /\ taken'[r] = taken[r]
    BY <1>1, <1>2
  <2>8. \A r \in Side \ {s} : QueueOK(queue'[r], Len(taken'[r]), open'[r])
    BY <1>1, <1>3, <2>7, EndsQueue
  <2> QED BY <2>6, <2>8 DEF QueueInv
<1>6. RelayInv'
  BY <1>1, <1>2, RelayKept
<1> QED BY <1>3, <1>4, <1>5, <1>6, EndsLose DEF BInv

\* Reading a Blob fails.
LEMMA BlobRejectsStep ==
  ASSUME BInv, NEW s \in Side, NEW n \in 1..MaxPayloads, BlobRejects(s, n)
  PROVE  BInv'
<1>1. queue \in [Side -> Seq(Event)] /\ QueueInv /\ EndsInv /\ RelayInv
  BY DEF BInv
<1>2. UNCHANGED <<queue, taken, sent>> /\ reading' \subseteq reading
  BY DEF BlobRejects
<1>3. Ends
  BY <1>1, CloseBothEnds DEF BlobRejects, OnForwardFailure
<1>4. QueueInv'
  BY <1>1, <1>2, <1>3, EndsQueue DEF QueueInv
<1>5. RelayInv'
  BY <1>1, <1>2, TakenKept, NoSendKeepsOrder
<1> QED BY <1>1, <1>2, <1>3, <1>4, <1>5, EndsLose DEF BInv

\* What a send leaves: both ends as they were, with the payload sent if the
\* other end is open, or both ends closed.
LEMMA SendCases ==
  ASSUME EndsInv, NEW s \in Side, NEW n, Send(s, n)
  PROVE  \/ /\ UNCHANGED bridge
            /\ open[Other(s)]
            /\ sent' = [sent EXCEPT ![s] = Append(@, n)]
         \/ /\ UNCHANGED bridge
            /\ ~open[Other(s)]
            /\ UNCHANGED sent
         \/ Ends /\ UNCHANGED sent
<1>1. CASE OnForwardFailure /\ UNCHANGED sent
  BY <1>1, CloseBothEnds DEF OnForwardFailure
<1>2. CASE /\ sent' = IF open[Other(s)] THEN [sent EXCEPT ![s] = Append(@, n)] ELSE sent
           /\ UNCHANGED bridge
  BY <1>2
<1> QED BY <1>1, <1>2 DEF Send

\* When the ends stay as they are, so does what is known of them.
LEMMA BridgeKept ==
  ASSUME EndsInv, UNCHANGED bridge
  PROVE  EndsInv' /\ open' = open
BY DEF EndsInv, bridge, ReleasedOnce, EndsAreClosed

LEMMA OtherSide ==
  ASSUME NEW s \in Side
  PROVE  Other(s) \in Side
BY DEF Other, Side

\* The bytes of a Blob are there.
LEMMA BlobReadStep ==
  ASSUME BInv, NEW s \in Side, NEW n \in 1..MaxPayloads, BlobRead(s, n)
  PROVE  BInv'
<1>1. queue \in [Side -> Seq(Event)] /\ QueueInv /\ EndsInv /\ RelayInv /\ NothingLostWhileOpen
  BY DEF BInv
<1>2. <<s, n>> \in reading /\ reading' = reading \ {<<s, n>>} /\ UNCHANGED <<queue, taken>>
  BY DEF BlobRead
<1>3. Grows
  BY <1>1, <1>2, TakenKept
<1>4. n \in 1..Len(taken[s]) /\ taken[s][n] = "blob"
  BY <1>1, <1>2, ReadingElement DEF RelayInv
<1>5. Len(taken[s]) \in Nat
  BY <1>1, <1>3, TakenStays DEF RelayInv
<1>6. CASE UNCHANGED bridge /\ UNCHANGED sent /\ ~(\A r \in Side : open[r])
  <2>1. EndsInv' /\ open' = open
    BY <1>1, <1>6, BridgeKept
  <2>2. QueueInv'
    BY <1>1, <1>2, <2>1 DEF QueueInv
  <2>3. RelayInv'
    BY <1>1, <1>2, <1>3, <1>6, NoSendKeepsOrder
  <2>4. NothingLostWhileOpen'
    BY <1>6, <2>1 DEF NothingLostWhileOpen
  <2> QED BY <1>1, <1>2, <2>1, <2>2, <2>3, <2>4 DEF BInv
<1>7. CASE Ends /\ UNCHANGED sent
  <2>1. QueueInv'
    BY <1>1, <1>2, <1>7, EndsQueue DEF QueueInv
  <2>2. RelayInv'
    BY <1>1, <1>2, <1>3, <1>7, NoSendKeepsOrder
  <2> QED BY <1>1, <1>2, <1>7, <2>1, <2>2, EndsLose DEF BInv
<1>8. CASE UNCHANGED bridge /\ sent' = [sent EXCEPT ![s] = Append(@, n)]
  <2>1. EndsInv' /\ open' = open
    BY <1>1, <1>8, BridgeKept
  <2>2. QueueInv'
    BY <1>1, <1>2, <2>1 DEF QueueInv
  <2>3. RelayInv'
    <3>1. n <= Len(taken'[s]) /\ <<s, n>> \notin reading' /\ reading' \subseteq reading
      BY <1>2, <1>4, <1>5
    <3> QED BY <1>1, <1>2, <1>3, <1>8, <3>1, SendKeepsOrder
  <2>4. NothingLostWhileOpen'
    <3>1. SUFFICES ASSUME \A r \in Side : open[r], NEW r \in Side
                   PROVE  1..Len(taken[r]) = Held(r)'
      BY <1>2, <2>1 DEF NothingLostWhileOpen, Held
    <3>2. 1..Len(taken[r]) = Held(r)
      BY <1>1, <3>1, HeldIsTaken
    <3>3. CASE r = s
      <4>1. ToSet(sent'[s]) = ToSet(sent[s]) \cup {n}
        BY <1>1, <1>8, SentSet DEF RelayInv
      <4>2. {m \in 1..MaxPayloads : <<s, m>> \in reading}
              = {m \in 1..MaxPayloads : <<s, m>> \in reading'} \cup {n}
        BY <1>2
      <4> QED BY <3>2, <3>3, <4>1, <4>2 DEF Held
    <3>4. CASE r # s
      <4>1. ToSet(sent'[r]) = ToSet(sent[r])
        BY <1>1, <1>8, <3>4, SentSet DEF RelayInv
      <4>2. {m \in 1..MaxPayloads : <<r, m>> \in reading}
              = {m \in 1..MaxPayloads : <<r, m>> \in reading'}
        BY <1>2, <3>4
      <4> QED BY <3>2, <4>1, <4>2 DEF Held
    <3> QED BY <3>3, <3>4
  <2> QED BY <1>1, <1>2, <2>1, <2>2, <2>3, <2>4 DEF BInv
<1>9. CASE closed
  <2>1. ~(\A r \in Side : open[r])
    BY <1>1, <1>9 DEF EndsInv, EndsAreClosed, Side
  <2> QED BY <1>6, <1>9, <2>1 DEF BlobRead
<1>10. CASE ~closed
  <2>1. Send(s, n)
    BY <1>10 DEF BlobRead
  <2> QED BY <1>1, <1>6, <1>7, <1>8, <2>1, SendCases, OtherSide
<1> QED BY <1>9, <1>10

\* A payload is dispatched: it begins to be read, or is sent, or is dropped
\* because the other end is not open.
LEMMA OnMessageStep ==
  ASSUME BInv, NEW s \in Side, OnMessage(s)
  PROVE  BInv'
<1> DEFINE n == Len(taken[s]) + 1
           p == Head(queue[s])
<1>1. queue \in [Side -> Seq(Event)] /\ QueueInv /\ EndsInv /\ RelayInv /\ NothingLostWhileOpen
  BY DEF BInv
<1>2. /\ queue[s] # <<>> /\ p \in Payload
      /\ queue' = [queue EXCEPT ![s] = Tail(@)]
      /\ taken' = [taken EXCEPT ![s] = Append(@, p)]
      /\ Forward(s, p, n)
  BY DEF OnMessage
<1>3. /\ taken[s] \in Seq(Payload)
      /\ Len(taken[s]) \in Nat /\ n \in Nat
      /\ Len(taken'[s]) = n /\ taken'[s][n] = p
      /\ \A i \in 1..Len(taken[s]) : taken'[s][i] = taken[s][i]
      /\ \A r \in Side \ {s} : taken'[r] = taken[r]
  <2>1. taken \in [Side -> Seq(Payload)]
    BY <1>1 DEF RelayInv, TakenInv
  <2>2. taken[s] \in Seq(Payload) /\ taken'[s] = Append(taken[s], p)
    BY <1>2, <2>1
  <2>3. \A r \in Side \ {s} : taken'[r] = taken[r]
    BY <1>2, <2>1
  <2> QED BY <1>2, <2>2, <2>3
<1>4. QueueOK(Tail(queue[s]), n, open[s]) /\ n <= MaxPayloads
  <2>1. QueueOK(queue[s], Len(taken[s]), open[s]) /\ open[s] \in BOOLEAN
    BY <1>1 DEF QueueInv, EndsInv
  <2> QED BY <1>2, <1>3, <2>1, QueueTakes
<1>5. n \in 1..MaxPayloads
  BY <1>3, <1>4, BridgeAssumption
<1>6. queue' \in [Side -> Seq(Event)] /\ queue'[s] = Tail(queue[s])
  <2>1. queue[s] \in Seq(Event) /\ queue[s] # <<>>
    BY <1>1, <1>2
  <2>2. Tail(queue[s]) \in Seq(Event)
    BY <2>1
  <2> QED BY <1>1, <1>2, <2>2
<1>7. Grows
  <2>1. taken' \in [Side -> Seq(Payload)]
    BY <1>1, <1>2 DEF RelayInv, TakenInv
  <2>2. \A r \in Side : Len(taken[r]) \in Nat /\ Len(taken[r]) <= MaxPayloads
    BY <1>1 DEF RelayInv, TakenInv
  <2>3. \A r \in Side \ {s} : Len(taken'[r]) = Len(taken[r])
    BY <1>3
  <2>4. Len(taken[s]) <= Len(taken'[s]) /\ Len(taken'[s]) <= MaxPayloads
    BY <1>3, <1>4
  <2>5. \A r \in Side : Len(taken[r]) <= Len(taken'[r]) /\ Len(taken'[r]) <= MaxPayloads
    BY <2>2, <2>3, <2>4
  <2>6. \A r \in Side : \A i \in 1..Len(taken[r]) : taken'[r][i] = taken[r][i]
    BY <1>3
  <2> QED BY <2>1, <2>5, <2>6 DEF TakenInv, Grows
<1>8. ASSUME open' = open \/ open' = [r \in Side |-> FALSE]
      PROVE  QueueInv'
  <2>1. QueueOK(queue'[s], Len(taken'[s]), open[s])
    BY <1>3, <1>4, <1>6
  <2>2. \A r \in Side \ {s} : QueueOK(queue'[r], Len(taken'[r]), open[r])
    BY <1>1, <1>2, <1>3 DEF QueueInv
  <2>3. \A r \in Side : QueueOK(queue'[r], Len(taken'[r]), open[r])
    BY <2>1, <2>2
  <2>4. \A r \in Side : QueueOK(queue'[r], Len(taken'[r]), open'[r])
    BY <1>8, <2>3, QueueShut
  <2> QED BY <2>4 DEF QueueInv
<1>9. CASE p = "blob" /\ reading' = reading \cup {<<s, n>>} /\ UNCHANGED <<bridge, sent>>
  <2>1. EndsInv' /\ open' = open
    BY <1>1, <1>9, BridgeKept
  <2>2. RelayInv'
    <3>1. \A e \in reading' \ reading : e = <<s, n>>
      BY <1>9
    <3>2. n > Len(taken[s]) /\ n <= Len(taken'[s]) /\ taken'[s][n] = "blob"
      BY <1>3, <1>9
    <3> QED BY <1>1, <1>5, <1>7, <1>9, <3>1, <3>2, NoSendKeepsOrder
  <2>3. NothingLostWhileOpen'
    <3>1. SUFFICES ASSUME \A r \in Side : open[r], NEW r \in Side
                   PROVE  1..Len(taken'[r]) = Held(r)'
      BY <2>1 DEF NothingLostWhileOpen, Held
    <3>2. 1..Len(taken[r]) = Held(r)
      BY <1>1, <3>1, HeldIsTaken
    <3>3. CASE r = s
      <4>1. 1..Len(taken'[s]) = 1..Len(taken[s]) \cup {n}
        BY <1>3
      <4>2. {m \in 1..MaxPayloads : <<s, m>> \in reading'}
              = {m \in 1..MaxPayloads : <<s, m>> \in reading} \cup {n}
        BY <1>5, <1>9
      <4> QED BY <1>9, <3>2, <3>3, <4>1, <4>2 DEF Held
    <3>4. CASE r # s
      <4>1. {m \in 1..MaxPayloads : <<r, m>> \in reading'}
              = {m \in 1..MaxPayloads : <<r, m>> \in reading}
        BY <1>9, <3>4
      <4> QED BY <1>3, <1>9, <3>2, <3>4, <4>1 DEF Held
    <3> QED BY <3>3, <3>4
  <2> QED BY <1>6, <1>8, <2>1, <2>2, <2>3 DEF BInv
<1>10. CASE UNCHANGED <<bridge, reading, sent>> /\ ~open[Other(s)]
  <2>1. EndsInv' /\ open' = open
    BY <1>1, <1>10, BridgeKept
  <2>2. RelayInv'
    BY <1>1, <1>7, <1>10, NoSendKeepsOrder
  <2>3. NothingLostWhileOpen'
    BY <1>10, <2>1, OtherSide DEF NothingLostWhileOpen
  <2> QED BY <1>6, <1>8, <2>1, <2>2, <2>3 DEF BInv
<1>11. CASE Ends /\ UNCHANGED <<reading, sent>>
  <2>1. open' = [r \in Side |-> FALSE]
    BY <1>11 DEF Ends
  <2>2. RelayInv'
    BY <1>1, <1>7, <1>11, NoSendKeepsOrder
  <2> QED BY <1>6, <1>8, <1>11, <2>1, <2>2, EndsLose DEF BInv
<1>12. CASE UNCHANGED <<bridge, reading>> /\ sent' = [sent EXCEPT ![s] = Append(@, n)]
  <2>1. EndsInv' /\ open' = open
    BY <1>1, <1>12, BridgeKept
  <2>2. RelayInv'
    <3>1. <<s, n>> \notin reading
      <4>1. SUFFICES ASSUME <<s, n>> \in reading
                     PROVE  FALSE
        OBVIOUS
      <4>2. n \in 1..Len(taken[s])
        BY <1>1, <4>1, ReadingElement DEF RelayInv
      <4> QED BY <1>3, <4>2
    <3>2. n > Len(taken[s]) /\ n <= Len(taken'[s]) /\ reading' = reading
      BY <1>3, <1>12
    <3> QED BY <1>1, <1>5, <1>7, <1>12, <3>1, <3>2, SendKeepsOrder
  <2>3. NothingLostWhileOpen'
    <3>1. SUFFICES ASSUME \A r \in Side : open[r], NEW r \in Side
                   PROVE  1..Len(taken'[r]) = Held(r)'
      BY <2>1 DEF NothingLostWhileOpen, Held
    <3>2. 1..Len(taken[r]) = Held(r)
      BY <1>1, <3>1, HeldIsTaken
    <3>3. CASE r = s
      <4>1. 1..Len(taken'[s]) = 1..Len(taken[s]) \cup {n}
        BY <1>3
      <4>2. ToSet(sent'[s]) = ToSet(sent[s]) \cup {n}
        BY <1>1, <1>5, <1>12, SentSet DEF RelayInv
      <4> QED BY <1>12, <3>2, <3>3, <4>1, <4>2 DEF Held
    <3>4. CASE r # s
      <4>1. ToSet(sent'[r]) = ToSet(sent[r])
        BY <1>1, <1>5, <1>12, <3>4, SentSet DEF RelayInv
      <4> QED BY <1>3, <1>12, <3>2, <3>4, <4>1 DEF Held
    <3> QED BY <3>3, <3>4
  <2> QED BY <1>6, <1>8, <2>1, <2>2, <2>3 DEF BInv
<1>13. CASE p = "data" /\ UNCHANGED reading
            /\ IF open[Other(s)] THEN Send(s, n) ELSE UNCHANGED <<bridge, sent>>
  <2>1. CASE open[Other(s)]
    BY <1>1, <1>10, <1>11, <1>12, <1>13, <2>1, SendCases
  <2>2. CASE ~open[Other(s)]
    BY <1>10, <1>13, <2>2
  <2> QED BY <2>1, <2>2
<1> QED BY <1>2, <1>9, <1>13 DEF Forward

-----------------------------------------------------------------------------
(* The theorems *)

LEMMA InitBInv == Init => BInv
<1> SUFFICES ASSUME Init
             PROVE  BInv
  OBVIOUS
<1>1. queue \in [Side -> Seq(Event)] /\ EndsInv
  <2>1. queue \in [Side -> Seq(Event)]
    BY DEF Init
  <2>2. open \in [Side -> BOOLEAN] /\ closed = FALSE /\ released = 0
    BY DEF Init
  <2> QED BY <2>1, <2>2 DEF EndsInv, ReleasedOnce, EndsAreClosed
<1>2. QueueInv
  BY BridgeAssumption DEF Init, QueueInv, QueueOK
<1>3. RelayInv
  BY BridgeAssumption DEF Init, RelayInv, TakenInv, SentType, ReadingInv, SentInv,
                          OnlyBlobsAreOvertaken
<1>4. NothingLostWhileOpen
  BY DEF Init, NothingLostWhileOpen, ToSet
<1> QED BY <1>1, <1>2, <1>3, <1>4 DEF BInv

LEMMA NextBInv == BInv /\ [Next]_vars => BInv'
<1> SUFFICES ASSUME BInv, [Next]_vars
             PROVE  BInv'
  OBVIOUS
<1>1. CASE UNCHANGED vars
  <2>1. UNCHANGED <<open, queue, closed, reading, taken, sent, released>>
    BY <1>1 DEF vars
  <2>2. QueueInv'
    BY <2>1 DEF BInv, QueueInv
  <2>3. EndsInv'
    BY <2>1, BridgeKept DEF BInv, bridge
  <2>4. RelayInv'
    BY <2>1, RelayKept DEF BInv
  <2>5. NothingLostWhileOpen'
    BY <2>1 DEF BInv, NothingLostWhileOpen
  <2> QED BY <2>1, <2>2, <2>3, <2>4, <2>5 DEF BInv
<1>2. CASE \E s \in Side : PeerSends(s)
  BY <1>2, PeerSendsStep
<1>3. CASE \E s \in Side : PeerGoes(s)
  BY <1>3, PeerGoesStep
<1>4. CASE \E s \in Side : OnMessage(s)
  BY <1>4, OnMessageStep
<1>5. CASE \E s \in Side : OnEnd(s)
  BY <1>5, OnEndStep
<1>6. CASE \E s \in Side : \E n \in 1..MaxPayloads : BlobRead(s, n)
  BY <1>6, BlobReadStep
<1>7. CASE \E s \in Side : \E n \in 1..MaxPayloads : BlobRejects(s, n)
  BY <1>7, BlobRejectsStep
<1>8. CASE Disconnect
  BY <1>8, DisconnectStep
<1> QED BY <1>1, <1>2, <1>3, <1>4, <1>5, <1>6, <1>7, <1>8 DEF Next

\* bridgeSockets keeps the invariant, with its queues, ends and payloads.
THEOREM BridgeInductive == SafetySpec => []BInv
<1> QED BY InitBInv, NextBInv, PTL DEF SafetySpec

\* The variables have their types, and only Blobs are ever being read.
THEOREM BridgeType == SafetySpec => []TypeOK
<1>1. BInv => TypeOK
  BY DEF BInv, EndsInv, RelayInv, TakenInv, SentType, ReadingInv, TypeOK
<1> QED BY <1>1, BridgeInductive, PTL

\* onClosed runs once, whichever of close, error, relay failure and disconnect
\* comes first, and never again.
THEOREM BridgeReleasesOnce == SafetySpec => []ReleasedOnce
<1>1. BInv => ReleasedOnce
  BY DEF BInv, EndsInv
<1> QED BY <1>1, BridgeInductive, PTL

\* A closed bridge has closed both ends, whatever integer the close code was.
THEOREM BridgeClosesEnds == SafetySpec => []EndsAreClosed
<1>1. BInv => EndsAreClosed
  BY DEF BInv, EndsInv
<1> QED BY <1>1, BridgeInductive, PTL

\* Payloads arrive once each and in order, except that others overtake a Blob
\* while it is read.
THEOREM BridgeKeepsOrder == SafetySpec => []OnlyBlobsAreOvertaken
<1>1. BInv => OnlyBlobsAreOvertaken
  BY DEF BInv, RelayInv
<1> QED BY <1>1, BridgeInductive, PTL

\* Between two open ends no payload is lost.
THEOREM BridgeLosesNothing == SafetySpec => []NothingLostWhileOpen
<1>1. BInv => NothingLostWhileOpen
  BY DEF BInv
<1> QED BY <1>1, BridgeInductive, PTL
=============================================================================
