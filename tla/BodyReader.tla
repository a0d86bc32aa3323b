----------------------------- MODULE BodyReader -----------------------------
(***************************************************************************)
(* readResponseBodyWithLimit (src/src/subscription/proxy.ts): chunks of    *)
(* any size are gathered in one buffer, which starts at the declared       *)
(* length and doubles up to the limit.  A body is the content-length its   *)
(* response declares, of what was sent and perhaps compressed, so that it  *)
(* need not be the length of what is read, and the chunks that are read.   *)
(***************************************************************************)
EXTENDS Integers, Sequences

CONSTANTS MaxResponseSize,   \* MAX_RESPONSE_SIZE_BYTES
          InitialBuffer      \* INITIAL_READ_BUFFER_BYTES

ASSUME ReaderAssumption ==
  /\ MaxResponseSize \in Nat \ {0}
  /\ InitialBuffer \in Nat \ {0}

NoLength == -1    \* no content-length
Blank    == 0     \* what a new buffer is filled with

Smaller(m, n) == IF m <= n THEN m ELSE n

NewBuffer(capacity) == [i \in 1..capacity |-> Blank]

\* buffer.set(bytes, offset)
Write(buffer, bytes, offset) ==
  [i \in DOMAIN buffer |-> IF i - offset \in DOMAIN bytes THEN bytes[i - offset] ELSE buffer[i]]

\* The capacity doubles until it is enough or at the limit; it grows in each
\* turn, so that it takes fewer turns than the limit.
NextCapacity(capacity, required) ==
  LET after[n \in 0..MaxResponseSize] ==
        IF n = 0 THEN capacity
        ELSE LET c == after[n - 1]
             IN  IF c < required /\ c < MaxResponseSize THEN Smaller(MaxResponseSize, 2 * c) ELSE c
  IN  after[MaxResponseSize]

\* Mutant: what has been read is not taken over into the larger buffer.
WithRoomFor_Blank(buffer, required, held) ==
  IF required <= Len(buffer) THEN buffer ELSE NewBuffer(NextCapacity(Len(buffer), required))

\* A buffer for `required` bytes, of which `held` have been read.
WithRoomFor(buffer, required, held) ==
  IF required <= Len(buffer) THEN buffer
  ELSE Write(NewBuffer(NextCapacity(Len(buffer), required)), SubSeq(buffer, 1, held), 0)

ReadChunk(read, chunk) ==
  LET total == read.totalLength + Len(chunk)
      room  == WithRoomFor(read.buffer, total, read.totalLength)
  IN  IF read.exceeded \/ total > MaxResponseSize \/ Len(room) < total
      THEN [read EXCEPT !.exceeded = TRUE]
      ELSE [read EXCEPT !.totalLength = total,
                        !.buffer = Write(room, chunk, read.totalLength)]

FirstCapacity(declared) ==
  Smaller(MaxResponseSize, IF declared = NoLength THEN InitialBuffer ELSE declared)

\* A length of 0 is believed, and one over the limit is refused at once.
StartOf(body) ==
  [buffer      |-> NewBuffer(FirstCapacity(body.declared)),
   totalLength |-> 0,
   exceeded    |-> body.declared > MaxResponseSize]

ReadBody(body) ==
  LET after[n \in 0..Len(body.chunks)] ==
        IF n = 0 THEN StartOf(body) ELSE ReadChunk(after[n - 1], body.chunks[n])
  IN  IF body.declared = 0 THEN StartOf(body) ELSE after[Len(body.chunks)]

IsRead(body) == ~ReadBody(body).exceeded
Text(body)   == SubSeq(ReadBody(body).buffer, 1, ReadBody(body).totalLength)
=============================================================================
