----------------------------- MODULE Reentrance -----------------------------
(***************************************************************************)
(* The methods of UUIDConnectionManager (src/src/uuid-manager.ts) call by  *)
(* call, with what they do to themselves: removeConnection disconnects a   *)
(* session before it is through, closeBoth of that session's bridge runs   *)
(* its release closure, and the closure calls unregisterConnection, whose  *)
(* maybeCleanup may start a second cleanup inside the first, which has not *)
(* moved nextCleanupAt yet.  Connections takes such a cascade for one      *)
(* step; here its outcome is computed and compared with that step.         *)
(*                                                                         *)
(* The operators take and return a manager, a record of                    *)
(*   contents  the bucket objects, those out of the map included,          *)
(*   inMap     the UUIDs that bucketsByUuid has a bucket for,              *)
(*   indexed   the keys of uuidByConnectionId,                             *)
(*   closed    the bridges that are closed, whose closures have run,       *)
(*   calls     how often each session was told to disconnect,              *)
(*   due       now >= nextCleanupAt.                                       *)
(* An order has the sequences in which the Maps list UUIDs and sessions.   *)
(* They are recursive: this module is for TLC only.                        *)
(***************************************************************************)
EXTENDS Connections
LOCAL INSTANCE SequencesExt

Order == [uuids : SetToSeqs(UUID), conns : SetToSeqs(Conn)]

\* The manager in the current state.
Manager ==
  [contents |-> tracked, inMap |-> {u \in UUID : tracked[u] # {}}, indexed |-> indexed,
   closed |-> {}, calls |-> [c \in Conn |-> 0], due |-> cleanupDue]

RECURSIVE Disconnect(_, _, _)

DeleteIfEmpty(m, u) ==
  IF m.contents[u] = {} THEN [m EXCEPT !.inMap = @ \ {u}] ELSE m

\* Mutant: the session is told first, and deleted when it comes back.
RemoveConnection_TellsFirst(m, u, c, tell, keep, order) ==
  IF c \notin m.contents[u] THEN [m EXCEPT !.indexed = @ \ {c}]
  ELSE LET told == IF tell THEN Disconnect(m, c, order) ELSE m
           gone == [told EXCEPT !.contents[u] = @ \ {c}, !.indexed = @ \ {c}]
       IN  IF keep THEN gone ELSE DeleteIfEmpty(gone, u)

\* removeConnection; keep is keepBucketWhenEmpty
RemoveConnection(m, u, c, tell, keep, order) ==
  IF c \notin m.contents[u] THEN [m EXCEPT !.indexed = @ \ {c}]
  ELSE LET gone == [m EXCEPT !.contents[u] = @ \ {c}, !.indexed = @ \ {c}]
           told == IF tell THEN Disconnect(gone, c, order) ELSE gone
       IN  IF keep THEN told ELSE DeleteIfEmpty(told, u)

\* One turn of the loop of cleanup: the stale sessions are listed before the
\* first is removed.  A bucket that has left the map is not visited any more.
CleanUpBucket(m, u, order) ==
  IF u \notin m.inMap THEN m
  ELSE FoldLeft(LAMBDA n, c : RemoveConnection(n, u, c, TRUE, FALSE, order), m,
                SelectSeq(order.conns, LAMBDA c : c \in m.contents[u] \cap old))

\* cleanup: nextCleanupAt moves at its end.
CleanUp(m, order) ==
  [FoldLeft(LAMBDA n, u : CleanUpBucket(n, u, order), m, order.uuids) EXCEPT !.due = FALSE]

MaybeCleanUp(m, order) == IF m.due THEN CleanUp(m, order) ELSE m

\* unregisterConnection
Unregister(m, u, c, order) ==
  LET clean == MaybeCleanUp(m, order)
  IN  IF u \notin clean.inMap THEN [clean EXCEPT !.indexed = @ \ {c}]
      ELSE DeleteIfEmpty(RemoveConnection(clean, u, c, FALSE, FALSE, order), u)

\* The disconnect of a session: closeBoth of its bridge, the first time with
\* the release closure, which unregisters the session.
Disconnect(m, c, order) ==
  LET told == [m EXCEPT !.calls[c] = @ + 1, !.closed = @ \cup {c}]
  IN  IF c \in m.closed THEN told ELSE Unregister(told, uuidOf[c], c, order)

\* getOrCreateBucket
WithBucket(m, u) ==
  IF u \in m.inMap THEN m
  ELSE [m EXCEPT !.contents[u] = {}, !.inMap = @ \cup {u}]

\* registerConnection of a session that is new to the manager: it goes on with
\* the bucket it has got, in the map or not.
Register(m, u, ip, c, order) ==
  LET found == WithBucket(MaybeCleanUp(m, order), u)
      freed == FoldLeft(LAMBDA n, d : RemoveConnection(n, u, d, TRUE, TRUE, order), found,
                        SelectSeq(order.conns,
                                  LAMBDA d : d \in found.contents[u] /\ ipOf[d] = ip))
  IN  IF Cardinality(freed.contents[u]) >= MaxConnections THEN freed
      ELSE [freed EXCEPT !.contents[u] = @ \cup {c}, !.indexed = @ \cup {c}]

-----------------------------------------------------------------------------
(* Properties *)

\* The manager m has these buckets, none of them empty, and this index; it has
\* told the sessions D to go, each once.
Shows(m, buckets, index, D) ==
  /\ m.inMap = {u \in UUID : buckets[u] # {}}
  /\ \A u \in m.inMap : m.contents[u] = buckets[u]
  /\ m.indexed = index
  /\ m.calls = [c \in Conn |-> IF c \in D THEN 1 ELSE 0]
  /\ ~m.due

\* However its calls nest, and in whatever order its Maps list their entries,
\* the manager comes out of a check, a registration and the close of a bridge
\* as the steps of Connections say: every stale or replaced session is told to
\* go exactly once and nobody else is, no bucket or index entry is left behind,
\* and the cleanup is over (uuid-manager.ts:287-369).
ReentrantCallsAgree ==
  \A order \in Order :
    /\ Shows(MaybeCleanUp(Manager, order),
             [v \in UUID |-> Bucket(v)], IndexedWithout(Stale), Stale)
    /\ \A c \in {d \in Conn : phase[d] = "dialing"} :
         LET u  == uuidOf[c]
             ip == ipOf[c]
             D  == Replaced(u, ip)
         IN  Shows(Register(Manager, u, ip, c, order),
                   [v \in UUID |-> IF v = u THEN BucketWith(c, u, ip) ELSE Bucket(v)],
                   IndexedWithout(D) \cup (IF Full(u, ip) THEN {} ELSE {c}), D)
    /\ \A c \in Bridged :
         LET D == Stale \cup {c}
         IN  Shows(Unregister([Manager EXCEPT !.closed = {c}], uuidOf[c], c, order),
                   [v \in UUID |-> Untracked(D, v)], IndexedWithout(D), Stale)
=============================================================================
