---------------------------- MODULE Connections ----------------------------
(***************************************************************************)
(* The life of upgraded connections: admission in index.ts, the tracking   *)
(* of UUIDConnectionManager (src/src/uuid-manager.ts), the concurrent gate *)
(* of the rate limiter, and the bridge whose closing gives both back       *)
(* (src/src/utils/socket.ts).                                              *)
(*                                                                         *)
(* Between admission and registration a request awaits its backend, so     *)
(* other requests come in between.  registerConnection runs inside         *)
(* bridgeSockets, and disconnecting a session from there closes its bridge *)
(* and runs its release closure before registerConnection goes on: that    *)
(* re-entrance is part of the step, and Reentrance unrolls it.  The token  *)
(* bucket of the limiter is the subject of RateLimiter; here only its      *)
(* concurrent gate is kept.                                                *)
(*                                                                         *)
(* No bucket stays in bucketsByUuid while empty, so an absent bucket and   *)
(* an empty set are one thing here; byIp is read off the connections.      *)
(***************************************************************************)
EXTENDS Integers, FiniteSets

CONSTANTS Conn, UUID, IP,
          NoUuid, NoIp,     \* of a connection that does not exist
          MaxConnections,   \* UUID_MAX_CONNECTIONS
          MaxConnPerIp      \* RATE_LIMIT_MAX_CONN_PER_IP

ASSUME ConnectionsAssumption ==
  /\ MaxConnections \in Nat \ {0}
  /\ MaxConnPerIp \in Nat \ {0}
  /\ NoUuid \notin UUID
  /\ NoIp \notin IP
  /\ IsFiniteSet(Conn)

VARIABLES
  phase,        \* phase[c]: "free", "dialing" a backend, "bridged"
  uuidOf, ipOf, \* of the request behind c
  tracked,      \* tracked[u]: the bucket of u in bucketsByUuid
  indexed,      \* the keys of uuidByConnectionId
  active,       \* active[ip]: activeConnectionIds of the limiter
  old,          \* bridged connections of UUID_ENTRY_STALE_MS and more
  cleanupDue    \* now >= nextCleanupAt of the UUID manager

vars == <<phase, uuidOf, ipOf, tracked, indexed, active, old, cleanupDue>>

Bridged == {c \in Conn : phase[c] = "bridged"}

-----------------------------------------------------------------------------
(* Helpers *)

\* What maybeCleanup disconnects: the stale entries of every bucket.
Stale == IF cleanupDue THEN old \cap UNION {tracked[u] : u \in UUID} ELSE {}

\* The bucket of u as a method finds it after its maybeCleanup.
Bucket(u) == tracked[u] \ Stale

SameIp(u, ip) == {d \in Bucket(u) : ipOf[d] = ip}

\* checkConnectionAllowed of the UUID manager
UuidAllowed(u, ip) ==
  \/ Cardinality(Bucket(u)) < MaxConnections
  \/ SameIp(u, ip) # {}

\* Mutant: off by one at the concurrent gate.
IpAllowed_OffByOne(ip) == Cardinality(active[ip] \ Stale) <= MaxConnPerIp

\* checkConnectionAllowed of the limiter, as far as it is kept here
IpAllowed(ip) == Cardinality(active[ip] \ Stale) < MaxConnPerIp

\* Mutant: the connection id stays in uuidByConnectionId.
IndexedWithout_Leak(D) == indexed

ActiveWithout(D) == [ip \in IP |-> active[ip] \ D]
IndexedWithout(D) == indexed \ D

\* The bridges of D are closed: their sockets go away.
Gone(D) ==
  /\ uuidOf' = [c \in Conn |-> IF c \in D THEN NoUuid ELSE uuidOf[c]]
  /\ ipOf' = [c \in Conn |-> IF c \in D THEN NoIp ELSE ipOf[c]]
  /\ old' = old \ D

PhaseWithout(D) == [c \in Conn |-> IF c \in D THEN "free" ELSE phase[c]]

-----------------------------------------------------------------------------
(* Actions *)

Init ==
  /\ phase = [c \in Conn |-> "free"]
  /\ uuidOf = [c \in Conn |-> NoUuid]
  /\ ipOf = [c \in Conn |-> NoIp]
  /\ tracked = [u \in UUID |-> {}]
  /\ indexed = {}
  /\ active = [ip \in IP |-> {}]
  /\ old = {}
  /\ cleanupDue = FALSE

\* An upgrade request with UUID u arrives from ip and passes both gates
\* (index.ts:628-650); it then dials its backend.
Accept(c, u, ip) ==
  /\ phase[c] = "free"
  /\ UuidAllowed(u, ip)
  /\ IpAllowed(ip)
  /\ phase' = [PhaseWithout(Stale) EXCEPT ![c] = "dialing"]
  /\ uuidOf' = [d \in Conn |-> IF d = c THEN u ELSE IF d \in Stale THEN NoUuid ELSE uuidOf[d]]
  /\ ipOf' = [d \in Conn |-> IF d = c THEN ip ELSE IF d \in Stale THEN NoIp ELSE ipOf[d]]
  /\ active' = [ActiveWithout(Stale) EXCEPT ![ip] = @ \cup {c}]
  /\ tracked' = [v \in UUID |-> Bucket(v)]
  /\ indexed' = IndexedWithout(Stale)
  /\ old' = old \ Stale
  /\ cleanupDue' = FALSE

\* The request is turned away: with 403 by the UUID manager (index.ts:351-359,
\* 632), or with 429 by the limiter.
Deny(u, ip) ==
  /\ ~(UuidAllowed(u, ip) /\ IpAllowed(ip))
  /\ phase' = PhaseWithout(Stale)
  /\ Gone(Stale)
  /\ active' = ActiveWithout(Stale)
  /\ tracked' = [v \in UUID |-> Bucket(v)]
  /\ indexed' = IndexedWithout(Stale)
  /\ cleanupDue' = FALSE

\* Replacing the only sessions of a bucket runs their release closures, and
\* the last of these deletes the bucket from the map (uuid-manager.ts:271)
\* while registerConnection still holds it and adds the new session to it.
Orphaned(u, ip) == SameIp(u, ip) # {} /\ Bucket(u) = SameIp(u, ip)

Rest(u, ip) == Bucket(u) \ SameIp(u, ip)

\* Mutant: a bucket that filled up during the dial is not looked at again.
Full_Unchecked(u, ip) == FALSE

\* Others came in while this request dialled (uuid-manager.ts:201).
Full(u, ip) == Cardinality(Rest(u, ip)) >= MaxConnections

BucketWith(c, u, ip) ==
  IF Orphaned(u, ip) \/ Full(u, ip) THEN Rest(u, ip) ELSE Rest(u, ip) \cup {c}

\* Mutant: the sessions of the same IP are left alone.
Replaced_Nobody(u, ip) == Stale

\* Sessions that registerConnection disconnects.
Replaced(u, ip) == Stale \cup SameIp(u, ip)

\* The backend answers 101: bridgeSockets sets up the relay and calls
\* onConnectionReady, which registers the connection (index.ts:663-682).
Bridge(c) ==
  /\ phase[c] = "dialing"
  /\ LET u  == uuidOf[c]
         ip == ipOf[c]
         D  == Replaced(u, ip)
     IN  /\ phase' = [PhaseWithout(D) EXCEPT ![c] = "bridged"]
         /\ Gone(D)
         /\ active' = ActiveWithout(D)
         /\ tracked' = [v \in UUID |-> IF v = u THEN BucketWith(c, u, ip) ELSE Bucket(v)]
         /\ indexed' = IndexedWithout(D) \cup (IF Full(u, ip) THEN {} ELSE {c})
  /\ cleanupDue' = FALSE

\* Mutant: the entry of a closed connection stays in its bucket.
Untracked_Forgets(D, u) == Bucket(u)

Untracked(D, u) == Bucket(u) \ D

\* A socket of the bridge closes or fails: closeBoth, then the release
\* closure (index.ts:638-641) unregisters with the limiter and the manager.
Close(c) ==
  /\ phase[c] = "bridged"
  /\ LET D == Stale \cup {c}
     IN  /\ phase' = PhaseWithout(D)
         /\ Gone(D)
         /\ active' = ActiveWithout(D)
         /\ tracked' = [v \in UUID |-> Untracked(D, v)]
         /\ indexed' = IndexedWithout(D)
  /\ cleanupDue' = FALSE

\* Every attempt failed: the response is not 101 (index.ts:695-702), and only
\* the limiter had been told of the connection.
DialFails(c) ==
  /\ phase[c] = "dialing"
  /\ phase' = PhaseWithout({c})
  /\ Gone({c})
  /\ active' = ActiveWithout({c})
  /\ UNCHANGED <<tracked, indexed, cleanupDue>>

\* Time passes for a connection, and for the manager.
GrowOld(c) ==
  /\ phase[c] = "bridged" /\ c \notin old
  /\ old' = old \cup {c}
  /\ UNCHANGED <<phase, uuidOf, ipOf, tracked, indexed, active, cleanupDue>>

IntervalElapsed ==
  /\ ~cleanupDue
  /\ cleanupDue' = TRUE
  /\ UNCHANGED <<phase, uuidOf, ipOf, tracked, indexed, active, old>>

Next ==
  \/ \E c \in Conn : \/ \E u \in UUID, ip \in IP : Accept(c, u, ip)
                     \/ Bridge(c)
                     \/ Close(c)
                     \/ DialFails(c)
                     \/ GrowOld(c)
  \/ \E u \in UUID, ip \in IP : Deny(u, ip)
  \/ IntervalElapsed

Spec == Init /\ [][Next]_vars

-----------------------------------------------------------------------------
(* Properties *)

\* Types; and uuidByConnectionId names no connection that is gone.
TypeOK ==
  /\ phase \in [Conn -> {"free", "dialing", "bridged"}]
  /\ uuidOf \in [Conn -> UUID \cup {NoUuid}]
  /\ ipOf \in [Conn -> IP \cup {NoIp}]
  /\ tracked \in [UUID -> SUBSET Conn]
  /\ active \in [IP -> SUBSET Conn]
  /\ indexed \subseteq Bridged
  /\ old \subseteq Bridged
  /\ cleanupDue \in BOOLEAN

\* A bucket holds no ghost: its entries are live sessions of its UUID, so
\* nobody is refused on account of a session that is gone.
TrackedAreLive ==
  \A u \in UUID : \A c \in tracked[u] : phase[c] = "bridged" /\ uuidOf[c] = u

\* What the manager tracks respects the cap, although it is checked before
\* the dial and the session is registered after it.
TrackedWithinCap == \A u \in UUID : Cardinality(tracked[u]) <= MaxConnections

\* The manager never tracks two sessions of one UUID from one IP.
OneTrackedPerIp ==
  \A u \in UUID : \A c, d \in tracked[u] : ipOf[c] = ipOf[d] => c = d

\* The limiter counts a client's connections from admission to the end of the
\* bridge, on every path: failed dials, closes, replaced and stale sessions;
\* and there are never more than maxConnPerIp of them.
SlotsAreExact ==
  \A ip \in IP :
    /\ active[ip] = {c \in Conn : phase[c] # "free" /\ ipOf[c] = ip}
    /\ Cardinality(active[ip]) <= MaxConnPerIp

\* A session that is bridged replaces the one the manager tracks for the same
\* UUID and IP: that one is closed in the same step.
TrackedIsReplaced ==
  [][\A c, d \in Conn :
       /\ phase[c] = "dialing" /\ phase'[c] = "bridged"
       /\ d \in tracked[uuidOf[c]] /\ ipOf[d] = ipOf[c]
       => phase'[d] = "free"]_vars

\* uuid-manager.ts:167 "Registers a UUID connection and replaces existing
\* same-IP sessions": a UUID has one live session per IP.
SameIpReplaced ==
  \A c, d \in Bridged : uuidOf[c] = uuidOf[d] /\ ipOf[c] = ipOf[d] => c = d

\* docs/configuration.md on UUID_MAX_CONNECTIONS, "Maximum active connections
\* per UUID": the live sessions of a UUID respect the cap.
LiveWithinCap ==
  \A u \in UUID : Cardinality({c \in Bridged : uuidOf[c] = u}) <= MaxConnections
=============================================================================
