------------------------- MODULE SubscriptionCache -------------------------
(***************************************************************************)
(* SubscriptionCache (src/src/subscription/cache.ts): a map beside a       *)
(* doubly linked list, most recent node first, with the bytes counted by   *)
(* hand.  A cache is a record of its fields; the methods are functions     *)
(* from cache to cache at a time t.  There is one node per key, so a node  *)
(* is named by its key.                                                    *)
(*                                                                         *)
(* An entry's size is the content-length of its response, which the proxy  *)
(* always sets (proxy.ts:300, index.ts:81).                                *)
(***************************************************************************)
EXTENDS Integers, FiniteSets, Functions

CONSTANTS Key,
          Null,             \* no node
          MaxEntries,
          MaxBytes,
          Ttl,              \* ttlMs
          CleanupInterval   \* CLEANUP_INTERVAL_MS

ASSUME CacheAssumption ==
  /\ Null \notin Key
  /\ MaxEntries \in Nat \ {0}
  /\ MaxBytes \in Nat \ {0}
  /\ Ttl \in Nat \ {0}
  /\ CleanupInterval \in Nat \ {0}

CleanupPeriod == IF Ttl <= CleanupInterval THEN Ttl ELSE CleanupInterval

EmptyCache(t) ==
  [nodesByKey |-> [k \in {} |-> 0],   \* key -> [expiresAt, response, sizeBytes]
   head |-> Null, tail |-> Null,
   prev |-> [k \in Key |-> Null], next |-> [k \in Key |-> Null],
   totalBytes |-> 0,
   nextCleanupAt |-> t + CleanupPeriod]

Has(c, k) == k \in DOMAIN c.nodesByKey
IsExpired(c, k, t) == c.nodesByKey[k].expiresAt <= t

-----------------------------------------------------------------------------
(* The list *)

\* Mutant: the node after k still points back at k.
Detach_KeepsPrev(c, k) ==
  LET p == c.prev[k]
      n == c.next[k]
  IN  [c EXCEPT !.head = IF p = Null THEN n ELSE @,
                !.tail = IF n = Null THEN p ELSE @,
                !.next = [j \in Key |-> IF j = k THEN Null ELSE IF j = p THEN n ELSE @[j]],
                !.prev = [@ EXCEPT ![k] = Null]]

Detach(c, k) ==
  LET p == c.prev[k]
      n == c.next[k]
  IN  [c EXCEPT !.head = IF p = Null THEN n ELSE @,
                !.tail = IF n = Null THEN p ELSE @,
                !.next = [j \in Key |-> IF j = k THEN Null ELSE IF j = p THEN n ELSE @[j]],
                !.prev = [j \in Key |-> IF j = k THEN Null ELSE IF j = n THEN p ELSE @[j]]]

InsertAtHead(c, k) ==
  LET h == c.head
  IN  [c EXCEPT !.head = k,
                !.tail = IF @ = Null THEN k ELSE @,
                !.next = [@ EXCEPT ![k] = h],
                !.prev = [j \in Key |-> IF j = k THEN Null ELSE IF j = h THEN k ELSE @[j]]]

\* Mutant: a hit does not count as a use.
MoveToHead_Not(c, k) == c

MoveToHead(c, k) == IF c.head = k THEN c ELSE InsertAtHead(Detach(c, k), k)

\* Mutant: the bytes of the node are not given back.
RemoveNode_KeepsBytes(c, k) ==
  [Detach(c, k) EXCEPT !.nodesByKey = Restrict(@, DOMAIN @ \ {k})]

RemoveNode(c, k) ==
  LET left == c.totalBytes - c.nodesByKey[k].sizeBytes
  IN  [Detach(c, k) EXCEPT !.nodesByKey = Restrict(@, DOMAIN @ \ {k}),
                           !.totalBytes = IF left >= 0 THEN left ELSE 0]

Forget(c, k) == IF Has(c, k) THEN RemoveNode(c, k) ELSE c

-----------------------------------------------------------------------------
(* The methods *)

\* A turn of the first loop of cleanup: the node is looked at, and left for
\* the one before it, which was read first.
LookAt(loop, t) ==
  LET c == loop.cache
      k == loop.current
  IN  IF k = Null THEN loop
      ELSE [cache   |-> IF IsExpired(c, k, t) THEN RemoveNode(c, k) ELSE c,
            current |-> c.prev[k]]

\* That loop, from the tail to the head; it has a turn for each node.
RemoveExpired(c, t) ==
  LET turns == Cardinality(DOMAIN c.nodesByKey)
      after[n \in 0..turns] ==
        IF n = 0 THEN [cache |-> c, current |-> c.tail] ELSE LookAt(after[n - 1], t)
  IN  after[turns].cache

\* Mutant: only the number of entries is bounded.
OverLimit_EntriesOnly(c) == Cardinality(DOMAIN c.nodesByKey) > MaxEntries

OverLimit(c) ==
  \/ Cardinality(DOMAIN c.nodesByKey) > MaxEntries
  \/ c.totalBytes > MaxBytes

Evict(c) == IF OverLimit(c) /\ c.tail # Null THEN RemoveNode(c, c.tail) ELSE c

\* Each turn that does something removes a node.
EvictIfNeeded(c) ==
  LET turns == Cardinality(DOMAIN c.nodesByKey)
      after[n \in 0..turns] == IF n = 0 THEN c ELSE Evict(after[n - 1])
  IN  after[turns]

\* maybeCleanup, cleanup
MaybeCleanup(c, t) ==
  IF t < c.nextCleanupAt THEN c
  ELSE [EvictIfNeeded(RemoveExpired(c, t)) EXCEPT !.nextCleanupAt = t + CleanupPeriod]

\* Mutant: get does not look at the expiry, the cleanup will do.
Hit_Expired(c, k, t) == Has(c, k)

\* get finds k, after its maybeCleanup.
Hit(c, k, t) == Has(c, k) /\ ~IsExpired(c, k, t)

Get(c, k, t) ==
  LET cleaned == MaybeCleanup(c, t)
  IN  IF Hit(cleaned, k, t) THEN MoveToHead(cleaned, k) ELSE Forget(cleaned, k)

Set(c, k, response, size, t) ==
  LET room  == Forget(MaybeCleanup(c, t), k)
      entry == [expiresAt |-> t + Ttl, response |-> response, sizeBytes |-> size]
      added == [InsertAtHead(room, k) EXCEPT
                  !.nodesByKey = [j \in DOMAIN @ \cup {k} |-> IF j = k THEN entry ELSE @[j]],
                  !.totalBytes = @ + size]
  IN  IF size > MaxBytes THEN room ELSE EvictIfNeeded(added)
=============================================================================
