---------------------------- MODULE Subscription ----------------------------
(***************************************************************************)
(* Requests going through handleSubscriptionRequest                        *)
(* (src/src/subscription/index.ts) over one SubscriptionCache.  A request  *)
(* looks its key up and, on a miss, awaits proxySubscriptionRequest        *)
(* (proxy.ts), which gives up after SUBSCRIPTION_TIMEOUT_MS; the answer is *)
(* stored if it is a 200.  Nothing keeps two requests from missing the     *)
(* same key together, and their answers come back in any order.            *)
(*                                                                         *)
(* A response is told apart by the time at which the origin gave it and by *)
(* the text that was read; of domain preservation and the transform only   *)
(* the growth of the text is modelled, which makes the cached response     *)
(* larger than the one that was read.                                      *)
(***************************************************************************)
EXTENDS SubscriptionCache, BodyReader, Lists, SequencesExt

CONSTANTS Request,    \* slots for requests under way at once
          Timeout,    \* SUBSCRIPTION_TIMEOUT_MS
          Bodies,     \* bodies of 200 responses, see BodyReader
          Growth,     \* bytes that rewriting adds
          MaxTime     \* bound of the clock

\* A response that declares a length of 0 has no body to read.
ASSUME SubscriptionAssumption ==
  /\ Timeout \in Nat
  /\ Growth \subseteq Nat
  /\ MaxTime \in Nat
  /\ \A body \in Bodies : /\ body.declared \in Nat \cup {NoLength}
                          /\ body.chunks \in Seq(Seq(Nat))
                          /\ body.declared = 0 => body.chunks = <<>>

VARIABLES
  now,
  cache,
  wanted,    \* wanted[r]: the key whose answer r awaits, or Null
  sentAt,    \* sentAt[r]: when it asked the origin
  answer     \* observer: what the lookup of this step found, or Null

vars == <<now, cache, wanted, sentAt, answer>>

Texts    == {Text(body) : body \in {b \in Bodies : IsRead(b)}}
Sizes    == {Len(text) + more : text \in Texts, more \in Growth}
Response == [asOf : 0..MaxTime, text : Texts]

Init ==
  /\ now = 0
  /\ cache = EmptyCache(0)
  /\ wanted = [r \in Request |-> Null]
  /\ sentAt = [r \in Request |-> 0]
  /\ answer = Null

\* A request for k arrives: it is served from the cache, or asks the origin.
Arrive(r, k) ==
  /\ wanted[r] = Null
  /\ cache' = Get(cache, k, now)
  /\ LET cleaned == MaybeCleanup(cache, now)
     IN  IF Hit(cleaned, k, now)
         THEN /\ answer' = cleaned.nodesByKey[k].response
              /\ UNCHANGED <<wanted, sentAt>>
         ELSE /\ answer' = Null
              /\ wanted' = [wanted EXCEPT ![r] = k]
              /\ sentAt' = [sentAt EXCEPT ![r] = now]
  /\ UNCHANGED now

Finish(r) ==
  /\ wanted' = [wanted EXCEPT ![r] = Null]
  /\ sentAt' = [sentAt EXCEPT ![r] = 0]
  /\ answer' = Null
  /\ UNCHANGED now

\* A 200 has been read and rewritten; the origin gave it some time after it
\* was asked.  The transform's await of response.text() (index.ts:78) is part
\* of the step: it reads a body that is in memory and waits for nobody.
Succeed(r) ==
  /\ wanted[r] # Null
  /\ \E asOf \in sentAt[r]..now, text \in Texts, more \in Growth :
       cache' = Set(cache, wanted[r], [asOf |-> asOf, text |-> text], Len(text) + more, now)
  /\ Finish(r)

\* Another status, an error, a body over the limit, or the timeout.
Fail(r) ==
  /\ wanted[r] # Null
  /\ UNCHANGED cache
  /\ Finish(r)

\* Mutant: the timer is cleared once the headers are there.
InTime_HeadersOnly(r) == TRUE

\* The timer of a request covers the reading of the body too, and fires
\* before the clock passes it.
InTime(r) == wanted[r] # Null => now < sentAt[r] + Timeout

Tick ==
  /\ now < MaxTime
  /\ \A r \in Request : InTime(r)
  /\ now' = now + 1
  /\ answer' = Null
  /\ UNCHANGED <<cache, wanted, sentAt>>

Next ==
  \/ \E r \in Request : (\E k \in Key : Arrive(r, k)) \/ Succeed(r) \/ Fail(r)
  \/ Tick

Spec == Init /\ [][Next]_vars

-----------------------------------------------------------------------------
(* Properties *)

\* The keys from `start` on, following the links `by`; one more than there
\* are nodes, so that a list that has become a circle shows.
Chain(by, start) ==
  LET nodes == Cardinality(DOMAIN cache.nodesByKey)
      at[n \in 0..nodes] ==
        IF n = 0 THEN start ELSE LET k == at[n - 1] IN IF k = Null THEN Null ELSE by[k]
  IN  Without([n \in 1..(nodes + 1) |-> at[n - 1]], {Null})

ByUse == Chain(cache.next, cache.head)

BytesHeld == Total([i \in 1..Len(ByUse) |-> cache.nodesByKey[ByUse[i]].sizeBytes])

\* Types of the cache and of the requests.
TypeOK ==
  /\ now \in 0..MaxTime
  /\ DOMAIN cache.nodesByKey \subseteq Key
  /\ \A k \in DOMAIN cache.nodesByKey :
       cache.nodesByKey[k] \in [expiresAt : Nat, response : Response, sizeBytes : Sizes]
  /\ {cache.head, cache.tail} \subseteq Key \cup {Null}
  /\ cache.prev \in [Key -> Key \cup {Null}]
  /\ cache.next \in [Key -> Key \cup {Null}]
  /\ cache.totalBytes \in 0..MaxBytes
  /\ cache.nextCleanupAt \in Nat
  /\ wanted \in [Request -> Key \cup {Null}]
  /\ sentAt \in [Request -> 0..MaxTime]
  /\ answer \in Response \cup {Null}

\* Map and list hold the same nodes, each once, and the list reads the same
\* from both ends, after any mix of hits, overwrites, expiries and evictions.
ListIsSound ==
  /\ ToSet(ByUse) = DOMAIN cache.nodesByKey
  /\ IsInjective(ByUse)
  /\ Chain(cache.prev, cache.tail) = Reverse(ByUse)

\* The bytes counted by hand are the bytes held; so they cannot drift until
\* the cache evicts for nothing, or grows past its limit.
BytesAreExact == cache.totalBytes = BytesHeld

\* The pointers, loops and counters of the code cannot be told from a list of
\* keys in order of use, cut to the longest stretch that fits.
Lru == INSTANCE LruCache WITH
  Size   <- Sizes,
  None   <- Null,
  recent <- ByUse,
  entry  <- cache.nodesByKey

ImplementsLru == Lru!Spec

\* Whatever its chunks and the length it declared, a text in the cache is
\* whole and within the limit: the buffer loses nothing when it grows, and no
\* part of a refused body is kept.
CachedAreWhole ==
  \A k \in DOMAIN cache.nodesByKey :
    LET text == cache.nodesByKey[k].response.text
    IN  /\ Len(text) <= MaxResponseSize
        /\ \E body \in Bodies : text = FlattenSeq(body.chunks)

\* What is served from the cache was given by the origin less than the time
\* to live and the timeout of its request ago, although it is stored, and its
\* time counted, from the moment at which it has been read.
ServedIsRecent == answer # Null => now - answer.asOf < Ttl + Timeout

\* Two requests that missed together answer in any order; the later one may
\* put an older answer in place of a newer one, but not one that is older by
\* more than the timeout.
NoLongStepBack ==
  [][\A k \in DOMAIN cache.nodesByKey \cap DOMAIN cache'.nodesByKey :
       cache'.nodesByKey[k].response.asOf
         >= cache.nodesByKey[k].response.asOf - Timeout]_vars
=============================================================================
