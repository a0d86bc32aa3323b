------------------------------ MODULE LruCache ------------------------------
(***************************************************************************)
(* What a cache with a time to live, a bound on its entries and a bound on *)
(* their bytes promises, without saying how it keeps its order or when it  *)
(* looks for expired entries: keys in order of their last use, of which    *)
(* the longest stretch that fits stays.                                    *)
(***************************************************************************)
EXTENDS Lists, SequencesExt

CONSTANTS Key, Response, Size, None,
          MaxEntries, MaxBytes, Ttl

VARIABLES
  now,
  recent,   \* the keys, last used first
  entry,    \* entry[k]: [expiresAt, response, sizeBytes] of the keys in recent
  answer    \* what the last lookup found, None for nothing

vars == <<now, recent, entry, answer>>

Expired == {k \in ToSet(recent) : entry[k].expiresAt <= now}

\* The bytes of the first n keys of s.
BytesOf(s, e, n) == Total([i \in 1..n |-> e[s[i]].sizeBytes])
Fits(s, e, n) == n <= MaxEntries /\ BytesOf(s, e, n) <= MaxBytes
LongestFitting(s, e) ==
  SubSeq(s, 1, Max({n \in 0..Len(s) : Fits(s, e, n)}))

Becomes(s, e) ==
  /\ recent' = s
  /\ entry' = [k \in ToSet(s) |-> e[k]]

Init ==
  /\ now = 0
  /\ recent = <<>>
  /\ entry = [k \in {} |-> 0]
  /\ answer = None

\* Expired entries may be forgotten whenever the cache is used.
Lookup(k) ==
  \E D \in SUBSET Expired :
    LET others == Without(recent, D \cup {k})
        found  == k \in ToSet(recent) \ Expired
    IN  /\ Becomes(IF found THEN <<k>> \o others ELSE others, entry)
        /\ answer' = IF found THEN entry[k].response ELSE None
        /\ UNCHANGED now

Store(k, response, size) ==
  \E D \in SUBSET Expired :
    LET others == Without(recent, D \cup {k})
        added  == [expiresAt |-> now + Ttl, response |-> response, sizeBytes |-> size]
        e      == [j \in ToSet(recent) \cup {k} |-> IF j = k THEN added ELSE entry[j]]
    IN  /\ Becomes(IF size > MaxBytes THEN others
                   ELSE LongestFitting(<<k>> \o others, e), e)
        /\ answer' = None
        /\ UNCHANGED now

\* Time passes, perhaps too little of it to be counted.
Pass ==
  /\ now' \in {now, now + 1}
  /\ answer' = None
  /\ UNCHANGED <<recent, entry>>

Next ==
  \/ \E k \in Key : \/ Lookup(k)
                    \/ \E response \in Response, size \in Size : Store(k, response, size)
  \/ Pass

Spec == Init /\ [][Next]_vars
=============================================================================
