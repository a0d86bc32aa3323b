---------------------------- MODULE TokenBucket ----------------------------
(***************************************************************************)
(* What ConnectionRateLimiter promises, without saying how it keeps time.  *)
(* Every client IP owns a bucket that fills as the clock advances, and a   *)
(* connection is admitted only when a whole token is there and the IP      *)
(* holds fewer than MaxConnPerIp connections.  RateLimiter.tla refills     *)
(* lazily and forgets idle clients; it is shown to implement this module.  *)
(*                                                                         *)
(* Amounts are counted in units of 1/OneMinute of a token, so that the     *)
(* refill of one clock tick, MaxConnPerMin units, is a whole number.       *)
(***************************************************************************)
EXTENDS Integers, FiniteSets

CONSTANTS IP, Conn,
          MaxConnPerIp,     \* concurrent gate
          MaxConnPerMin,    \* rate gate, and capacity of a bucket
          OneMinute,        \* clock ticks in a minute
          MaxTime           \* bound of the clock

\* RateLimiter, which instantiates this module, states what is assumed of them.

VARIABLES
  now,          \* the clock
  level,        \* level[ip]: units in the bucket of ip
  holders,      \* holders[ip]: connections ip has open
  windowStart,  \* observer: when the current window of observation began
  accepted      \* observer: accepted[ip] connections admitted since then

vars == <<now, level, holders, windowStart, accepted>>

Token    == OneMinute
Capacity == MaxConnPerMin * OneMinute
AtMostCapacity(n) == IF n <= Capacity THEN n ELSE Capacity

Init ==
  /\ now = 0
  /\ level = [ip \in IP |-> Capacity]
  /\ holders = [ip \in IP |-> {}]
  /\ windowStart = 0
  /\ accepted = [ip \in IP |-> 0]

Tick ==
  /\ now < MaxTime
  /\ now' = now + 1
  /\ level' = [ip \in IP |-> AtMostCapacity(level[ip] + MaxConnPerMin)]
  /\ UNCHANGED <<holders, windowStart, accepted>>

Admit(ip, c) ==
  /\ \A i \in IP : c \notin holders[i]
  /\ Cardinality(holders[ip]) < MaxConnPerIp
  /\ level[ip] >= Token
  /\ level' = [level EXCEPT ![ip] = @ - Token]
  /\ holders' = [holders EXCEPT ![ip] = @ \cup {c}]
  /\ accepted' = [accepted EXCEPT ![ip] = @ + 1]
  /\ UNCHANGED <<now, windowStart>>

Release(ip, c) ==
  /\ c \in holders[ip]
  /\ holders' = [holders EXCEPT ![ip] = @ \ {c}]
  /\ UNCHANGED <<now, level, windowStart, accepted>>

\* The observer may start counting afresh at any moment.
OpenWindow ==
  /\ windowStart' = now
  /\ accepted' = [ip \in IP |-> 0]
  /\ UNCHANGED <<now, level, holders>>

Next ==
  \/ Tick
  \/ \E ip \in IP, c \in Conn : Admit(ip, c) \/ Release(ip, c)
  \/ OpenWindow

Spec == Init /\ [][Next]_vars
=============================================================================
