----------------------------- MODULE MCFailover -----------------------------
(* TLC instances of Failover: the configurations of the backends, as pairs  *)
(* <<sticky selection, backends whose URLs cannot be probed>>.              *)
EXTENDS Failover, TLC

\* Weighted and sticky selection with probes that work, then backends none of
\* which can be probed, and a list in which only the first one can.
MCConfigs == {<<FALSE, {}>>, <<TRUE, {}>>, <<FALSE, {0, 1}>>, <<TRUE, {1}>>}

\* For the liveness properties, which do not depend on how a backend is drawn.
MCLiveConfigs == {<<FALSE, {}>>, <<FALSE, {0, 1}>>}

\* Requests are interchangeable.
Symmetry == Permutations(Request)
=============================================================================
