--------------------------- MODULE MCDetachedRound ---------------------------
(* TLC instance of DetachedRound: weighted selection, probes that work. *)
EXTENDS DetachedRound

MCConfigs == {<<FALSE, {}>>}
=============================================================================
