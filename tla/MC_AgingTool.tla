--------------------------- MODULE MC_AgingTool ---------------------------
(* Two routines and a count argument of 11, so that count /= routines       *)
(* truncates (5 keys each, ids 0..9 take in multiples of 2, 3, 4 and 8      *)
(* besides 0); a TTL of two ticks, and two ticks of slack for the time the  *)
(* routines take; one rerun after a log.Fatal, with the clock it needs.    *)
EXTENDS AgingTool

\* The sleeps of a whole run of setupExpire: one per expire pass, one after
\* the delete pass.
RunSleeps == Cardinality({1, 2, 4, 8}) + 1

MCMaxNow == (MaxRestarts + 1) * RunSleeps * Expire + MaxDrift

=============================================================================
