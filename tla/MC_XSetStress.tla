--------------------------- MODULE MC_XSetStress ---------------------------
(* Instantiation of XSetStress for TLC: two goroutines, LENGTH appends of  *)
(* which enough exceed MAXLEN for the store to reach 2*MAXLEN and trim.    *)
EXTENDS XSetStress

\* A key left behind by an earlier, aborted run, or no key at all.
MCStaleSets == {{}, {0, 1}}

=============================================================================
