--------------------------- MODULE MC_OSetStress ---------------------------
(* Instantiation of OSetStress for TLC.                                     *)
EXTENDS OSetStress

\* A key left behind by an earlier, aborted run, or no key at all.
MCStaleSets == {{}, {0, 1}}

=============================================================================
