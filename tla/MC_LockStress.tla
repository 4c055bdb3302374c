--------------------------- MODULE MC_LockStress ---------------------------
(* Instantiation of LockStress for TLC; the constants are in the cfgs.     *)
EXTENDS LockStress

=============================================================================
