--------------------------- MODULE MC_StressMain ---------------------------
(* The tests slice of Test(), by the names their createNamespace calls     *)
(* use, in the slice's order.                                              *)
EXTENDS StressMain

MCTestOrder == <<"set", "list", "hash", "zset", "xset", "oset">>

=============================================================================
