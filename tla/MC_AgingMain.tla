--------------------------- MODULE MC_AgingMain ---------------------------
(* Four of the eight entries of the tests map: enough for the range loop   *)
(* to move on while earlier goroutines have not yet started.              *)
EXTENDS AgingMain

MCNamespaces == {"str", "int", "set", "list"}

=============================================================================
