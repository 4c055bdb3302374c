------------------------ MODULE MC_UnboundedStress ------------------------
(* Model-checking instance of UnboundedStress.                             *)
EXTENDS UnboundedStress

MCTests == {"set", "list", "hash", "zset"}

\* For each test, lengths at which its halving leaves a non-empty key
\* (set/hash: length >= 2, list: length >= 4), odd and even; for testZSet
\* those where zcard = length/2 is even (4, 5, 8, 9).
MCLengths == [t \in MCTests |->
                 CASE t = "set"  -> 2..5
                   [] t = "hash" -> 2..5
                   [] t = "list" -> 4..7
                   [] t = "zset" -> {4, 5, 8, 9}]

\* testZSet with length 6: zcard = 3 after the ZREM loop.
MCZSetTests == {"zset"}
MCZSetOddLengths == [t \in MCZSetTests |-> {6}]
=============================================================================
