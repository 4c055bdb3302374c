-------------------------- MODULE UnboundedStress --------------------------
(***************************************************************************)
(* testSet (205-280), testList (305-395), testHash (410-518) and testZSet  *)
(* (537-657) of src/units/stress/stress_test.go.  Each spawns COUNT        *)
(* goroutines, each on its own key, that write members 0..length-1 and     *)
(* read the key back after every write, then remove the upper half (and,   *)
(* for the list and the zset, a further quarter) and check what is left,   *)
(* delete the key and signal.  The test function and its length are       *)
(* chosen in Init, so one run covers every test and length given.          *)
(*                                                                         *)
(* The keys are exclusive to a goroutine and the store is atomic per       *)
(* command, so the read-backs of one loop round form one action: nothing   *)
(* can change the key between them.  Each write and each removal is an     *)
(* action of its own.  A failed assertion is recorded in "failed"; a nil   *)
(* or short reply panics and sets "aborted".                               *)
(***************************************************************************)
EXTENDS Integers, FiniteSets, Sequences

CONSTANTS
    Workers,   \* the goroutines (one key each)
    Tests,     \* the test functions to explore: "set", "list", "hash", "zset"
    Lengths    \* Lengths[t]: the values of length to explore for test t

ASSUME Tests \subseteq {"set", "list", "hash", "zset"}
ASSUME \A t \in Tests : Lengths[t] \subseteq Nat \ {0}

AllLengths == UNION {Lengths[t] : t \in Tests}
MaxLength == CHOOSE l \in AllLengths : \A m \in AllLengths : m <= l
Members == 0..(MaxLength - 1)

VARIABLES
    counter, list, hash, set, zset,  \* the store (CollectionStore)
    test,      \* the test function: testSet, testList, testHash or testZSet
    length,    \* its length argument
    mainPc,    \* the caller
    recv,      \* signals received from "done"
    pc,        \* pc[w]: the call goroutine w makes next
    j,         \* j[w]: the write loop index
    card,      \* card[w]: scard / llen / hlen / zcard after the loop
    ri,        \* ri[w]: the removal loop index
    failed,    \* commands whose assertion failed
    aborted    \* a panic ended the test binary

Store == INSTANCE CollectionStore WITH Keys <- Workers, Members <- Members

vars == <<counter, list, hash, set, zset, test, length, mainPc, recv, pc, j, card, ri,
          failed, aborted>>
storeVars == <<counter, list, hash, set, zset>>
workerVars == <<pc, j, card, ri>>

Pcs == {"idle", "write", "readBack", "trim", "rem", "checkRem", "remRank",
        "checkRank", "exists1", "del", "exists2", "send", "exit"}

TypeOK ==
    /\ Store!CollTypeOK
    /\ test \in Tests
    /\ length \in Lengths[test]
    /\ mainPc \in {"createNamespace", "spawn", "join", "finished"}
    /\ recv \in 0..Cardinality(Workers)
    /\ pc \in [Workers -> Pcs]
    /\ j \in [Workers -> 0..MaxLength]
    /\ card \in [Workers -> 0..MaxLength]
    /\ ri \in [Workers -> 0..MaxLength]
    /\ failed \subseteq {"SCARD", "SMEMBERS", "SREM", "LLEN", "LINDEX", "LRANGE",
                         "LREM", "HGET", "HMGET", "HEXISTS", "HLEN", "HGETALL",
                         "HDEL", "ZCARD", "ZSCORE", "ZRANGE", "ZREVRANGE",
                         "ZRANGEBYSCORE", "ZREVRANGEBYSCORE", "ZREM",
                         "ZREMRANGEBYRANK", "EXISTS", "DEL"}
    /\ aborted \in BOOLEAN

Init ==
    /\ counter = [w \in Workers |-> 0]
    /\ list = [w \in Workers |-> <<>>]
    /\ hash = [w \in Workers |-> {}]
    /\ set = [w \in Workers |-> {}]
    /\ zset = [w \in Workers |-> {}]
    /\ test \in Tests
    /\ length \in Lengths[test]
    /\ mainPc = "createNamespace"
    /\ recv = 0
    /\ pc = [w \in Workers |-> "idle"]
    /\ j = [w \in Workers |-> 0]
    /\ card = [w \in Workers |-> 0]
    /\ ri = [w \in Workers |-> 0]
    /\ failed = {}
    /\ aborted = FALSE

----------------------------------------------------------------------------
(* Helpers of the oracles.                                                 *)

\* assert.Equal(expected, got, cmd): the commands among cs whose check is
\* false are recorded.
Checks(results) == failed' = failed \cup {c \in DOMAIN results : ~results[c]}

Check(ok, cmd) == failed' = IF ok THEN failed ELSE failed \cup {cmd}

Upto(n) == 0..(n - 1)

\* checkSetRange / checkListRange: the reply sorted (Digits) is 0..len-1;
\* items[i] for i < len panics on a shorter reply.
DigitsOk(a, len) == Len(a) = len /\ {a[i] : i \in 1..Len(a)} = Upto(len)

\* checkHashRange: the sorted flat field/value reply is 0,0,1,1,...: the
\* fields are exactly 0..len-1 (field = value in every write).
HashOk(fs, len) == fs = Upto(len)

\* checkZSetRange(a, len, rev): checkXSetRange with begin = 0.
ZRangeOk(a, len, rev) == a = [i \in 1..len |-> IF rev THEN len - i ELSE i - 1]

\* The reply the goroutine reads back, as a sequence or a set of fields.
SetReply(w) == Store!Sorted(set[w])
ZReply(w, rev) ==
    LET asc == Store!ZRangeAll(w)
    IN  IF rev THEN [i \in 1..Len(asc) |-> asc[Len(asc) - i + 1]] ELSE asc

\* The member the removal loop removes and whether it is still there.
Present(w, m) ==
    CASE test = "set"  -> m \in set[w]
      [] test = "list" -> Store!LRemReply(w, m) = 1
      [] test = "hash" -> m \in hash[w]
      [] test = "zset" -> m \in zset[w]

KeyExists(w) == Store!KeyExists(w)

----------------------------------------------------------------------------
(* The caller: createNamespace, the spawn loop and the join loop.          *)

CreateNamespace ==
    /\ mainPc = "createNamespace"
    /\ counter' = [w \in Workers |-> 0]
    /\ list' = [w \in Workers |-> <<>>]
    /\ hash' = [w \in Workers |-> {}]
    /\ set' = [w \in Workers |-> {}]
    /\ zset' = [w \in Workers |-> {}]
    /\ mainPc' = "spawn"
    /\ UNCHANGED <<test, length, recv, workerVars, failed, aborted>>

Spawn ==
    /\ mainPc = "spawn"
    /\ mainPc' = "join"
    /\ pc' = [w \in Workers |-> "write"]
    /\ UNCHANGED <<storeVars, test, length, recv, j, card, ri, failed, aborted>>

\* <-done: takes the signal of a goroutine blocked on done <- true.
Receive(w) ==
    /\ mainPc = "join"
    /\ recv < Cardinality(Workers)
    /\ pc[w] = "send"
    /\ pc' = [pc EXCEPT ![w] = "exit"]
    /\ recv' = recv + 1
    /\ UNCHANGED <<storeVars, test, length, mainPc, j, card, ri, failed, aborted>>

\* Mutation of the join loop: it waits for one signal too many (i <= count).
SignalOneTooMany ==
    /\ mainPc = "join"
    /\ recv = Cardinality(Workers) + 1
    /\ mainPc' = "finished"
    /\ UNCHANGED <<storeVars, test, length, recv, workerVars, failed, aborted>>

\* c <- true once every signal is in.
Signal ==
    /\ mainPc = "join"
    /\ recv = Cardinality(Workers)
    /\ mainPc' = "finished"
    /\ UNCHANGED <<storeVars, test, length, recv, workerVars, failed, aborted>>

----------------------------------------------------------------------------
(* The write loop: the write of member j, then the read-backs of round j.  *)

\* SADD set j j j / RPUSH list j / HSET hash j j / ZADD zset j j j j j j.
WriteStep(w) ==
    /\ pc[w] = "write"
    /\ CASE test = "set"  -> Store!SAdd(w, {j[w]})
         [] test = "list" -> Store!RPush(w, j[w])
         [] test = "hash" -> Store!HMSet(w, {j[w]})
         [] test = "zset" -> Store!ZAdd(w, {j[w]})
    /\ pc' = [pc EXCEPT ![w] = "readBack"]
    /\ UNCHANGED <<test, length, mainPc, recv, j, card, ri, failed, aborted>>

\* Mutation of the loop bound: j <= length instead of j < length.
NextRoundLoopBound(w) ==
    /\ j' = [j EXCEPT ![w] = @ + 1]
    /\ pc' = [pc EXCEPT ![w] = IF j[w] + 1 <= length THEN "write"
                               ELSE IF test = "list" THEN "trim" ELSE "rem"]
    /\ card' = [card EXCEPT ![w] = IF j[w] + 1 <= length THEN @ ELSE length]
    /\ ri' = [ri EXCEPT ![w] = IF j[w] + 1 <= length THEN @ ELSE length \div 2]

\* The end of round j: the next round, or the removal phase with the
\* count n = length and the loop index i = n/2.
NextRound(w) ==
    /\ j' = [j EXCEPT ![w] = @ + 1]
    /\ pc' = [pc EXCEPT ![w] = IF j[w] + 1 < length THEN "write"
                               ELSE IF test = "list" THEN "trim" ELSE "rem"]
    /\ card' = [card EXCEPT ![w] = IF j[w] + 1 < length THEN @ ELSE length]
    /\ ri' = [ri EXCEPT ![w] = IF j[w] + 1 < length THEN @ ELSE length \div 2]


\* The read-backs of round j, with n = j+1 members written (nothing else
\* touches the key in between).  A range check indexes the reply up to the
\* expected length, so a shorter reply panics.

\* SCARD = n, SMEMBERS sorted = 0..j.
SetReadBack(w, n) ==
    /\ Checks([SCARD |-> Cardinality(set[w]) = n,
               SMEMBERS |-> DigitsOk(SetReply(w), n)])
    /\ aborted' = (Cardinality(set[w]) < n)
    /\ UNCHANGED storeVars

\* LLEN = n, LINDEX -1 = j (a nil reply panics), LRANGE sorted = 0..j.
ListReadBack(w, n) ==
    /\ Checks([LLEN |-> Len(list[w]) = n,
               LINDEX |-> list[w] # <<>> /\ list[w][Len(list[w])] = n - 1,
               LRANGE |-> DigitsOk(list[w], n)])
    /\ aborted' = (Len(list[w]) < n)
    /\ UNCHANGED storeVars

\* HGET j = j (nil panics), then HMSET j j j j j j, HMGET j j, HEXISTS j,
\* HLEN = n and HGETALL sorted = 0,0,1,1,...,j,j after that write.
HashReadBack(w, n) ==
    LET after == hash[w] \cup {n - 1}
    IN  /\ Checks([HGET |-> n - 1 \in hash[w], HMGET |-> TRUE, HEXISTS |-> TRUE,
                   HLEN |-> Cardinality(after) = n, HGETALL |-> HashOk(after, n)])
        /\ aborted' = (n - 1 \notin hash[w] \/ Cardinality(after) < n)
        /\ Store!HMSet(w, {n - 1})

\* ZCARD = n, ZSCORE j (nil panics), ZRANGE and ZRANGEBYSCORE = 0..j,
\* ZREVRANGE and ZREVRANGEBYSCORE = j..0.
ZSetReadBack(w, n) ==
    /\ Checks([ZCARD |-> Cardinality(zset[w]) = n,
               ZSCORE |-> n - 1 \in zset[w],
               ZRANGE |-> ZRangeOk(ZReply(w, FALSE), n, FALSE),
               ZREVRANGE |-> ZRangeOk(ZReply(w, TRUE), n, TRUE),
               ZRANGEBYSCORE |-> ZRangeOk(ZReply(w, FALSE), n, FALSE),
               ZREVRANGEBYSCORE |-> ZRangeOk(ZReply(w, TRUE), n, TRUE)])
    /\ aborted' = (n - 1 \notin zset[w] \/ Cardinality(zset[w]) < n)
    /\ UNCHANGED storeVars

ReadBack(w) ==
    /\ pc[w] = "readBack"
    /\ CASE test = "set"  -> SetReadBack(w, j[w] + 1)
         [] test = "list" -> ListReadBack(w, j[w] + 1)
         [] test = "hash" -> HashReadBack(w, j[w] + 1)
         [] test = "zset" -> ZSetReadBack(w, j[w] + 1)
    /\ NextRound(w)
    /\ UNCHANGED <<test, length, mainPc, recv>>

----------------------------------------------------------------------------
(* The removal phase.                                                      *)

\* testList only: LTRIM list 0 llen/2-1, then llen /= 2 and the LREM loop
\* runs i from llen/2.
LTrimStep(w) ==
    /\ pc[w] = "trim"
    /\ Store!LTrim(w, 0, card[w] \div 2 - 1)
    /\ card' = [card EXCEPT ![w] = @ \div 2]
    /\ ri' = [ri EXCEPT ![w] = (card[w] \div 2) \div 2]
    /\ pc' = [pc EXCEPT ![w] = "rem"]
    /\ UNCHANGED <<test, length, mainPc, recv, j, failed, aborted>>

\* One round of the removal loop, for i < n: SREM / LREM 0 / HDEL / ZREM
\* of member i, whose reply must be 1.
RemStep(w) ==
    LET i == ri[w]
    IN  /\ pc[w] = "rem"
        /\ i < card[w]
        /\ Check(Present(w, i), CASE test = "set" -> "SREM" [] test = "list" -> "LREM"
                                  [] test = "hash" -> "HDEL" [] test = "zset" -> "ZREM")
        /\ CASE test = "set"  -> Store!SRem(w, i)
             [] test = "list" -> Store!LRem(w, i)
             [] test = "hash" -> Store!HDel(w, i)
             [] test = "zset" -> Store!ZRem(w, i)
        /\ ri' = [ri EXCEPT ![w] = i + 1]
        /\ UNCHANGED <<test, length, mainPc, recv, pc, j, card, aborted>>

RemDone(w) ==
    /\ pc[w] = "rem"
    /\ ri[w] >= card[w]
    /\ pc' = [pc EXCEPT ![w] = "checkRem"]
    /\ UNCHANGED <<storeVars, test, length, mainPc, recv, j, card, ri, failed, aborted>>

\* Mutation of the zset branch: the count is not halved after the check.
CheckRemNoHalve(w) ==
    LET len == card[w] \div 2
    IN
    /\ pc[w] = "checkRem"
    /\ CASE test = "set" ->
            Check(DigitsOk(SetReply(w), len), "SMEMBERS") /\ aborted' = (Cardinality(set[w]) < len)
         [] test = "list" ->
            Check(DigitsOk(list[w], len), "LRANGE") /\ aborted' = (Len(list[w]) < len)
         [] test = "hash" ->
            Check(HashOk(hash[w], len), "HGETALL") /\ aborted' = (Cardinality(hash[w]) < len)
         [] test = "zset" ->
            Check(ZRangeOk(ZReply(w, FALSE), len, FALSE), "ZRANGE")
               /\ aborted' = (Cardinality(zset[w]) < len)
    /\ pc' = [pc EXCEPT ![w] = IF test = "zset" THEN "remRank" ELSE "exists1"]
    /\ UNCHANGED <<storeVars, test, length, mainPc, recv, j, card, ri>>

\* The check after the removal loop, of the n/2 members 0..n/2-1 left:
\* SMEMBERS / LRANGE / HGETALL / ZRANGE.  testZSet then sets zcard /= 2.
CheckRem(w) ==
    LET len == card[w] \div 2
    IN
    /\ pc[w] = "checkRem"
    /\ CASE test = "set" ->
            Check(DigitsOk(SetReply(w), len), "SMEMBERS") /\ aborted' = (Cardinality(set[w]) < len)
         [] test = "list" ->
            Check(DigitsOk(list[w], len), "LRANGE") /\ aborted' = (Len(list[w]) < len)
         [] test = "hash" ->
            Check(HashOk(hash[w], len), "HGETALL") /\ aborted' = (Cardinality(hash[w]) < len)
         [] test = "zset" ->
            Check(ZRangeOk(ZReply(w, FALSE), len, FALSE), "ZRANGE")
               /\ aborted' = (Cardinality(zset[w]) < len)
    /\ card' = [card EXCEPT ![w] = IF test = "zset" THEN len ELSE @]
    /\ pc' = [pc EXCEPT ![w] = IF test = "zset" THEN "remRank" ELSE "exists1"]
    /\ UNCHANGED <<storeVars, test, length, mainPc, recv, j, ri>>

\* ZREMRANGEBYRANK zset zcard/2 -1: removes ranks zcard/2..zcard-1, that
\* is zcard - zcard/2 members; the code asserts the reply is zcard/2.
RemRankStep(w) ==
    LET removed == Cardinality(Store!ZRankFrom(w, card[w] \div 2))
    IN  /\ pc[w] = "remRank"
        /\ Check(removed = card[w] \div 2, "ZREMRANGEBYRANK")
        /\ Store!ZRemRangeByRank(w, card[w] \div 2)
        /\ pc' = [pc EXCEPT ![w] = "checkRank"]
        /\ UNCHANGED <<test, length, mainPc, recv, j, card, ri, aborted>>

\* ZREVRANGE zset 0 -1: the zcard/2 members left, highest first.
CheckRank(w) ==
    /\ pc[w] = "checkRank"
    /\ Check(ZRangeOk(ZReply(w, TRUE), card[w] \div 2, TRUE), "ZREVRANGE")
    /\ aborted' = (Cardinality(zset[w]) < card[w] \div 2)
    /\ pc' = [pc EXCEPT ![w] = "exists1"]
    /\ UNCHANGED <<storeVars, test, length, mainPc, recv, j, card, ri>>

(* checkDelete: EXISTS replies 1, DEL replies 1, EXISTS replies 0.         *)

Exists1(w) ==
    /\ pc[w] = "exists1"
    /\ Check(KeyExists(w), "EXISTS")
    /\ pc' = [pc EXCEPT ![w] = "del"]
    /\ UNCHANGED <<storeVars, test, length, mainPc, recv, j, card, ri, aborted>>

DelStep(w) ==
    /\ pc[w] = "del"
    /\ Check(KeyExists(w), "DEL")
    /\ Store!DelKey(w)
    /\ pc' = [pc EXCEPT ![w] = "exists2"]
    /\ UNCHANGED <<test, length, mainPc, recv, j, card, ri, aborted>>

Exists2(w) ==
    /\ pc[w] = "exists2"
    /\ Check(~KeyExists(w), "EXISTS")
    /\ pc' = [pc EXCEPT ![w] = "send"]
    /\ UNCHANGED <<storeVars, test, length, mainPc, recv, j, card, ri, aborted>>

----------------------------------------------------------------------------

Worker(w) ==
    \/ WriteStep(w) \/ ReadBack(w) \/ LTrimStep(w) \/ RemStep(w) \/ RemDone(w)
    \/ CheckRem(w) \/ RemRankStep(w) \/ CheckRank(w)
    \/ Exists1(w) \/ DelStep(w) \/ Exists2(w)

Caller == CreateNamespace \/ Spawn \/ (\E w \in Workers : Receive(w)) \/ Signal

\* A panic ends the binary; a finished caller leaves nothing to do.
Terminated ==
    /\ aborted \/ mainPc = "finished"
    /\ UNCHANGED vars

Next ==
    \/ ~aborted /\ (Caller \/ \E w \in Workers : Worker(w))
    \/ Terminated

\* Every goroutine is scheduled while runnable and every call returns.
Fairness ==
    /\ WF_vars(~aborted /\ Caller)
    /\ \A w \in Workers : WF_vars(~aborted /\ Worker(w))

Spec == Init /\ [][Next]_vars /\ Fairness

\* The driver as WorkerPool sees it: a worker is done once its signal has
\* been taken, the caller is released once it passed the join, and
\* a panic crashes the binary.
Pool == INSTANCE WorkerPool WITH
            phase <- IF aborted THEN "crashed"
                     ELSE IF mainPc \in {"finished"} THEN "released" ELSE "running",
            done <- {w \in Workers : pc[w] = "exit"}


----------------------------------------------------------------------------
(* Properties.                                                             *)

\* No assertion of testSet / testList / testHash / testZSet fails and no
\* reply makes them panic, against a store that keeps the contract, for
\* every length the run explores.
HarnessSound == failed = {} /\ ~aborted

\* The spawn/join driver of the unbounded tests implements WorkerPool: each goroutine's
\* done <- true is taken once, the caller goes on (c <- true) only after all
\* COUNT signals are in, and under the scheduler's fairness every signal is
\* taken and the join completes unless a panic ends the binary first.
ImplementsWorkerPool == Pool!PoolSpec

=============================================================================
