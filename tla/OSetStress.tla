---------------------------- MODULE OSetStress ----------------------------
(***************************************************************************)
(* testOSet of src/units/stress/stress_test.go (lines 852-1016): the same  *)
(* driver as testXSet over the bounded ordinal set.  COUNT goroutines,     *)
(* each on its own key "oset:<i>", append members 0..LENGTH-1 with OADD    *)
(* MAXLEN and after every append read the key back with OCARD and four     *)
(* range queries (no score query: an ordinal set has none); then OCARD,    *)
(* OGETMAXLEN, OGETFINITY, the OREM loop, ORANGE, OREMRANGEBYRANK,         *)
(* OREVRANGE and checkDelete.  Range replies are one integer per member.   *)
(*                                                                         *)
(* Every network call is one atomic step of its goroutine; the store       *)
(* (BoundedSetStore) trims only inside OADD: what a trim between two calls *)
(* does to this oracle is the question of XSetStress, with the same code.  *)
(* A failed assertion is recorded in "failed"; a panic sets "aborted".     *)
(***************************************************************************)
EXTENDS Integers, FiniteSets, Sequences

CONSTANTS
    Workers,     \* the goroutines (one key each)
    LENGTH,      \* length: appends per goroutine
    MAXLEN,      \* maxlen: the MAXLEN argument of OADD
    StaleSets    \* what a key may hold before the namespace reset

ASSUME LENGTH \in Nat \ {0} /\ MAXLEN \in Nat \ {0}

Members == 0..(LENGTH - 1)

ASSUME StaleSets \subseteq SUBSET Members

VARIABLES
    elems, maxlen,  \* the store (BoundedSetStore)
    mainPc,         \* the testOSet caller
    recv,           \* signals received from "done"
    pc,             \* pc[w]: the call goroutine w makes next
    j,              \* j[w]: the append loop index
    ocard,          \* ocard[w]: the cardinality the goroutine works with
    begin,          \* begin[w]: the lowest member it expects to survive
    ri,             \* ri[w]: range query number, or the OREM loop index
    failed,         \* commands whose assertion failed
    aborted         \* a panic ended the test binary

Store == INSTANCE BoundedSetStore WITH Keys <- Workers, Members <- Members,
                                      Background <- FALSE

vars == <<elems, maxlen, mainPc, recv, pc, j, ocard, begin, ri, failed, aborted>>
workerVars == <<pc, j, ocard, begin, ri>>

Pcs == {"idle", "oadd", "ocard", "range", "ocardFinal", "getMaxlen", "orem",
        "orangeAfterRem", "oremRangeByRank", "orevrangeFinal",
        "exists1", "del", "exists2", "send", "exit"}

TypeOK ==
    /\ Store!StoreTypeOK
    /\ mainPc \in {"createNamespace", "spawn", "join", "finished"}
    /\ recv \in 0..Cardinality(Workers)
    /\ pc \in [Workers -> Pcs]
    /\ j \in [Workers -> 0..LENGTH]
    /\ ocard \in [Workers -> 0..(2 * MAXLEN)]
    /\ begin \in [Workers -> 0..LENGTH]
    /\ ri \in [Workers -> 0..(4 + 2 * MAXLEN)]
    /\ failed \subseteq {"OCARD", "ORANGE", "OREVRANGE", "ORANGEBYMEMBER",
                         "OREVRANGEBYMEMBER", "OGETMAXLEN", "OGETFINITY", "OREM",
                         "OREMRANGEBYRANK", "EXISTS", "DEL"}
    /\ aborted \in BOOLEAN

Init ==
    /\ elems \in [Workers -> StaleSets]
    /\ maxlen = [w \in Workers |-> IF elems[w] = {} THEN 0 ELSE MAXLEN]
    /\ mainPc = "createNamespace"
    /\ recv = 0
    /\ pc = [w \in Workers |-> "idle"]
    /\ j = [w \in Workers |-> 0]
    /\ ocard = [w \in Workers |-> 0]
    /\ begin = [w \in Workers |-> 0]
    /\ ri = [w \in Workers |-> 0]
    /\ failed = {}
    /\ aborted = FALSE

----------------------------------------------------------------------------
(* Helpers of the oracle.                                                  *)

Check(ok, cmd) == failed' = IF ok THEN failed ELSE failed \cup {cmd}

\* checkOSetRange(a, begin, length, reverse): len(a) = length, then
\* items[i] is begin+i (or begin+length-1-i); items[i] of a shorter reply
\* panics.
CheckOSetRange(a, b, len, rev, cmd) ==
    /\ Check(a = [i \in 1..len |-> IF rev THEN len - i + b ELSE i - 1 + b], cmd)
    /\ aborted' = (Len(a) < len)

\* ORANGE, OREVRANGE, ORANGEBYMEMBER, OREVRANGEBYMEMBER, in code order.
RangeCmd == <<"ORANGE", "OREVRANGE", "ORANGEBYMEMBER", "OREVRANGEBYMEMBER">>
RangeRev == <<FALSE, TRUE, FALSE, TRUE>>

\* The OCARD assertion inside the loop: exact while ocard = j+1, else the
\* condition ocard <= n < 2*ocard with ocard = maxlen.
OCardOk(expected, n, jw) ==
    IF expected = jw + 1 THEN n = expected
    ELSE expected <= n /\ 2 * expected > n

----------------------------------------------------------------------------
(* The caller: createNamespace, the spawn loop and the join loop.          *)

CreateNamespace ==
    /\ mainPc = "createNamespace"
    /\ Store!NsReset
    /\ mainPc' = "spawn"
    /\ UNCHANGED <<recv, workerVars, failed, aborted>>

Spawn ==
    /\ mainPc = "spawn"
    /\ mainPc' = "join"
    /\ pc' = [w \in Workers |-> "oadd"]
    /\ UNCHANGED <<elems, maxlen, recv, j, ocard, begin, ri, failed, aborted>>

\* <-done: takes the signal of a goroutine blocked on done <- true.
Receive(w) ==
    /\ mainPc = "join"
    /\ recv < Cardinality(Workers)
    /\ pc[w] = "send"
    /\ pc' = [pc EXCEPT ![w] = "exit"]
    /\ recv' = recv + 1
    /\ UNCHANGED <<elems, maxlen, mainPc, j, ocard, begin, ri, failed, aborted>>

\* Mutation of the join loop: it waits for one signal too many (i <= count).
SignalOneTooMany ==
    /\ mainPc = "join"
    /\ recv = Cardinality(Workers) + 1
    /\ mainPc' = "finished"
    /\ UNCHANGED <<elems, maxlen, recv, workerVars, failed, aborted>>

\* c <- true once every signal is in.
Signal ==
    /\ mainPc = "join"
    /\ recv = Cardinality(Workers)
    /\ mainPc' = "finished"
    /\ UNCHANGED <<elems, maxlen, recv, workerVars, failed, aborted>>

----------------------------------------------------------------------------
(* A goroutine of testOSet: one action per network call.                   *)

\* OADD oset MAXLEN maxlen j j j.
OAddStep(w) ==
    /\ pc[w] = "oadd"
    /\ Store!XAdd(w, j[w], MAXLEN)
    /\ pc' = [pc EXCEPT ![w] = "ocard"]
    /\ UNCHANGED <<mainPc, recv, j, ocard, begin, ri, failed, aborted>>

\* Mutation: the tolerance's lower bound taken as strict.
OCardStepLowerStrict(w) ==
    LET expected == IF j[w] + 1 > MAXLEN THEN MAXLEN ELSE j[w] + 1
        n        == Store!Card(w)
    IN  /\ pc[w] = "ocard"
        /\ Check(IF expected = j[w] + 1 THEN n = expected
                 ELSE expected < n /\ 2 * expected > n, "OCARD")
        /\ ocard' = [ocard EXCEPT ![w] = n]
        /\ begin' = [begin EXCEPT ![w] = j[w] + 1 - n]
        /\ pc' = [pc EXCEPT ![w] = "range"]
        /\ ri' = [ri EXCEPT ![w] = 1]
        /\ UNCHANGED <<elems, maxlen, mainPc, recv, j, aborted>>

\* OCARD inside the loop; the goroutine then works with the observed
\* cardinality: ocard = n, begin = j+1-ocard.
OCardStep(w) ==
    LET expected == IF j[w] + 1 > MAXLEN THEN MAXLEN ELSE j[w] + 1
        n        == Store!Card(w)
    IN  /\ pc[w] = "ocard"
        /\ Check(OCardOk(expected, n, j[w]), "OCARD")
        /\ ocard' = [ocard EXCEPT ![w] = n]
        /\ begin' = [begin EXCEPT ![w] = j[w] + 1 - n]
        /\ pc' = [pc EXCEPT ![w] = "range"]
        /\ ri' = [ri EXCEPT ![w] = 1]
        /\ UNCHANGED <<elems, maxlen, mainPc, recv, j, aborted>>

\* Mutation: the append loop runs while j <= length.
RangeStepLoopBound(w) ==
    LET r == ri[w]
    IN  /\ pc[w] = "range"
        /\ CheckOSetRange(Store!RangeReply(w, RangeRev[r]), begin[w], ocard[w],
                          RangeRev[r], RangeCmd[r])
        /\ IF r < 4
              THEN /\ ri' = [ri EXCEPT ![w] = r + 1]
                   /\ UNCHANGED <<pc, j>>
              ELSE /\ j' = [j EXCEPT ![w] = @ + 1]
                   /\ pc' = [pc EXCEPT ![w] = IF j[w] + 1 <= LENGTH THEN "oadd"
                                                                   ELSE "ocardFinal"]
                   /\ UNCHANGED ri
        /\ UNCHANGED <<elems, maxlen, mainPc, recv, ocard, begin>>

\* The four range queries; after the fourth the loop moves to the next
\* member, or leaves the loop.
RangeStep(w) ==
    LET r == ri[w]
    IN  /\ pc[w] = "range"
        /\ CheckOSetRange(Store!RangeReply(w, RangeRev[r]), begin[w], ocard[w],
                          RangeRev[r], RangeCmd[r])
        /\ IF r < 4
              THEN /\ ri' = [ri EXCEPT ![w] = r + 1]
                   /\ UNCHANGED <<pc, j>>
              ELSE /\ j' = [j EXCEPT ![w] = @ + 1]
                   /\ pc' = [pc EXCEPT ![w] = IF j[w] + 1 < LENGTH THEN "oadd"
                                                                  ELSE "ocardFinal"]
                   /\ UNCHANGED ri
        /\ UNCHANGED <<elems, maxlen, mainPc, recv, ocard, begin>>

\* OCARD after the loop: taken as it is, begin = length - ocard.
OCardFinal(w) ==
    /\ pc[w] = "ocardFinal"
    /\ ocard' = [ocard EXCEPT ![w] = Store!Card(w)]
    /\ begin' = [begin EXCEPT ![w] = LENGTH - Store!Card(w)]
    /\ pc' = [pc EXCEPT ![w] = "getMaxlen"]
    /\ UNCHANGED <<elems, maxlen, mainPc, recv, j, ri, failed, aborted>>

\* OGETMAXLEN and OGETFINITY, both expected to be maxlen (a nil reply of an
\* absent key panics); then the OREM loop over i in ocard/2..ocard-1.
GetMaxlen(w) ==
    /\ pc[w] = "getMaxlen"
    /\ failed' = failed \cup (IF maxlen[w] = MAXLEN THEN {}
                              ELSE {"OGETMAXLEN", "OGETFINITY"})
    /\ aborted' = ~Store!Exists(w)
    /\ ri' = [ri EXCEPT ![w] = ocard[w] \div 2]
    /\ pc' = [pc EXCEPT ![w] = IF ocard[w] \div 2 < ocard[w] THEN "orem"
                                                           ELSE "orangeAfterRem"]
    /\ UNCHANGED <<elems, maxlen, mainPc, recv, j, ocard, begin>>

\* OREM oset i+begin, expected to reply 1.
ORemStep(w) ==
    LET m == ri[w] + begin[w]
    IN  /\ pc[w] = "orem"
        /\ Check(m \in elems[w], "OREM")
        /\ Store!XRem(w, m)
        /\ ri' = [ri EXCEPT ![w] = @ + 1]
        /\ pc' = [pc EXCEPT ![w] = IF ri[w] + 1 < ocard[w] THEN "orem"
                                                          ELSE "orangeAfterRem"]
        /\ UNCHANGED <<mainPc, recv, j, ocard, begin, aborted>>

\* ORANGE against begin, ocard/2; then ocard /= 2.
ORangeAfterRem(w) ==
    /\ pc[w] = "orangeAfterRem"
    /\ CheckOSetRange(Store!RangeReply(w, FALSE), begin[w], ocard[w] \div 2,
                      FALSE, "ORANGE")
    /\ ocard' = [ocard EXCEPT ![w] = @ \div 2]
    /\ pc' = [pc EXCEPT ![w] = "oremRangeByRank"]
    /\ UNCHANGED <<elems, maxlen, mainPc, recv, j, begin, ri>>

\* OREMRANGEBYRANK oset ocard/2 -1, expected to reply ocard - ocard/2.
ORemRangeByRankStep(w) ==
    LET removed == Cardinality(Store!RankFrom(w, ocard[w] \div 2))
    IN  /\ pc[w] = "oremRangeByRank"
        /\ Check(removed = ocard[w] - ocard[w] \div 2, "OREMRANGEBYRANK")
        /\ Store!XRemRangeByRank(w, ocard[w] \div 2)
        /\ pc' = [pc EXCEPT ![w] = "orevrangeFinal"]
        /\ UNCHANGED <<mainPc, recv, j, ocard, begin, ri, aborted>>

\* OREVRANGE against begin, ocard/2.
ORevRangeFinal(w) ==
    /\ pc[w] = "orevrangeFinal"
    /\ CheckOSetRange(Store!RangeReply(w, TRUE), begin[w], ocard[w] \div 2,
                      TRUE, "OREVRANGE")
    /\ pc' = [pc EXCEPT ![w] = "exists1"]
    /\ UNCHANGED <<elems, maxlen, mainPc, recv, j, ocard, begin, ri>>

(* checkDelete: EXISTS replies 1, DEL replies 1, EXISTS replies 0.         *)

Exists1(w) ==
    /\ pc[w] = "exists1"
    /\ Check(Store!Exists(w), "EXISTS")
    /\ pc' = [pc EXCEPT ![w] = "del"]
    /\ UNCHANGED <<elems, maxlen, mainPc, recv, j, ocard, begin, ri, aborted>>

DelStep(w) ==
    /\ pc[w] = "del"
    /\ Check(Store!Exists(w), "DEL")
    /\ Store!Del(w)
    /\ pc' = [pc EXCEPT ![w] = "exists2"]
    /\ UNCHANGED <<mainPc, recv, j, ocard, begin, ri, aborted>>

Exists2(w) ==
    /\ pc[w] = "exists2"
    /\ Check(~Store!Exists(w), "EXISTS")
    /\ pc' = [pc EXCEPT ![w] = "send"]
    /\ UNCHANGED <<elems, maxlen, mainPc, recv, j, ocard, begin, ri, aborted>>

Worker(w) ==
    \/ OAddStep(w) \/ OCardStep(w) \/ RangeStep(w) \/ OCardFinal(w)
    \/ GetMaxlen(w) \/ ORemStep(w) \/ ORangeAfterRem(w)
    \/ ORemRangeByRankStep(w) \/ ORevRangeFinal(w)
    \/ Exists1(w) \/ DelStep(w) \/ Exists2(w)

Caller == CreateNamespace \/ Spawn \/ Signal \/ \E w \in Workers : Receive(w)

\* The test binary has returned, or a panic has ended it.
Terminated ==
    /\ mainPc = "finished" \/ aborted
    /\ UNCHANGED vars

Next ==
    \/ ~aborted /\ (Caller \/ \E w \in Workers : Worker(w))
    \/ Terminated

\* Goroutines are scheduled and every call to the store returns.
Fairness ==
    /\ WF_vars(~aborted /\ Caller)
    /\ \A w \in Workers : WF_vars(~aborted /\ Worker(w))

Spec == Init /\ [][Next]_vars /\ Fairness

\* The driver as WorkerPool sees it: a worker is done once its signal has
\* been taken, the caller is released once it passed the join, and
\* a panic crashes the binary.
Pool == INSTANCE WorkerPool WITH
            phase <- IF aborted THEN "crashed"
                     ELSE IF mainPc \in {"finished"} THEN "released" ELSE "running",
            done <- {w \in Workers : pc[w] = "exit"}


----------------------------------------------------------------------------
(* Properties.                                                             *)

\* Soundness of the ordinal-set oracle: against a store that trims only
\* inside OADD, within [maxlen, 2*maxlen), no assertion of testOSet fails
\* and nothing panics: the OCARD tolerance, begin = j+1-ocard, the OREM loop
\* and the OREMRANGEBYRANK count agree with every legal trim.
HarnessSound == failed = {} /\ ~aborted

\* The spawn/join driver of testOSet implements WorkerPool: each goroutine's
\* done <- true is taken once, the caller goes on (c <- true) only after all
\* COUNT signals are in, and under the scheduler's fairness every signal is
\* taken and the join completes unless a panic ends the binary first.
ImplementsWorkerPool == Pool!PoolSpec

=============================================================================
