---------------------------- MODULE XSetStress ----------------------------
(***************************************************************************)
(* testXSet of src/units/stress/stress_test.go (lines 681-817): COUNT      *)
(* goroutines, each on its own key "xset:<i>", append members 0..LENGTH-1  *)
(* with XADD MAXLEN, and after every append read the key back with         *)
(* XCARD, XSCORE and four range queries; once done each trims its key with *)
(* XREM and XREMRANGEBYRANK, checks it, deletes it and signals on "done".  *)
(* The caller resets the namespace first and joins on COUNT signals.       *)
(*                                                                         *)
(* Every network call is one atomic step of its goroutine; the store       *)
(* (module BoundedSetStore) may run a trim between two calls when          *)
(* Background is TRUE.  A testify assertion that fails is recorded in      *)
(* "failed" and the goroutine goes on, as assert.Equal does; a reply whose *)
(* type assertion or indexing panics ends the whole test binary, which is  *)
(* "aborted".                                                              *)
(***************************************************************************)
EXTENDS Integers, FiniteSets, Sequences

CONSTANTS
    Workers,     \* the goroutines i \in 0..count-1 (one key each)
    LENGTH,      \* length: appends per goroutine
    MAXLEN,      \* maxlen: the MAXLEN argument of XADD
    Background,  \* the store may trim between two calls
    StaleSets    \* what a key may hold before the namespace reset

ASSUME LENGTH \in Nat \ {0} /\ MAXLEN \in Nat \ {0}

Members == 0..(LENGTH - 1)

ASSUME StaleSets \subseteq SUBSET Members

VARIABLES
    elems, maxlen,  \* the store (BoundedSetStore)
    mainPc,         \* the testXSet caller
    recv,           \* signals received from "done"
    pc,             \* pc[w]: the call goroutine w makes next
    j,              \* j[w]: the append loop index
    xcard,          \* xcard[w]: the cardinality the goroutine works with
    begin,          \* begin[w]: the lowest member it expects to survive
    ri,             \* ri[w]: range query number, or the XREM loop index
    failed,         \* commands whose assertion failed
    aborted         \* a panic ended the test binary

Store == INSTANCE BoundedSetStore WITH Keys <- Workers, Members <- Members

vars == <<elems, maxlen, mainPc, recv, pc, j, xcard, begin, ri, failed, aborted>>
workerVars == <<pc, j, xcard, begin, ri>>

Pcs == {"idle", "xadd", "xcard", "xscore", "range", "xcardFinal", "getMaxlen",
        "xrem", "xrangeAfterRem", "xremRangeByRank", "xrevrangeFinal",
        "exists1", "del", "exists2", "send", "exit"}

TypeOK ==
    /\ Store!StoreTypeOK
    /\ mainPc \in {"createNamespace", "spawn", "join", "finished"}
    /\ recv \in 0..Cardinality(Workers)
    /\ pc \in [Workers -> Pcs]
    /\ j \in [Workers -> 0..LENGTH]
    /\ xcard \in [Workers -> Nat]
    /\ begin \in [Workers -> Int]
    /\ ri \in [Workers -> Nat]
    /\ failed \subseteq {"XCARD", "XSCORE", "XRANGE", "XREVRANGE", "XRANGEBYSCORE",
                         "XREVRANGEBYSCORE", "XGETMAXLEN", "XGETFINITY", "XREM",
                         "XREMRANGEBYRANK", "EXISTS", "DEL"}
    /\ aborted \in BOOLEAN

Init ==
    /\ elems \in [Workers -> StaleSets]
    /\ maxlen = [w \in Workers |-> IF elems[w] = {} THEN 0 ELSE MAXLEN]
    /\ mainPc = "createNamespace"
    /\ recv = 0
    /\ pc = [w \in Workers |-> "idle"]
    /\ j = [w \in Workers |-> 0]
    /\ xcard = [w \in Workers |-> 0]
    /\ begin = [w \in Workers |-> 0]
    /\ ri = [w \in Workers |-> 0]
    /\ failed = {}
    /\ aborted = FALSE

----------------------------------------------------------------------------
(* Helpers of the oracle.                                                  *)

\* assert.Equal(expected, got, cmd): records cmd when they differ.
Check(ok, cmd) == failed' = IF ok THEN failed ELSE failed \cup {cmd}

\* checkXSetRange(a, begin, length, reverse): the entries it compares with.
ExpectedRange(b, len, rev) ==
    [i \in 1..len |-> IF rev THEN len - i + b ELSE i - 1 + b]

\* It indexes items[2*i] for i < length whatever len(items) is: a shorter
\* reply panics, any other mismatch is a failed assertion.
RangePanics(a, len) == Len(a) < len

CheckXSetRange(a, b, len, rev, cmd) ==
    /\ Check(a = ExpectedRange(b, len, rev), cmd)
    /\ aborted' = RangePanics(a, len)

\* The four range queries of one append round, in the order of the code.
RangeCmd == <<"XRANGE", "XREVRANGE", "XRANGEBYSCORE", "XREVRANGEBYSCORE">>
RangeRev == <<FALSE, TRUE, FALSE, TRUE>>

\* The tolerance of the XCARD assertion inside the append loop.
XCardOk(expected, n, jw) ==
    IF expected = jw + 1 THEN n = expected
    ELSE expected <= n /\ 2 * expected > n

----------------------------------------------------------------------------
(* The caller: createNamespace, the spawn loop and the join loop.          *)

CreateNamespace ==
    /\ mainPc = "createNamespace"
    /\ Store!NsReset
    /\ mainPc' = "spawn"
    /\ UNCHANGED <<recv, workerVars, failed, aborted>>

Spawn ==
    /\ mainPc = "spawn"
    /\ mainPc' = "join"
    /\ pc' = [w \in Workers |-> "xadd"]
    /\ UNCHANGED <<elems, maxlen, recv, j, xcard, begin, ri, failed, aborted>>

\* <-done: takes the signal of a goroutine blocked on done <- true.
Receive(w) ==
    /\ mainPc = "join"
    /\ recv < Cardinality(Workers)
    /\ pc[w] = "send"
    /\ pc' = [pc EXCEPT ![w] = "exit"]
    /\ recv' = recv + 1
    /\ UNCHANGED <<elems, maxlen, mainPc, j, xcard, begin, ri, failed, aborted>>

\* Mutation of the join loop: it stops one signal short (for i := 1; i < count).
SignalOneShort ==
    /\ mainPc = "join"
    /\ recv >= Cardinality(Workers) - 1
    /\ mainPc' = "finished"
    /\ UNCHANGED <<elems, maxlen, recv, workerVars, failed, aborted>>

\* c <- true once every signal is in.
Signal ==
    /\ mainPc = "join"
    /\ recv = Cardinality(Workers)
    /\ mainPc' = "finished"
    /\ UNCHANGED <<elems, maxlen, recv, workerVars, failed, aborted>>

----------------------------------------------------------------------------
(* A goroutine of testXSet: one action per network call.                   *)

XAddStep(w) ==
    /\ pc[w] = "xadd"
    /\ Store!XAdd(w, j[w], MAXLEN)
    /\ pc' = [pc EXCEPT ![w] = "xcard"]
    /\ UNCHANGED <<mainPc, recv, j, xcard, begin, ri, failed, aborted>>

\* Mutation: the survivors' window is taken to start at j - xcard.
XCardStepBeginOffByOne(w) ==
    LET expected == IF j[w] + 1 > MAXLEN THEN MAXLEN ELSE j[w] + 1
        n        == Store!Card(w)
    IN  /\ pc[w] = "xcard"
        /\ Check(XCardOk(expected, n, j[w]), "XCARD")
        /\ xcard' = [xcard EXCEPT ![w] = n]
        /\ begin' = [begin EXCEPT ![w] = j[w] - n]
        /\ pc' = [pc EXCEPT ![w] = "xscore"]
        /\ UNCHANGED <<elems, maxlen, mainPc, recv, j, ri, aborted>>

\* XCARD inside the loop: exact up to maxlen, else within [maxlen, 2*maxlen);
\* the goroutine then works with the observed cardinality.
XCardStep(w) ==
    LET expected == IF j[w] + 1 > MAXLEN THEN MAXLEN ELSE j[w] + 1
        n        == Store!Card(w)
    IN  /\ pc[w] = "xcard"
        /\ Check(XCardOk(expected, n, j[w]), "XCARD")
        /\ xcard' = [xcard EXCEPT ![w] = n]
        /\ begin' = [begin EXCEPT ![w] = j[w] + 1 - n]
        /\ pc' = [pc EXCEPT ![w] = "xscore"]
        /\ UNCHANGED <<elems, maxlen, mainPc, recv, j, ri, aborted>>

\* XSCORE of the member just added; a nil reply panics in s.([]byte).
XScoreStep(w) ==
    LET reply == Store!ScoreReply(w, j[w])
    IN  /\ pc[w] = "xscore"
        /\ Check(reply = j[w], "XSCORE")
        /\ aborted' = (reply = -1)
        /\ pc' = [pc EXCEPT ![w] = "range"]
        /\ ri' = [ri EXCEPT ![w] = 1]
        /\ UNCHANGED <<elems, maxlen, mainPc, recv, j, xcard, begin>>

\* Mutation: the append loop runs while j <= length.
RangeStepLoopBound(w) ==
    LET r == ri[w]
    IN  /\ pc[w] = "range"
        /\ CheckXSetRange(Store!RangeReply(w, RangeRev[r]), begin[w], xcard[w],
                          RangeRev[r], RangeCmd[r])
        /\ IF r < 4
              THEN /\ ri' = [ri EXCEPT ![w] = r + 1]
                   /\ UNCHANGED <<pc, j>>
              ELSE /\ j' = [j EXCEPT ![w] = @ + 1]
                   /\ pc' = [pc EXCEPT ![w] = IF j[w] + 1 <= LENGTH THEN "xadd"
                                                                   ELSE "xcardFinal"]
                   /\ UNCHANGED ri
        /\ UNCHANGED <<elems, maxlen, mainPc, recv, xcard, begin>>

\* XRANGE, XREVRANGE, XRANGEBYSCORE, XREVRANGEBYSCORE; after the fourth the
\* loop moves to the next member, or leaves the loop.
RangeStep(w) ==
    LET r == ri[w]
    IN  /\ pc[w] = "range"
        /\ CheckXSetRange(Store!RangeReply(w, RangeRev[r]), begin[w], xcard[w],
                          RangeRev[r], RangeCmd[r])
        /\ IF r < 4
              THEN /\ ri' = [ri EXCEPT ![w] = r + 1]
                   /\ UNCHANGED <<pc, j>>
              ELSE /\ j' = [j EXCEPT ![w] = @ + 1]
                   /\ pc' = [pc EXCEPT ![w] = IF j[w] + 1 < LENGTH THEN "xadd"
                                                                  ELSE "xcardFinal"]
                   /\ UNCHANGED ri
        /\ UNCHANGED <<elems, maxlen, mainPc, recv, xcard, begin>>

\* XCARD after the loop: taken as it is, begin = length - xcard.
XCardFinal(w) ==
    /\ pc[w] = "xcardFinal"
    /\ xcard' = [xcard EXCEPT ![w] = Store!Card(w)]
    /\ begin' = [begin EXCEPT ![w] = LENGTH - Store!Card(w)]
    /\ pc' = [pc EXCEPT ![w] = "getMaxlen"]
    /\ UNCHANGED <<elems, maxlen, mainPc, recv, j, ri, failed, aborted>>

\* XGETMAXLEN and XGETFINITY, both expected to be maxlen (the store keeps
\* one bound per key); then the XREM loop starts at xcard/2.
GetMaxlen(w) ==
    /\ pc[w] = "getMaxlen"
    /\ failed' = failed \cup (IF maxlen[w] = MAXLEN THEN {}
                              ELSE {"XGETMAXLEN", "XGETFINITY"})
    /\ aborted' = ~Store!Exists(w)
    /\ ri' = [ri EXCEPT ![w] = xcard[w] \div 2]
    /\ pc' = [pc EXCEPT ![w] = IF xcard[w] \div 2 < xcard[w] THEN "xrem"
                                                           ELSE "xrangeAfterRem"]
    /\ UNCHANGED <<elems, maxlen, mainPc, recv, j, xcard, begin>>

\* XREM of member i+begin for i in xcard/2..xcard-1, each expected to reply 1.
XRemStep(w) ==
    LET m == ri[w] + begin[w]
    IN  /\ pc[w] = "xrem"
        /\ Check(m \in elems[w], "XREM")
        /\ Store!XRem(w, m)
        /\ ri' = [ri EXCEPT ![w] = @ + 1]
        /\ pc' = [pc EXCEPT ![w] = IF ri[w] + 1 < xcard[w] THEN "xrem"
                                                          ELSE "xrangeAfterRem"]
        /\ UNCHANGED <<mainPc, recv, j, xcard, begin, aborted>>

XRangeAfterRem(w) ==
    /\ pc[w] = "xrangeAfterRem"
    /\ CheckXSetRange(Store!RangeReply(w, FALSE), begin[w], xcard[w] \div 2,
                      FALSE, "XRANGE")
    /\ xcard' = [xcard EXCEPT ![w] = @ \div 2]
    /\ pc' = [pc EXCEPT ![w] = "xremRangeByRank"]
    /\ UNCHANGED <<elems, maxlen, mainPc, recv, j, begin, ri>>

\* XREMRANGEBYRANK xcard/2 -1, expected to remove xcard - xcard/2 members.
XRemRangeByRankStep(w) ==
    LET removed == Cardinality(Store!RankFrom(w, xcard[w] \div 2))
    IN  /\ pc[w] = "xremRangeByRank"
        /\ Check(removed = xcard[w] - xcard[w] \div 2, "XREMRANGEBYRANK")
        /\ Store!XRemRangeByRank(w, xcard[w] \div 2)
        /\ pc' = [pc EXCEPT ![w] = "xrevrangeFinal"]
        /\ UNCHANGED <<mainPc, recv, j, xcard, begin, ri, aborted>>

XRevRangeFinal(w) ==
    /\ pc[w] = "xrevrangeFinal"
    /\ CheckXSetRange(Store!RangeReply(w, TRUE), begin[w], xcard[w] \div 2,
                      TRUE, "XREVRANGE")
    /\ pc' = [pc EXCEPT ![w] = "exists1"]
    /\ UNCHANGED <<elems, maxlen, mainPc, recv, j, xcard, begin, ri>>

(* checkDelete: EXISTS replies 1, DEL replies 1, EXISTS replies 0.         *)

Exists1(w) ==
    /\ pc[w] = "exists1"
    /\ Check(Store!Exists(w), "EXISTS")
    /\ pc' = [pc EXCEPT ![w] = "del"]
    /\ UNCHANGED <<elems, maxlen, mainPc, recv, j, xcard, begin, ri, aborted>>

DelStep(w) ==
    /\ pc[w] = "del"
    /\ Check(Store!Exists(w), "DEL")
    /\ Store!Del(w)
    /\ pc' = [pc EXCEPT ![w] = "exists2"]
    /\ UNCHANGED <<mainPc, recv, j, xcard, begin, ri, aborted>>

Exists2(w) ==
    /\ pc[w] = "exists2"
    /\ Check(~Store!Exists(w), "EXISTS")
    /\ pc' = [pc EXCEPT ![w] = "send"]
    /\ UNCHANGED <<elems, maxlen, mainPc, recv, j, xcard, begin, ri, aborted>>

Worker(w) ==
    \/ XAddStep(w) \/ XCardStep(w) \/ XScoreStep(w) \/ RangeStep(w)
    \/ XCardFinal(w) \/ GetMaxlen(w) \/ XRemStep(w) \/ XRangeAfterRem(w)
    \/ XRemRangeByRankStep(w) \/ XRevRangeFinal(w)
    \/ Exists1(w) \/ DelStep(w) \/ Exists2(w)

\* The store trims a key between two calls of its goroutine.
StoreTrim ==
    /\ \E w \in Workers : Store!Trim(w)
    /\ UNCHANGED <<mainPc, recv, workerVars, failed, aborted>>

Caller == CreateNamespace \/ Spawn \/ Signal \/ \E w \in Workers : Receive(w)

\* The test binary has returned, or a panic has ended it.
Terminated ==
    /\ mainPc = "finished" \/ aborted
    /\ UNCHANGED vars

Next ==
    \/ ~aborted /\ (Caller \/ \E w \in Workers : Worker(w))
    \/ Terminated

\* The same against a store that may also trim between two calls.
NextBackground == Next \/ (~aborted /\ StoreTrim)

\* Goroutines are scheduled and every call to the store returns.
Fairness ==
    /\ WF_vars(~aborted /\ Caller)
    /\ \A w \in Workers : WF_vars(~aborted /\ Worker(w))

Spec == Init /\ [][Next]_vars /\ Fairness

SpecBackground == Init /\ [][NextBackground]_vars /\ Fairness

\* The driver as WorkerPool sees it: a worker is done once its signal has
\* been taken, the caller is released once it passed the join, and
\* a panic crashes the binary.
Pool == INSTANCE WorkerPool WITH
            phase <- IF aborted THEN "crashed"
                     ELSE IF mainPc \in {"finished"} THEN "released" ELSE "running",
            done <- {w \in Workers : pc[w] = "exit"}


----------------------------------------------------------------------------
(* Properties.                                                             *)

\* Soundness of the bounded-set oracle: against a store that keeps the
\* trimming contract, no assertion of testXSet fails and nothing panics, so
\* the tolerance check, the observed-window derivation (begin = j+1-xcard)
\* and the XREM / XREMRANGEBYRANK arithmetic agree with the store.
HarnessSound == failed = {} /\ ~aborted

\* spec.md 3/8: once insertion has quiesced the reported cardinality is
\* exactly min(n, maxlen).  A run that goes on past testXSet's final XCARD
\* with any other cardinality must have failed an assertion by then; the
\* code (line 758) takes xcard from that XCARD with none.
QuiescedExact ==
    \A w \in Workers :
        /\ pc[w] = "getMaxlen"
        /\ xcard[w] # (IF LENGTH < MAXLEN THEN LENGTH ELSE MAXLEN)
        => failed # {} \/ aborted

\* The spawn/join driver of testXSet implements WorkerPool: each goroutine's
\* done <- true is taken once, the caller goes on (c <- true) only after all
\* COUNT signals are in, and under the scheduler's fairness every signal is
\* taken and the join completes unless a panic ends the binary first.
ImplementsWorkerPool == Pool!PoolSpec

=============================================================================
