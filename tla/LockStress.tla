---------------------------- MODULE LockStress ----------------------------
(***************************************************************************)
(* testLock of src/units/stress/stress_test.go (lines 33-203): COUNT       *)
(* goroutines write ONE shared key per type -- INCR int, RPUSH list,       *)
(* HMSET hash, SADD set, ZADD zset, XADD xset, OADD oset, LENGTH times     *)
(* each, member i*length+j -- and after the join a single reader checks    *)
(* every key against the closed form of card = count*length writes and     *)
(* deletes it.  The keys live in the default namespace: testLock calls no  *)
(* createNamespace, so the store may hold what an earlier, interrupted run *)
(* left (Stale).  Every call is one atomic step; a failed assertion is     *)
(* recorded in "failed", a panic (nil reply, short reply) sets "aborted".  *)
(***************************************************************************)
EXTENDS Integers, FiniteSets, Sequences

CONSTANTS
    COUNT,    \* count: the writing goroutines 0..COUNT-1
    LENGTH,   \* length: writes per goroutine and type
    Stale     \* TRUE: a key may hold a leftover of an earlier run

ASSUME COUNT \in Nat \ {0} /\ LENGTH \in Nat \ {0} /\ Stale \in BOOLEAN

Workers == 0..(COUNT - 1)
card == COUNT * LENGTH
Members == 0..(card - 1)
CollKeys == {"int", "list", "hash", "set", "zset"}
BoundedKeys == {"xset", "oset"}

VARIABLES
    counter, list, hash, set, zset,  \* the unbounded keys (CollectionStore)
    xelems, xmaxlen,                 \* the bounded keys (BoundedSetStore)
    mainPc,      \* the testLock caller
    recv,        \* signals received from "done"
    pc,          \* pc[w]: "idle", "write", "send" or "exit"
    phase,       \* phase[w]: the write loop goroutine w is in (1..7)
    j,           \* j[w]: the index in that loop
    rpc,         \* the reader's position in Program
    rbegin,      \* begin of the bounded set being checked
    rcard,       \* xcard / ocard of the bounded set being checked
    failed,      \* commands whose assertion failed
    aborted      \* a panic ended the test binary

Coll == INSTANCE CollectionStore WITH Keys <- CollKeys, Members <- Members
Bounded == INSTANCE BoundedSetStore
               WITH Keys <- BoundedKeys, Members <- Members, Background <- FALSE,
                    elems <- xelems, maxlen <- xmaxlen

vars == <<counter, list, hash, set, zset, xelems, xmaxlen, mainPc, recv, pc,
          phase, j, rpc, rbegin, rcard, failed, aborted>>
storeVars == <<counter, list, hash, set, zset, xelems, xmaxlen>>
writerVars == <<pc, phase, j>>
readerVars == <<rpc, rbegin, rcard>>

\* The write loops of a goroutine, in program order.
Phases == <<"INCR", "RPUSH", "HMSET", "SADD", "ZADD", "XADD", "OADD">>

\* Mutation: the member drops the goroutine's stride (i+j).
MemberNoStride(i, jj) == i + jj

\* fmt.Sprintf("%d", i*length+j)
Member(i, jj) == i * LENGTH + jj

\* The reader: each check followed by checkDelete of its key.
WithDelete(cmds, k) ==
    [i \in 1..(Len(cmds) + 3) |->
        IF i <= Len(cmds) THEN [cmd |-> cmds[i], key |-> k]
        ELSE [cmd |-> <<"EXISTS1", "DEL", "EXISTS2">>[i - Len(cmds)], key |-> k]]

Program ==
    WithDelete(<<"GET">>, "int") \o WithDelete(<<"LRANGE">>, "list")
    \o WithDelete(<<"HGETALL">>, "hash") \o WithDelete(<<"SMEMBERS">>, "set")
    \o WithDelete(<<"ZRANGE">>, "zset") \o WithDelete(<<"XCARD", "XRANGE">>, "xset")
    \o WithDelete(<<"XCARD", "XRANGE">>, "oset")

TypeOK ==
    /\ Coll!CollTypeOK
    /\ Bounded!StoreTypeOK
    /\ mainPc \in {"spawn", "join", "read", "finished"}
    /\ recv \in 0..COUNT
    /\ pc \in [Workers -> {"idle", "write", "send", "exit"}]
    /\ phase \in [Workers -> 1..Len(Phases)]
    /\ j \in [Workers -> 0..(LENGTH - 1)]
    /\ rpc \in 1..(Len(Program) + 1)
    /\ rcard \in 0..card
    /\ rbegin \in (-card)..card
    /\ failed \subseteq {"INCR", "SADD", "ZADD", "XADD", "OADD", "GET", "LRANGE",
                         "HGETALL", "SMEMBERS", "ZRANGE", "XRANGE", "EXISTS", "DEL"}
    /\ aborted \in BOOLEAN

\* What a key may hold when testLock starts: nothing, or (Stale) what an
\* earlier run left before its checkDelete -- a write of member 0.
Leftover(none, some) == IF Stale THEN {none, some} ELSE {none}

Init ==
    /\ counter \in {[k \in CollKeys |-> IF k = "int" THEN c ELSE 0] : c \in Leftover(0, 1)}
    /\ list \in {[k \in CollKeys |-> IF k = "list" THEN l ELSE <<>>] :
                  l \in Leftover(<<>>, <<0>>)}
    /\ hash \in {[k \in CollKeys |-> IF k = "hash" THEN h ELSE {}] : h \in Leftover({}, {0})}
    /\ set \in {[k \in CollKeys |-> IF k = "set" THEN x ELSE {}] : x \in Leftover({}, {0})}
    /\ zset \in {[k \in CollKeys |-> IF k = "zset" THEN z ELSE {}] : z \in Leftover({}, {0})}
    /\ xelems \in {[k \in BoundedKeys |-> IF k = "xset" THEN x ELSE o] :
                    x \in Leftover({}, {0}), o \in Leftover({}, {0})}
    /\ xmaxlen = [k \in BoundedKeys |-> IF xelems[k] = {} THEN 0 ELSE card]
    /\ mainPc = "spawn"
    /\ recv = 0
    /\ pc = [w \in Workers |-> "idle"]
    /\ phase = [w \in Workers |-> 1]
    /\ j = [w \in Workers |-> 0]
    /\ rpc = 1
    /\ rbegin = 0
    /\ rcard = 0
    /\ failed = {}
    /\ aborted = FALSE

----------------------------------------------------------------------------
(* Helpers of the oracle.                                                  *)

\* assert.Equal(expected, got, cmd): records cmd when they differ.
Check(ok, cmd) == failed' = IF ok THEN failed ELSE failed \cup {cmd}

\* checkSetRange / checkListRange: sort the reply numerically (Digits), then
\* compare its length and items[i] with i for i < length; an item missing
\* there panics.  A reply is a sequence; a set reply is a duplicate-free one.
CheckDigits(a, len, cmd) ==
    /\ Check(Len(a) = len /\ {a[i] : i \in 1..Len(a)} = 0..(len - 1), cmd)
    /\ aborted' = (Len(a) < len)

\* checkXSetRange / checkOSetRange without reverse: items[i] is begin+i.
CheckAscending(a, b, len, cmd) ==
    /\ Check(a = [i \in 1..len |-> b + i - 1], cmd)
    /\ aborted' = (Len(a) < len)

KeyExists(k) == IF k \in BoundedKeys THEN Bounded!Exists(k) ELSE Coll!KeyExists(k)

\* Mutation: the write loops run while j <= length.
AdvanceLoopBound(w) ==
    IF j[w] + 1 <= LENGTH
    THEN /\ j' = [j EXCEPT ![w] = @ + 1]
         /\ UNCHANGED <<phase, pc>>
    ELSE /\ j' = [j EXCEPT ![w] = 0]
         /\ IF phase[w] < Len(Phases)
            THEN /\ phase' = [phase EXCEPT ![w] = @ + 1]
                 /\ UNCHANGED pc
            ELSE /\ pc' = [pc EXCEPT ![w] = "send"]
                 /\ UNCHANGED phase

\* The goroutine moves to the next write, the next loop, or done <- true.
Advance(w) ==
    IF j[w] + 1 < LENGTH
    THEN /\ j' = [j EXCEPT ![w] = @ + 1]
         /\ UNCHANGED <<phase, pc>>
    ELSE /\ j' = [j EXCEPT ![w] = 0]
         /\ IF phase[w] < Len(Phases)
            THEN /\ phase' = [phase EXCEPT ![w] = @ + 1]
                 /\ UNCHANGED pc
            ELSE /\ pc' = [pc EXCEPT ![w] = "send"]
                 /\ UNCHANGED phase

----------------------------------------------------------------------------
(* The caller: spawn loop, join loop, then the reader.                     *)

Spawn ==
    /\ mainPc = "spawn"
    /\ mainPc' = "join"
    /\ pc' = [w \in Workers |-> "write"]
    /\ UNCHANGED <<storeVars, recv, phase, j, readerVars, failed, aborted>>

Receive(w) ==
    /\ mainPc = "join"
    /\ recv < COUNT
    /\ pc[w] = "send"
    /\ pc' = [pc EXCEPT ![w] = "exit"]
    /\ recv' = recv + 1
    /\ UNCHANGED <<storeVars, mainPc, phase, j, readerVars, failed, aborted>>

\* Mutation: the join loop stops one signal short.
JoinedOneShort ==
    /\ mainPc = "join"
    /\ recv >= COUNT - 1
    /\ mainPc' = "read"
    /\ UNCHANGED <<storeVars, recv, writerVars, readerVars, failed, aborted>>

\* All signals are in: the reader dials its connection.
Joined ==
    /\ mainPc = "join"
    /\ recv = COUNT
    /\ mainPc' = "read"
    /\ UNCHANGED <<storeVars, recv, writerVars, readerVars, failed, aborted>>

\* c <- true after the last checkDelete.
Signal ==
    /\ mainPc = "read"
    /\ rpc = Len(Program) + 1
    /\ mainPc' = "finished"
    /\ UNCHANGED <<storeVars, recv, writerVars, readerVars, failed, aborted>>

----------------------------------------------------------------------------
(* A writing goroutine: one action per call of its seven loops.            *)

Writing(w, p) == pc[w] = "write" /\ Phases[phase[w]] = p

IncrStep(w) ==
    /\ Writing(w, "INCR")
    /\ Coll!Incr("int")
    /\ Advance(w)
    /\ UNCHANGED <<xelems, xmaxlen, mainPc, recv, readerVars, failed, aborted>>

RPushStep(w) ==
    /\ Writing(w, "RPUSH")
    /\ Coll!RPush("list", Member(w, j[w]))
    /\ Advance(w)
    /\ UNCHANGED <<xelems, xmaxlen, mainPc, recv, readerVars, failed, aborted>>

\* HMSET hash m m m m m m: one field, written three times.
HMSetStep(w) ==
    /\ Writing(w, "HMSET")
    /\ Coll!HMSet("hash", {Member(w, j[w])})
    /\ Advance(w)
    /\ UNCHANGED <<xelems, xmaxlen, mainPc, recv, readerVars, failed, aborted>>

\* SADD set m m m must reply 1: a member repeated in one command counts once.
SAddStep(w) ==
    /\ Writing(w, "SADD")
    /\ Check(Coll!SAddReply("set", {Member(w, j[w])}) = 1, "SADD")
    /\ Coll!SAdd("set", {Member(w, j[w])})
    /\ Advance(w)
    /\ UNCHANGED <<xelems, xmaxlen, mainPc, recv, readerVars, aborted>>

ZAddStep(w) ==
    /\ Writing(w, "ZADD")
    /\ Check(Coll!ZAddReply("zset", {Member(w, j[w])}) = 1, "ZADD")
    /\ Coll!ZAdd("zset", {Member(w, j[w])})
    /\ Advance(w)
    /\ UNCHANGED <<xelems, xmaxlen, mainPc, recv, readerVars, aborted>>

\* XADD xset maxlen card (m m)x3 and OADD oset maxlen card m m m: the bound
\* is the total card, so the store never has to trim; each must reply 1.
BoundedAdd(w, p, k) ==
    /\ Writing(w, p)
    /\ Check(Member(w, j[w]) \notin xelems[k], p)
    /\ Bounded!XAdd(k, Member(w, j[w]), card)
    /\ Advance(w)
    /\ UNCHANGED <<counter, list, hash, set, zset, mainPc, recv, readerVars, aborted>>

XAddStep(w) == BoundedAdd(w, "XADD", "xset")

OAddStep(w) == BoundedAdd(w, "OADD", "oset")

Writer(w) ==
    \/ IncrStep(w) \/ RPushStep(w) \/ HMSetStep(w) \/ SAddStep(w)
    \/ ZAddStep(w) \/ XAddStep(w) \/ OAddStep(w)

----------------------------------------------------------------------------
(* The reader, one action per call, in the order of Program.               *)

Reading(c) == mainPc = "read" /\ rpc <= Len(Program) /\ Program[rpc].cmd = c

Key == Program[rpc].key

ReadStep(check) ==
    /\ check
    /\ rpc' = rpc + 1
    /\ UNCHANGED <<storeVars, mainPc, recv, writerVars, rbegin, rcard>>

\* GET int equals card; a nil reply (absent key) panics in n.([]byte).
GetStep ==
    /\ Reading("GET")
    /\ ReadStep(/\ Check(counter["int"] = card, "GET")
                /\ aborted' = (counter["int"] = 0))

LRangeStep ==
    /\ Reading("LRANGE")
    /\ ReadStep(CheckDigits(list["list"], card, "LRANGE"))

\* HGETALL hash: only its length, 2*card, is checked.
HGetAllStep ==
    /\ Reading("HGETALL")
    /\ ReadStep(Check(Coll!HGetAllLen("hash") = 2 * card, "HGETALL") /\ UNCHANGED aborted)

SMembersStep ==
    /\ Reading("SMEMBERS")
    /\ ReadStep(CheckDigits(Coll!Sorted(set["set"]), card, "SMEMBERS"))

\* ZRANGE zset 0 -1 WITHSCORES against checkZSetRange(a, card, false).
ZRangeStep ==
    /\ Reading("ZRANGE")
    /\ ReadStep(CheckAscending(Coll!ZRangeAll("zset"), 0, card, "ZRANGE"))

\* XCARD / OCARD: the reader takes the cardinality and begin = card - it.
XCardStep ==
    /\ Reading("XCARD")
    /\ rcard' = Bounded!Card(Key)
    /\ rbegin' = card - Bounded!Card(Key)
    /\ rpc' = rpc + 1
    /\ UNCHANGED <<storeVars, mainPc, recv, writerVars, failed, aborted>>

\* XRANGE xset 0 -1 WITHSCORES / ORANGE oset 0 -1.
XRangeStep ==
    /\ Reading("XRANGE")
    /\ ReadStep(CheckAscending(Bounded!RangeReply(Key, FALSE), rbegin, rcard, "XRANGE"))

(* checkDelete: EXISTS replies 1, DEL replies 1, EXISTS replies 0.         *)

Exists1 ==
    /\ Reading("EXISTS1")
    /\ ReadStep(Check(KeyExists(Key), "EXISTS") /\ UNCHANGED aborted)

DelStep ==
    /\ Reading("DEL")
    /\ Check(KeyExists(Key), "DEL")
    /\ IF Key \in BoundedKeys
          THEN Bounded!Del(Key) /\ UNCHANGED <<counter, list, hash, set, zset>>
          ELSE Coll!DelKey(Key) /\ UNCHANGED <<xelems, xmaxlen>>
    /\ rpc' = rpc + 1
    /\ UNCHANGED <<mainPc, recv, writerVars, rbegin, rcard, aborted>>

Exists2 ==
    /\ Reading("EXISTS2")
    /\ ReadStep(Check(~KeyExists(Key), "EXISTS") /\ UNCHANGED aborted)

Reader ==
    \/ GetStep \/ LRangeStep \/ HGetAllStep \/ SMembersStep \/ ZRangeStep
    \/ XCardStep \/ XRangeStep \/ Exists1 \/ DelStep \/ Exists2

Caller == Spawn \/ Joined \/ Signal \/ \E w \in Workers : Receive(w)

Terminated ==
    /\ mainPc = "finished" \/ aborted
    /\ UNCHANGED vars

Next ==
    \/ ~aborted /\ (Caller \/ Reader \/ \E w \in Workers : Writer(w))
    \/ Terminated

\* Goroutines are scheduled and every call to the store returns.
Fairness ==
    /\ WF_vars(~aborted /\ (Caller \/ Reader))
    /\ \A w \in Workers : WF_vars(~aborted /\ Writer(w))

Spec == Init /\ [][Next]_vars /\ Fairness

\* The driver as WorkerPool sees it: a worker is done once its signal has
\* been taken, the caller is released once it passed the join (the reader runs after it), and
\* a panic crashes the binary.
Pool == INSTANCE WorkerPool WITH
            phase <- IF aborted THEN "crashed"
                     ELSE IF mainPc \in {"read", "finished"} THEN "released" ELSE "running",
            done <- {w \in Workers : pc[w] = "exit"}


----------------------------------------------------------------------------
(* Properties.                                                             *)

\* Soundness of the closed forms: whatever order the COUNT goroutines'
\* writes to the shared keys interleave in, the reader finds GET = card, a
\* list and a set holding exactly 0..card-1, 2*card hash entries, ranges
\* 0..card-1, and every add replying 1; no assertion fails, nothing panics.
HarnessSound == failed = {} /\ ~aborted

\* The spawn/join driver of testLock implements WorkerPool: each goroutine's
\* done <- true is taken once, the caller goes on (the reader dials) only after all
\* COUNT signals are in, and under the scheduler's fairness every signal is
\* taken and the join completes unless a panic ends the binary first.
ImplementsWorkerPool == Pool!PoolSpec

=============================================================================
