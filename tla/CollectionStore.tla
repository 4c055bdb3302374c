-------------------------- MODULE CollectionStore --------------------------
(***************************************************************************)
(* The store side of the unbounded types (counter, list, hash, set,        *)
(* score-ordered set) as the harness in src/units/stress consumes them.    *)
(* Not code under src/: modelled from spec.md 3 and 6.  Every command is   *)
(* atomic on its key (spec.md 5: "the collection type itself is the only   *)
(* serialization boundary").  Members, fields, values and scores are the   *)
(* integers the harness formats with %d; a hash field always carries its   *)
(* own number as value, and a zset member its own number as score, so a    *)
(* hash is its set of fields and a zset its set of members.                *)
(***************************************************************************)
EXTENDS Integers, FiniteSets, Sequences

CONSTANTS
    Keys,      \* the keys the clients use
    Members    \* the members a client may write: a finite set of Nat

VARIABLES
    counter,   \* counter[k]: the integer under k (0 = absent: INCR starts at 1)
    list,      \* list[k]: the list under k (<<>> = absent)
    hash,      \* hash[k]: the fields of the hash under k
    set,       \* set[k]: the members of the set under k
    zset       \* zset[k]: the members of the score-ordered set under k

collVars == <<counter, list, hash, set, zset>>

CollTypeOK ==
    /\ counter \in [Keys -> Nat]
    /\ list \in [Keys -> Seq(Members)]
    /\ hash \in [Keys -> SUBSET Members]
    /\ set \in [Keys -> SUBSET Members]
    /\ zset \in [Keys -> SUBSET Members]

\* EXISTS key
KeyExists(k) ==
    counter[k] # 0 \/ list[k] # <<>> \/ hash[k] # {} \/ set[k] # {} \/ zset[k] # {}

\* The members of S in ascending order (rank i-1 at index i).
Sorted(S) ==
    [i \in 1..Cardinality(S) |-> CHOOSE x \in S : Cardinality({y \in S : y < x}) = i - 1]

\* INCR key
Incr(k) ==
    /\ counter' = [counter EXCEPT ![k] = @ + 1]
    /\ UNCHANGED <<list, hash, set, zset>>

\* RPUSH key member
RPush(k, m) ==
    /\ list' = [list EXCEPT ![k] = Append(@, m)]
    /\ UNCHANGED <<counter, hash, set, zset>>

\* HMSET key f v f v ...: fields already there are overwritten.
HMSet(k, fs) ==
    /\ hash' = [hash EXCEPT ![k] = @ \cup fs]
    /\ UNCHANGED <<counter, list, set, zset>>

\* SADD key m ...: replies the number of members not there before.
SAddReply(k, ms) == Cardinality(ms \ set[k])

SAdd(k, ms) ==
    /\ set' = [set EXCEPT ![k] = @ \cup ms]
    /\ UNCHANGED <<counter, list, hash, zset>>

\* ZADD key s m ...: replies the number of members added (not updated).
ZAddReply(k, ms) == Cardinality(ms \ zset[k])

ZAdd(k, ms) ==
    /\ zset' = [zset EXCEPT ![k] = @ \cup ms]
    /\ UNCHANGED <<counter, list, hash, set>>

\* HGETALL key: the flat field/value reply has two entries per field.
HGetAllLen(k) == 2 * Cardinality(hash[k])

\* ZRANGE key 0 -1 WITHSCORES, one entry per (member, score) pair.
ZRangeAll(k) == Sorted(zset[k])

\* DEL key: every type stored under k goes.
DelKey(k) ==
    /\ counter' = [counter EXCEPT ![k] = 0]
    /\ list' = [list EXCEPT ![k] = <<>>]
    /\ hash' = [hash EXCEPT ![k] = {}]
    /\ set' = [set EXCEPT ![k] = {}]
    /\ zset' = [zset EXCEPT ![k] = {}]

\* SREM / HDEL / ZREM key m: removes one member or field.
SRem(k, m) ==
    /\ set' = [set EXCEPT ![k] = @ \ {m}]
    /\ UNCHANGED <<counter, list, hash, zset>>

HDel(k, m) ==
    /\ hash' = [hash EXCEPT ![k] = @ \ {m}]
    /\ UNCHANGED <<counter, list, set, zset>>

ZRem(k, m) ==
    /\ zset' = [zset EXCEPT ![k] = @ \ {m}]
    /\ UNCHANGED <<counter, list, hash, set>>

\* LREM key 0 v: removes every occurrence of v; replies how many.
LRemReply(k, v) == Cardinality({i \in 1..Len(list[k]) : list[k][i] = v})

LRem(k, v) ==
    /\ list' = [list EXCEPT ![k] = SelectSeq(@, LAMBDA x : x # v)]
    /\ UNCHANGED <<counter, hash, set, zset>>

\* LTRIM key start stop, with a negative stop counted from the tail
\* (stop = -1 is the last element): keeps positions start..stop.
LTrim(k, start, stop) ==
    LET l    == list[k]
        last == IF stop < 0 THEN Len(l) + stop ELSE stop
        hi   == IF last >= Len(l) THEN Len(l) - 1 ELSE last
    IN  /\ list' = [list EXCEPT ![k] = IF start > hi THEN <<>> ELSE SubSeq(l, start + 1, hi + 1)]
        /\ UNCHANGED <<counter, hash, set, zset>>

\* ZREMRANGEBYRANK key start -1: drops the members of rank start and above.
ZRankFrom(k, start) ==
    LET asc == Sorted(zset[k]) IN {asc[i] : i \in (start + 1)..Len(asc)}

ZRemRangeByRank(k, start) ==
    /\ zset' = [zset EXCEPT ![k] = @ \ ZRankFrom(k, start)]
    /\ UNCHANGED <<counter, list, hash, set>>

=============================================================================
