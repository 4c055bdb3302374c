-------------------------- MODULE BoundedSetStore --------------------------
(***************************************************************************)
(* The store side of a bounded, score-ordered collection (the ndb "xset"   *)
(* and "oset" types) as the harness in src/units/stress consumes it.  The  *)
(* store is not code under src/: every definition here is modelled from    *)
(* the contract spec.md section 3, 4.3 and 6 states, which is exactly the  *)
(* contract the harness's tolerance check encodes:                         *)
(*   - a member is a long; its score equals the member in every harness    *)
(*     write, so the order by score is the order on integers;              *)
(*   - XADD/OADD with MAXLEN m fixes the key's maxlen (and finity) at      *)
(*     creation;                                                           *)
(*   - beyond maxlen the store drops the OLDEST (lowest) members, but      *)
(*     lazily: the cardinality it reports may stay anywhere in            *)
(*     [maxlen, 2*maxlen) and is never 2*maxlen or more after an insert;   *)
(*   - with Background = TRUE the store may also trim between two calls    *)
(*     of a client (trimming "not atomic with concurrent inserts").        *)
(* A key that loses its last member stops existing, as in the Redis model  *)
(* whose protocol the store speaks.                                        *)
(***************************************************************************)
EXTENDS Integers, FiniteSets, Sequences, TLC

LOCAL INSTANCE SequencesExt

CONSTANTS
    Keys,        \* the keys the clients use
    Members,     \* the members (= scores) a client may write: a finite set of Nat
    Background   \* TRUE: trimming may also run between client calls

ASSUME Members \subseteq Nat /\ Background \in BOOLEAN

VARIABLES
    elems,       \* elems[k]: the members stored under key k ({} = key absent)
    maxlen       \* maxlen[k]: the MAXLEN fixed at creation (0 = key absent)

storeVars == <<elems, maxlen>>

StoreTypeOK ==
    /\ elems \in [Keys -> SUBSET Members]
    /\ maxlen \in [Keys -> Nat]

Exists(k) == elems[k] # {}

Card(k) == Cardinality(elems[k])

\* The s highest-scored members of S: what is left after dropping the oldest.
Newest(S, s) == {x \in S : Cardinality({y \in S : y > x}) < s}

\* The sizes a lazily trimmed key of c members and bound m may report.
TrimSizes(c, m) == IF c <= m THEN {c} ELSE {s \in m..c : s < 2 * m}

\* The members of S in ascending score order (rank i-1 at index i).
Ascending(S) ==
    [i \in 1..Cardinality(S) |-> CHOOSE x \in S : Cardinality({y \in S : y < x}) = i - 1]

\* XRANGE key 0 -1 / XRANGEBYSCORE -inf +inf (rev = FALSE) and their
\* XREV... counterparts: the members in score order, one entry per element
\* (member and score are equal, so the pair collapses to one value).
RangeReply(k, rev) ==
    LET asc == Ascending(elems[k])
    IN  IF rev THEN Reverse(asc) ELSE asc

\* XSCORE key member: the score, or nil for an absent member.
ScoreReply(k, m) == IF m \in elems[k] THEN m ELSE -1

\* XADD key MAXLEN ml member: insert, then trim lazily to the key's bound.
XAdd(k, m, ml) ==
    LET bound == IF Exists(k) THEN maxlen[k] ELSE ml
        S     == elems[k] \cup {m}
    IN  /\ maxlen' = [maxlen EXCEPT ![k] = bound]
        /\ \E s \in TrimSizes(Cardinality(S), bound) :
              elems' = [elems EXCEPT ![k] = Newest(S, s)]

\* A trim the store runs on its own between two client calls.
Trim(k) ==
    /\ Background
    /\ Card(k) > maxlen[k]
    /\ \E s \in maxlen[k]..(Card(k) - 1) :
          elems' = [elems EXCEPT ![k] = Newest(elems[k], s)]
    /\ UNCHANGED maxlen

\* Removes S from key k; a key left empty stops existing, its meta with it.
Drop(k, S) ==
    /\ elems' = [elems EXCEPT ![k] = elems[k] \ S]
    /\ maxlen' = [maxlen EXCEPT ![k] = IF elems[k] \ S = {} THEN 0 ELSE @]

\* XREM key member: removes one member; replies 1 if it was there.
XRem(k, m) == Drop(k, {m})

\* XREMRANGEBYRANK key start -1: drops the members of rank start and above.
RankFrom(k, start) ==
    LET asc == Ascending(elems[k])
    IN  {asc[i] : i \in (start + 1)..Len(asc)}

XRemRangeByRank(k, start) == Drop(k, RankFrom(k, start))

\* DEL key: replies 1 if the key existed.
Del(k) == Drop(k, elems[k])

\* NSDEL ns followed by NSNEW ns: the namespace exists and holds no key.
NsReset ==
    /\ elems' = [k \in Keys |-> {}]
    /\ maxlen' = [k \in Keys |-> 0]

=============================================================================
