----------------------------- MODULE AgingTool -----------------------------
(***************************************************************************)
(* setupExpire of src/units/stress/compaction_setup.go for one namespace:  *)
(* createNamespace; four passes i = 1, 2, 4, 8 in which setup() spawns     *)
(* Routines goroutines that run the type's callback on each of their       *)
(* Count keys and EXPIRE the keys with id % i = 0, each pass followed by a *)
(* sleep of expire seconds; a pass that DELs every key with id % 3 = 0,    *)
(* another sleep, and two COMPACTs.  main() runs this for eight namespaces *)
(* at once; they share no key, so one namespace is modelled.               *)
(*                                                                         *)
(* Time is a tick counter: a sleep advances it by Expire ticks, and time   *)
(* may also pass while the routines work (Tick), MaxDrift ticks in all.  The store  *)
(* treats a key whose deadline has passed as absent; COMPACT reclaims it.  *)
(*                                                                         *)
(* A failing store call is log.Fatal: the tool dies mid-run, leaving the   *)
(* namespace as far as it got, and is run again (up to MaxRestarts times); *)
(* the store keeps its keys and its clock across the crash.                *)
(***************************************************************************)
EXTENDS Integers, FiniteSets

CONSTANTS
    Routines,   \* routines: goroutines per setup() call
    Requested,  \* the count argument of the command line
    Expire,     \* expire: the TTL and the sleep, in ticks
    Callbacks,  \* the entries of the tests map to explore: "str", "int", ...
    MaxDrift,   \* bound on the ticks that pass besides the sleeps
    MaxNow,     \* bound on the clock
    MaxRestarts \* bound on the reruns after a log.Fatal

ASSUME Routines \in Nat \ {0} /\ Requested \in Nat /\ Expire \in Nat \ {0}
ASSUME Callbacks \subseteq {"str", "int", "set", "hash", "list", "zset", "xset", "oset"}
ASSUME MaxDrift \in Nat /\ MaxNow \in Nat /\ MaxRestarts \in Nat

\* count /= routines: the keys per routine.
Count == Requested \div Routines

\* The key ids: r*count + c for routine r and c < count.
Ids == 0..(Routines * Count - 1)

\* The passes of the expire loop: i := 1; i <= 8; i *= 2.
LastPass == 8

VARIABLES
    nsname,    \* the namespace, and with it the callback cb
    now,       \* the clock, in ticks
    exists,    \* exists[id]: the store holds key id (live or expired)
    deadline,  \* deadline[id]: the tick its TTL runs out (0: no TTL)
    tpc,       \* where setupExpire is
    pass,      \* i of the expire loop
    rpc,       \* rpc[r]: what routine r of the current setup() does next
    rc,        \* rc[r]: its loop index c
    recv,      \* signals setup() has received from done
    restarts,  \* the runs that ended in log.Fatal
    drift      \* the ticks that have passed besides the sleeps

vars == <<nsname, now, exists, deadline, tpc, pass, rpc, rc, recv, restarts, drift>>

Routine == 0..(Routines - 1)

\* The values c of the for c loop takes for a key.
KeyIndex == 0..(Count - 1)

TypeOK ==
    /\ nsname \in Callbacks
    /\ now \in 0..MaxNow
    /\ exists \in [Ids -> BOOLEAN]
    /\ deadline \in [Ids -> 0..(MaxNow + Expire)]
    /\ tpc \in {"ns", "join", "sleep", "delJoin", "sleepDel", "compact1",
                "compact2", "done"}
    /\ pass \in {1, 2, 4, 8}
    /\ rpc \in [Routine -> {"idle", "cb", "expire", "del", "send", "exit"}]
    /\ rc \in [Routine -> KeyIndex \cup {0}]
    /\ recv \in 0..Routines
    /\ restarts \in 0..MaxRestarts
    /\ drift \in 0..MaxDrift

Init ==
    /\ nsname \in Callbacks
    /\ now = 0
    /\ exists = [id \in Ids |-> FALSE]
    /\ deadline = [id \in Ids |-> 0]
    /\ tpc = "ns"
    /\ pass = 1
    /\ rpc = [r \in Routine |-> "idle"]
    /\ rc = [r \in Routine |-> 0]
    /\ recv = 0
    /\ restarts = 0
    /\ drift = 0

----------------------------------------------------------------------------
(* The store's view of a key.                                              *)

\* A key is live while it exists and its TTL, if any, has not run out.
Live(id) == exists[id] /\ (deadline[id] = 0 \/ now < deadline[id])

\* A TTL that has been set and not yet landed.
Pending(id) == exists[id] /\ deadline[id] # 0 /\ now < deadline[id]

\* The keys left after the run: pass 8 expires the multiples of 8 (and with
\* them those of 1, 2 and 4, which the later passes re-created), and the
\* delete pass removes the multiples of 3.
Expected == {id \in Ids : id % LastPass # 0 /\ id % 3 # 0}

\* The key routine r works on.
KeyOf(r) == r * Count + rc[r]

----------------------------------------------------------------------------
(* setupExpire                                                             *)

\* setup(): spawn routines goroutines, each with c = 0; count = 0 sends at once.
Spawn(first) ==
    /\ rpc' = [r \in Routine |-> IF Count > 0 THEN first ELSE "send"]
    /\ rc' = [r \in Routine |-> 0]
    /\ recv' = 0

\* Mutation of createNamespace: NSNEW alone, the NSDEL dropped, so that the
\* keys of a namespace that already exists are kept.
CreateNamespaceKeep ==
    /\ tpc = "ns"
    /\ tpc' = "join"
    /\ Spawn("cb")
    /\ UNCHANGED <<nsname, drift, restarts, now, pass, exists, deadline>>

\* createNamespace (NSDEL, NSNEW) and the setup() of pass i = 1.
CreateNamespace ==
    /\ tpc = "ns"
    /\ exists' = [id \in Ids |-> FALSE]
    /\ deadline' = [id \in Ids |-> 0]
    /\ tpc' = "join"
    /\ Spawn("cb")
    /\ UNCHANGED <<nsname, drift, restarts, now, pass>>

\* Mutation of the for c loop's bound: c <= count.
StepLoopBound(r, first) ==
    /\ rc' = [rc EXCEPT ![r] = IF @ < Count THEN @ + 1 ELSE @]
    /\ rpc' = [rpc EXCEPT ![r] = IF rc[r] < Count THEN first ELSE "send"]

\* The for c loop: the next key, or the send on done.
Step(r, first) ==
    /\ rc' = [rc EXCEPT ![r] = IF @ + 1 < Count THEN @ + 1 ELSE @]
    /\ rpc' = [rpc EXCEPT ![r] = IF rc[r] + 1 < Count THEN first ELSE "send"]

\* SET, the command of setupStr, drops a TTL; the commands of the other
\* callbacks (INCR, SADD, HMSET, RPUSH+LTRIM, ZADD, XADD, OADD) keep it.
ClearsTTL == nsname = "str"

\* The type's callback on the key: a key that is absent or whose TTL has run
\* out is created afresh without a TTL; on a live key it keeps its TTL
\* unless the command is SET.
Touch(id) ==
    /\ exists' = [exists EXCEPT ![id] = TRUE]
    /\ deadline' = [deadline EXCEPT ![id] =
                        IF Live(id) /\ ~ClearsTTL THEN @ ELSE 0]

\* cb(conn, key), then on to the EXPIRE if id % i == 0.  The closure reads i
\* of the loop in setupExpire when it runs.
Callback(r) ==
    LET id == KeyOf(r) IN
    /\ rpc[r] = "cb"
    /\ Touch(id)
    /\ IF id % pass = 0
         THEN rpc' = [rpc EXCEPT ![r] = "expire"] /\ UNCHANGED rc
         ELSE Step(r, "cb")
    /\ UNCHANGED <<nsname, drift, restarts, now, tpc, pass, recv>>

\* EXPIRE key expire: sets the TTL of a live key; on a missing key it
\* replies 0 and changes nothing.
ExpireKey(r) ==
    LET id == KeyOf(r) IN
    /\ rpc[r] = "expire"
    /\ deadline' = [deadline EXCEPT ![id] = IF Live(id) THEN now + Expire ELSE @]
    /\ Step(r, "cb")
    /\ UNCHANGED <<nsname, drift, restarts, now, exists, tpc, pass, recv>>

\* The delete pass's callback: DEL key when id % 3 == 0.
DelKey(r) ==
    LET id == KeyOf(r) IN
    /\ rpc[r] = "del"
    /\ exists' = [exists EXCEPT ![id] = IF id % 3 = 0 THEN FALSE ELSE @]
    /\ deadline' = [deadline EXCEPT ![id] = IF id % 3 = 0 THEN 0 ELSE @]
    /\ Step(r, "del")
    /\ UNCHANGED <<nsname, drift, restarts, now, tpc, pass, recv>>

\* done <- true, taken by one <-done of setup's join loop.
Receive(r) ==
    /\ rpc[r] = "send"
    /\ tpc \in {"join", "delJoin"}
    /\ recv < Routines
    /\ rpc' = [rpc EXCEPT ![r] = "exit"]
    /\ recv' = recv + 1
    /\ UNCHANGED <<nsname, drift, restarts, now, exists, deadline, tpc, pass, rc>>

\* Mutation of the join loop: it waits for one signal more than it spawned.
JoinedOneTooMany ==
    /\ tpc \in {"join", "delJoin"}
    /\ recv = Routines + 1
    /\ tpc' = IF tpc = "join" THEN "sleep" ELSE "sleepDel"
    /\ UNCHANGED <<nsname, drift, restarts, now, exists, deadline, pass, rpc, rc, recv>>

\* Mutation of the join loop: it waits for one signal fewer than it spawned.
JoinedOneShort ==
    /\ tpc \in {"join", "delJoin"}
    /\ recv = Routines - 1
    /\ tpc' = IF tpc = "join" THEN "sleep" ELSE "sleepDel"
    /\ UNCHANGED <<nsname, drift, restarts, now, exists, deadline, pass, rpc, rc, recv>>

\* The join loop has taken routines signals: setup() returns.
Joined ==
    /\ tpc \in {"join", "delJoin"}
    /\ recv = Routines
    /\ tpc' = IF tpc = "join" THEN "sleep" ELSE "sleepDel"
    /\ UNCHANGED <<nsname, drift, restarts, now, exists, deadline, pass, rpc, rc, recv>>

\* Mutation of the sleep: one tick shorter than the TTL.
SleepShort ==
    /\ tpc = "sleep"
    /\ now' = now + Expire - 1
    /\ IF pass * 2 <= LastPass
         THEN tpc' = "join" /\ pass' = pass * 2 /\ Spawn("cb")
         ELSE tpc' = "delJoin" /\ UNCHANGED pass /\ Spawn("del")
    /\ UNCHANGED <<nsname, drift, restarts, exists, deadline>>

\* Mutation of the expire loop's bound: i < 8, so the last pass is 4.
SleepLoopBound ==
    /\ tpc = "sleep"
    /\ now' = now + Expire
    /\ IF pass * 2 < LastPass
         THEN tpc' = "join" /\ pass' = pass * 2 /\ Spawn("cb")
         ELSE tpc' = "delJoin" /\ UNCHANGED pass /\ Spawn("del")
    /\ UNCHANGED <<nsname, drift, restarts, exists, deadline>>

\* time.Sleep(expire), then i *= 2: the next expire pass, or the delete pass.
Sleep ==
    /\ tpc = "sleep"
    /\ now' = now + Expire
    /\ IF pass * 2 <= LastPass
         THEN tpc' = "join" /\ pass' = pass * 2 /\ Spawn("cb")
         ELSE tpc' = "delJoin" /\ UNCHANGED pass /\ Spawn("del")
    /\ UNCHANGED <<nsname, drift, restarts, exists, deadline>>

\* The sleep after the delete pass.
SleepDel ==
    /\ tpc = "sleepDel"
    /\ now' = now + Expire
    /\ tpc' = "compact1"
    /\ UNCHANGED <<nsname, drift, restarts, exists, deadline, pass, rpc, rc, recv>>

\* COMPACT nsname: the store reclaims every key that is deleted or expired.
Compact ==
    /\ tpc \in {"compact1", "compact2"}
    /\ exists' = [id \in Ids |-> Live(id)]
    /\ deadline' = [id \in Ids |-> IF Live(id) THEN deadline[id] ELSE 0]
    /\ tpc' = IF tpc = "compact1" THEN "compact2" ELSE "done"
    /\ UNCHANGED <<nsname, drift, restarts, now, pass, rpc, rc, recv>>

\* Time passes while the routines talk to the store, MaxDrift ticks in all.
Tick ==
    /\ tpc \in {"join", "delJoin"}
    /\ drift < MaxDrift
    /\ now' = now + 1
    /\ drift' = drift + 1
    /\ UNCHANGED <<nsname, restarts, exists, deadline, tpc, pass, rpc, rc, recv>>

\* A store call fails: the Dial, NSDEL or NSNEW of createNamespace, a
\* routine's Dial, its callback's command, EXPIRE or DEL, or a COMPACT (a
\* routine about to send has had the reply of its last call lost).  The
\* log.Fatal ends the process with its goroutines; what the store applied
\* stays.  The tool is run again from the start.
Fatal ==
    /\ restarts < MaxRestarts
    /\ \/ tpc \in {"ns", "compact1", "compact2"}
       \/ /\ tpc \in {"join", "delJoin"}
          /\ \E r \in Routine : rpc[r] \in {"cb", "expire", "del", "send"}
    /\ restarts' = restarts + 1
    /\ tpc' = "ns"
    /\ pass' = 1
    /\ rpc' = [r \in Routine |-> "idle"]
    /\ rc' = [r \in Routine |-> 0]
    /\ recv' = 0
    /\ UNCHANGED <<nsname, drift, now, exists, deadline>>

\* setupExpire has returned.
Terminated == tpc = "done" /\ UNCHANGED vars

Worker(r) == Callback(r) \/ ExpireKey(r) \/ DelKey(r) \/ Receive(r)

Tool == CreateNamespace \/ Joined \/ Sleep \/ SleepDel \/ Compact

Next == Tool \/ Tick \/ Fatal \/ Terminated \/ \E r \in Routine : Worker(r)

\* The goroutines are scheduled fairly; nothing forces the clock to tick,
\* only the sleeps advance it, and no store call is bound to fail.
Spec == Init /\ [][Next]_vars /\ WF_vars(Tool)
                /\ \A r \in Routine : WF_vars(Worker(r))

----------------------------------------------------------------------------
(* Properties                                                              *)

\* The callback of a pass never meets a TTL set by an earlier pass: every
\* EXPIRE has landed before the next setup() touches the key.  INCR, SADD,
\* HMSET, RPUSH, ZADD, XADD and OADD keep a pending TTL, so a TTL carried
\* over would expire the key in the middle of the next pass.  It rests on
\* setup() joining all routines before it returns and on the sleep being at
\* least the TTL.
NoTTLCarriedOver ==
    [][\A r \in Routine : Callback(r) => ~Pending(KeyOf(r))]_vars

\* The callback closure reads the loop variable i of setupExpire whenever
\* a routine runs it, so i *= 2 is safe only if no routine of the setup()
\* call can still run: i changes (other than by a rerun after log.Fatal)
\* only once every routine has sent on done and been received.
ClosureSeesItsPass ==
    [][pass' # pass /\ restarts' = restarts => \A r \in Routine : rpc[r] = "exit"]_vars

\* When setupExpire returns, the compacted namespace holds exactly the keys
\* that are neither multiples of 8 nor of 3, none of them with a TTL.
FinalPopulation ==
    tpc = "done" =>
        /\ {id \in Ids : exists[id]} = Expected
        /\ \A id \in Ids : deadline[id] = 0

\* setupExpire returns: every setup() join completes and every sleep ends.
Completes == <>(tpc = "done")

=============================================================================
