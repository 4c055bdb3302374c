---------------------------- MODULE StressMain ----------------------------
(***************************************************************************)
(* Test() of src/units/stress/stress_test.go: a range loop over the tests  *)
(* slice starts one goroutine per type test on the shared done channel,    *)
(* Test() receives len(tests) signals, then runs testLock on the same      *)
(* channel and receives its one signal.  A test is abstracted to its       *)
(* stages: createNamespace, its own spawn/join and checks (modelled call   *)
(* by call in XSetStress, OSetStress, UnboundedStress and LockStress, each *)
(* shown to implement WorkerPool) and c <- true.  A panic in any test      *)
(* goroutine ends the test binary.                                         *)
(***************************************************************************)
EXTENDS Integers, FiniteSets, Sequences

LOCAL INSTANCE SequencesExt

CONSTANTS
    TestOrder,  \* the tests slice: testSet, testList, ..., testOSet, in order
    Lock,       \* testLock
    NoTest      \* a goroutine that has not yet evaluated its function

TypeTests == ToSet(TestOrder)

ASSUME Lock \notin TypeTests /\ NoTest \notin TypeTests \cup {Lock}

\* The type test goroutines, numbered by the slice index that started them.
Goroutines == 1..Len(TestOrder)

VARIABLES
    tpc,      \* where Test() is
    loopIdx,  \* the index of the range loop's variable test (0: before it)
    garg,     \* garg[g]: the function value the go statement evaluated
    gfn,      \* gfn[g]: the test goroutine g runs
    gstate,   \* gstate[g]: the stage goroutine g is in
    lstate,   \* the stage of testLock
    recv      \* signals the first join loop has received

vars == <<tpc, loopIdx, garg, gfn, gstate, lstate, recv>>

Stages == {"idle", "start", "reset", "running", "signal", "exit"}

TypeOK ==
    /\ tpc \in {"spawn", "join", "wait", "return", "done", "panic"}
    /\ loopIdx \in 0..Len(TestOrder)
    /\ garg \in [Goroutines -> TypeTests \cup {NoTest}]
    /\ gfn \in [Goroutines -> TypeTests \cup {NoTest}]
    /\ gstate \in [Goroutines -> Stages]
    /\ lstate \in Stages
    /\ recv \in 0..Len(TestOrder)

Init ==
    /\ tpc = "spawn"
    /\ loopIdx = 0
    /\ garg = [g \in Goroutines |-> NoTest]
    /\ gfn = [g \in Goroutines |-> NoTest]
    /\ gstate = [g \in Goroutines |-> "idle"]
    /\ lstate = "idle"
    /\ recv = 0

\* The namespace each test resets and works in: createNamespace(t, addr,
\* "set") and so on, named after the type; testLock calls no
\* createNamespace and uses the connection's default namespace.
NsOf(t) == IF t = Lock THEN "default" ELSE t

\* The binary has ended: Test() returned, or a goroutine panicked.
Ended == tpc \in {"done", "panic"}

\* One iteration of for _, test := range tests { go test(done, ...) }: the
\* go statement evaluates the function value test there and then.
SpawnOne ==
    /\ tpc = "spawn"
    /\ loopIdx < Len(TestOrder)
    /\ loopIdx' = loopIdx + 1
    /\ garg' = [garg EXCEPT ![loopIdx + 1] = TestOrder[loopIdx + 1]]
    /\ gstate' = [gstate EXCEPT ![loopIdx + 1] = "start"]
    /\ UNCHANGED <<tpc, gfn, lstate, recv>>

\* The range loop is over: on to the join loop.
LoopDone ==
    /\ tpc = "spawn"
    /\ loopIdx = Len(TestOrder)
    /\ tpc' = "join"
    /\ UNCHANGED <<loopIdx, garg, gfn, gstate, lstate, recv>>

\* Mutation of the go statement: go func() { test(done, ...) }(), a closure
\* reading the loop variable when it runs.
StartCapture(g) ==
    /\ gstate[g] = "start"
    /\ gfn' = [gfn EXCEPT ![g] = TestOrder[loopIdx]]
    /\ gstate' = [gstate EXCEPT ![g] = "reset"]
    /\ UNCHANGED <<tpc, loopIdx, garg, lstate, recv>>

\* The goroutine runs the test it was started with.
Start(g) ==
    /\ gstate[g] = "start"
    /\ gfn' = [gfn EXCEPT ![g] = garg[g]]
    /\ gstate' = [gstate EXCEPT ![g] = "reset"]
    /\ UNCHANGED <<tpc, loopIdx, garg, lstate, recv>>

\* The next stage of a test: createNamespace(t, addr, name) (NSDEL,
\* NSNEW), then its goroutines, join and checks, then c <- true.
NextStage == [reset |-> "running", running |-> "signal"]

Stage(g) ==
    /\ gstate[g] \in DOMAIN NextStage
    /\ gstate' = [gstate EXCEPT ![g] = NextStage[gstate[g]]]
    /\ UNCHANGED <<tpc, loopIdx, garg, gfn, lstate, recv>>

\* A reply whose type assertion or index panics ends the whole binary.
Panic ==
    /\ \E g \in Goroutines : gstate[g] = "running" \/ lstate = "running"
    /\ tpc' = "panic"
    /\ UNCHANGED <<loopIdx, garg, gfn, gstate, lstate, recv>>

\* Mutation of a test's last statement: c <- true sent twice.
ReceiveTwice(g) ==
    /\ tpc = "join"
    /\ gstate[g] = "signal"
    /\ recv' = recv + 1
    /\ UNCHANGED <<tpc, loopIdx, garg, gfn, gstate, lstate>>

\* c <- true of a type test, taken by for _ = range tests { <-done }.
Receive(g) ==
    /\ tpc = "join"
    /\ gstate[g] = "signal"
    /\ recv < Len(TestOrder)
    /\ gstate' = [gstate EXCEPT ![g] = "exit"]
    /\ recv' = recv + 1
    /\ UNCHANGED <<tpc, loopIdx, garg, gfn, lstate>>

\* Mutation of the first join loop: it receives one signal fewer.
SpawnLockOneShort ==
    /\ tpc = "join"
    /\ recv = Len(TestOrder) - 1
    /\ lstate' = "running"
    /\ tpc' = "wait"
    /\ UNCHANGED <<loopIdx, garg, gfn, gstate, recv>>

\* The join loop is over: go testLock(done, ...).
SpawnLock ==
    /\ tpc = "join"
    /\ recv = Len(TestOrder)
    /\ lstate' = "running"
    /\ tpc' = "wait"
    /\ UNCHANGED <<loopIdx, garg, gfn, gstate, recv>>

\* testLock's writers, join and checks; then c <- true.
LockFinish ==
    /\ lstate = "running"
    /\ lstate' = "signal"
    /\ UNCHANGED <<tpc, loopIdx, garg, gfn, gstate, recv>>

\* <-done: testLock's signal.
ReceiveLock ==
    /\ tpc = "wait"
    /\ lstate = "signal"
    /\ lstate' = "exit"
    /\ tpc' = "return"
    /\ UNCHANGED <<loopIdx, garg, gfn, gstate, recv>>

\* Test() returns to the testing framework.
Return ==
    /\ tpc = "return"
    /\ tpc' = "done"
    /\ UNCHANGED <<loopIdx, garg, gfn, gstate, lstate, recv>>

Terminated == Ended /\ UNCHANGED vars

Test == SpawnOne \/ LoopDone \/ SpawnLock \/ ReceiveLock \/ Return
            \/ \E g \in Goroutines : Receive(g)

RunTest(g) == Start(g) \/ Stage(g)

Next ==
    \/ ~Ended /\ (Test \/ LockFinish \/ Panic \/ \E g \in Goroutines : RunTest(g))
    \/ Terminated

\* Every runnable goroutine runs; a panic is possible, never forced.
Spec == Init /\ [][Next]_vars
        /\ WF_vars(~Ended /\ Test) /\ WF_vars(~Ended /\ LockFinish)
        /\ \A g \in Goroutines : WF_vars(~Ended /\ RunTest(g))

----------------------------------------------------------------------------
(* Properties                                                              *)

\* The goroutines still working on the store.
Active(g) == gstate[g] \in {"reset", "running", "signal"}

\* spec.md 3: no two concurrently running test groups share a namespace,
\* and when Test() returns every test of the slice has run exactly once.
\* It rests on the go statement evaluating the function value as the loop
\* reaches it: a goroutine that read the loop variable only when it got to
\* run could run a later test, so that two goroutines reset and fill one
\* namespace at once while another test never runs.
EachTestOnce ==
    /\ \A g1, g2 \in Goroutines :
          g1 # g2 /\ Active(g1) /\ Active(g2) => NsOf(gfn[g1]) # NsOf(gfn[g2])
    /\ tpc = "done" =>
          \A t \in TypeTests : Cardinality({g \in Goroutines : gfn[g] = t}) = 1

\* Test() is a worker pool over the six type tests and testLock (worker
\* len(tests) + 1): it
\* returns only after every test has signalled once, and it returns unless
\* a panic ends the binary first.
Pool == INSTANCE WorkerPool WITH
            Workers <- 1..(Len(TestOrder) + 1),
            done <- {g \in Goroutines : gstate[g] = "exit"}
                    \cup (IF lstate = "exit" THEN {Len(TestOrder) + 1} ELSE {}),
            phase <- IF tpc = "panic" THEN "crashed"
                     ELSE IF tpc = "done" THEN "released" ELSE "running"

ImplementsWorkerPool == Pool!PoolSpec

=============================================================================
