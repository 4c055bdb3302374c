---------------------------- MODULE AgingMain ----------------------------
(***************************************************************************)
(* main() of src/units/stress/compaction_setup.go: check the argument      *)
(* count, then range over the tests map (Go visits it in an unspecified    *)
(* order), starting one goroutine per entry that runs setupExpire on the   *)
(* namespace and callback it was handed as arguments, and join on one      *)
(* done signal per entry.  setupExpire is abstracted to its stages: the    *)
(* namespace reset, the expire and delete passes, the two COMPACTs (all    *)
(* modelled call by call in AgingTool).  Any failed store call is          *)
(* log.Fatal, which ends the process with every goroutine in it.           *)
(***************************************************************************)
EXTENDS Integers, FiniteSets

CONSTANTS
    Namespaces,  \* the keys of the tests map: "str", "int", "set", ...
    NoNs         \* a goroutine that has not yet read its namespace

ASSUME NoNs \notin Namespaces

\* The goroutines, numbered in the order the range loop starts them.
Goroutines == 1..Cardinality(Namespaces)

VARIABLES
    argsOk,   \* len(os.Args) == 3
    mpc,      \* where main is
    pending,  \* the map entries the range loop has not visited yet
    loopNs,   \* the range loop's variable nsname
    garg,     \* garg[g]: the nsname passed to goroutine g by the go statement
    gns,      \* gns[g]: the namespace goroutine g runs setupExpire on
    gpc,      \* gpc[g]: where goroutine g is
    recv      \* signals main's join loop has received

vars == <<argsOk, mpc, pending, loopNs, garg, gns, gpc, recv>>

TypeOK ==
    /\ argsOk \in BOOLEAN
    /\ mpc \in {"args", "spawn", "join", "done", "usage", "fatal"}
    /\ pending \subseteq Namespaces
    /\ loopNs \in Namespaces \cup {NoNs}
    /\ garg \in [Goroutines -> Namespaces \cup {NoNs}]
    /\ gns \in [Goroutines -> Namespaces \cup {NoNs}]
    /\ gpc \in [Goroutines -> {"idle", "start", "reset", "passes", "compact",
                               "send", "exit"}]
    /\ recv \in 0..Cardinality(Goroutines)

\* The command line may have the wrong number of arguments.
Init ==
    /\ argsOk \in BOOLEAN
    /\ mpc = "args"
    /\ pending = Namespaces
    /\ loopNs = NoNs
    /\ garg = [g \in Goroutines |-> NoNs]
    /\ gns = [g \in Goroutines |-> NoNs]
    /\ gpc = [g \in Goroutines |-> "idle"]
    /\ recv = 0

\* The process has ended: main returned, or os.Exit / log.Fatal.
Exited == mpc \in {"done", "usage", "fatal"}

\* if len(os.Args) != 3: print the usage, os.Exit(1).
Usage ==
    /\ mpc = "args"
    /\ ~argsOk
    /\ mpc' = "usage"
    /\ UNCHANGED <<argsOk, pending, loopNs, garg, gns, gpc, recv>>

\* routines, count /= routines, expire and the tests map; on to the loop.
Configure ==
    /\ mpc = "args"
    /\ argsOk
    /\ mpc' = "spawn"
    /\ UNCHANGED <<argsOk, pending, loopNs, garg, gns, gpc, recv>>

\* One iteration of for nsname, cb := range tests: the loop variable takes
\* an entry not yet visited, and go func(nsname, cb)(nsname, cb) evaluates
\* its arguments there and then.
SpawnOne ==
    /\ mpc = "spawn"
    /\ \E ns \in pending :
          LET g == Cardinality(Namespaces) - Cardinality(pending) + 1 IN
          /\ pending' = pending \ {ns}
          /\ loopNs' = ns
          /\ garg' = [garg EXCEPT ![g] = ns]
          /\ gpc' = [gpc EXCEPT ![g] = "start"]
    /\ UNCHANGED <<argsOk, mpc, gns, recv>>

\* The range loop is over: on to the join loop.
LoopDone ==
    /\ mpc = "spawn"
    /\ pending = {}
    /\ mpc' = "join"
    /\ UNCHANGED <<argsOk, pending, loopNs, garg, gns, gpc, recv>>

----------------------------------------------------------------------------
(* A namespace goroutine.                                                  *)

\* Mutation of the goroutine: a closure reading the loop variable nsname
\* when it runs, instead of taking it as an argument.
StartCapture(g) ==
    /\ gpc[g] = "start"
    /\ gns' = [gns EXCEPT ![g] = loopNs]
    /\ gpc' = [gpc EXCEPT ![g] = "reset"]
    /\ UNCHANGED <<argsOk, mpc, pending, loopNs, garg, recv>>

\* The goroutine starts running setupExpire(addr, nsname, ...) on its
\* argument.
Start(g) ==
    /\ gpc[g] = "start"
    /\ gns' = [gns EXCEPT ![g] = garg[g]]
    /\ gpc' = [gpc EXCEPT ![g] = "reset"]
    /\ UNCHANGED <<argsOk, mpc, pending, loopNs, garg, recv>>

\* The next stage of setupExpire: createNamespace, then the four expire
\* passes and the delete pass with their sleeps, then the two COMPACTs
\* and "Setup <ns> OK", after which the goroutine sends on done.
NextStage == [reset |-> "passes", passes |-> "compact", compact |-> "send"]

Stage(g) ==
    /\ gpc[g] \in DOMAIN NextStage
    /\ gpc' = [gpc EXCEPT ![g] = NextStage[gpc[g]]]
    /\ UNCHANGED <<argsOk, mpc, pending, loopNs, garg, gns, recv>>

\* A store call of the stage fails: log.Fatal exits the whole process.
Fatal(g) ==
    /\ gpc[g] \in DOMAIN NextStage
    /\ mpc' = "fatal"
    /\ UNCHANGED <<argsOk, pending, loopNs, garg, gns, gpc, recv>>

\* Mutation of the goroutine's last statement: done <- true sent twice.
ReceiveTwice(g) ==
    /\ mpc = "join"
    /\ gpc[g] = "send"
    /\ recv' = recv + 1
    /\ UNCHANGED <<argsOk, mpc, pending, loopNs, garg, gns, gpc>>

\* done <- true, taken by one <-done of main's join loop.
Receive(g) ==
    /\ mpc = "join"
    /\ gpc[g] = "send"
    /\ recv < Cardinality(Goroutines)
    /\ gpc' = [gpc EXCEPT ![g] = "exit"]
    /\ recv' = recv + 1
    /\ UNCHANGED <<argsOk, mpc, pending, loopNs, garg, gns>>

\* Mutation of main's join loop: i < len(tests) - 1.
ReturnOneShort ==
    /\ mpc = "join"
    /\ recv = Cardinality(Goroutines) - 1
    /\ mpc' = "done"
    /\ UNCHANGED <<argsOk, pending, loopNs, garg, gns, gpc, recv>>

\* The join loop has taken len(tests) signals: main returns.
Return ==
    /\ mpc = "join"
    /\ recv = Cardinality(Goroutines)
    /\ mpc' = "done"
    /\ UNCHANGED <<argsOk, pending, loopNs, garg, gns, gpc, recv>>

Terminated == Exited /\ UNCHANGED vars

Main == Usage \/ Configure \/ SpawnOne \/ LoopDone \/ Return
            \/ \E g \in Goroutines : Receive(g)

Goroutine(g) == Start(g) \/ Stage(g)

Next ==
    \/ ~Exited /\ (Main \/ \E g \in Goroutines : Goroutine(g) \/ Fatal(g))
    \/ Terminated

\* Every runnable goroutine runs and every store call returns; a failing
\* call (Fatal) is possible, never forced.
Spec == Init /\ [][Next]_vars
        /\ WF_vars(~Exited /\ Main)
        /\ \A g \in Goroutines : WF_vars(~Exited /\ Goroutine(g))

----------------------------------------------------------------------------
(* Properties                                                              *)

\* When main returns, every namespace of the tests map has been aged by
\* exactly one goroutine.  It rests on the go statement handing nsname
\* over as an argument: a goroutine that read the loop variable when it
\* got to run could see a later entry, so that two goroutines age one
\* namespace (and NSDEL each other's keys) while another is never aged.
EachNamespaceOnce ==
    mpc = "done" =>
        \A ns \in Namespaces : Cardinality({g \in Goroutines : gns[g] = ns}) = 1

\* main is a worker pool over its goroutines: it returns only once every
\* goroutine has signalled, and it returns unless the process exits first
\* (the usage exit, or log.Fatal on a failed store call).
Pool == INSTANCE WorkerPool WITH
            Workers <- Goroutines,
            done <- {g \in Goroutines : gpc[g] = "exit"},
            phase <- IF mpc \in {"usage", "fatal"} THEN "crashed"
                     ELSE IF mpc = "done" THEN "released" ELSE "running"

ImplementsWorkerPool == Pool!PoolSpec

=============================================================================
