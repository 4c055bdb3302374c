---------------------------- MODULE WorkerPool ----------------------------
(***************************************************************************)
(* What the spawn/join driver of every test function in                    *)
(* src/units/stress/stress_test.go promises its caller, with the workers'  *)
(* calls abstracted away: each worker hands in its one completion signal,  *)
(* the caller is released only once all of them are in, and a panic in    *)
(* any goroutine ends the whole binary at any point.  The detailed test    *)
(* modules are shown to implement it by a refinement mapping              *)
(* (XSetStress, OSetStress, UnboundedStress, LockStress).                  *)
(***************************************************************************)
CONSTANT Workers

VARIABLES
    phase,   \* "running", "released" (the caller passed the join) or "crashed"
    done     \* the workers whose completion signal the caller has taken

poolVars == <<phase, done>>

PoolTypeOK ==
    /\ phase \in {"running", "released", "crashed"}
    /\ done \subseteq Workers

PoolInit ==
    /\ phase = "running"
    /\ done = {}

\* The caller takes worker w's signal; each worker signals once.
Finish(w) ==
    /\ phase = "running"
    /\ w \notin done
    /\ done' = done \cup {w}
    /\ UNCHANGED phase

\* The join completes: every signal is in.
Release ==
    /\ phase = "running"
    /\ done = Workers
    /\ phase' = "released"
    /\ UNCHANGED done

\* A panic in any goroutine ends the binary, before or after the join.
Crash ==
    /\ phase # "crashed"
    /\ phase' = "crashed"
    /\ UNCHANGED done

PoolNext == Crash \/ Release \/ \E w \in Workers : Finish(w)

\* Every worker's signal is eventually taken and the join completes, unless
\* a panic intervenes.
PoolSpec ==
    /\ PoolInit /\ [][PoolNext]_poolVars
    /\ WF_poolVars(Release)
    /\ \A w \in Workers : WF_poolVars(Finish(w))

=============================================================================
