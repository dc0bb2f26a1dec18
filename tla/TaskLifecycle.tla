---------------------------- MODULE TaskLifecycle ----------------------------
(***************************************************************************)
(* What the scheduler of runtime/yoop_runtime.c promises of a task: it is  *)
(* submitted once, dispatched only when ready, runs in one place, blocks   *)
(* and is woken any number of times, finishes once and never runs again.   *)
(* One task changes phase at a time.                                       *)
(***************************************************************************)
CONSTANT Tasks

VARIABLE phase

Phases == {"new", "ready", "running", "blocked", "done"}

Move(t, from, to) ==
  /\ phase[t] = from
  /\ phase' = [phase EXCEPT ![t] = to]

Spawn(t)    == Move(t, "new", "ready")
Dispatch(t) == Move(t, "ready", "running")
Block(t)    == Move(t, "running", "blocked")
Yield(t)    == Move(t, "running", "ready")
Wake(t)     == Move(t, "blocked", "ready")
Complete(t) == Move(t, "running", "done")

Init == phase = [t \in Tasks |-> "new"]

Next == \E t \in Tasks : \/ Spawn(t) \/ Dispatch(t) \/ Block(t)
                         \/ Yield(t) \/ Wake(t) \/ Complete(t)

Spec == Init /\ [][Next]_phase

PhaseOK == phase \in [Tasks -> Phases]
=============================================================================
