----------------------------- MODULE WaitPromise -----------------------------
(***************************************************************************)
(* What a wait for a socket (runtime/yoop_io.c) promises whoever calls it, *)
(* however the I/O thread, other waits on the descriptor, the deadline,    *)
(* the cancel token and the shutdown interleave with it: a registered wait *)
(* is resolved once, and only while its call is in progress; it is given   *)
(* up only for a cancelled token or a deadline, and never after the engine *)
(* has resolved it; and a task is not resumed before that, unless a        *)
(* shutdown has begun.                                                     *)
(***************************************************************************)
CONSTANTS Callers,
          Suspending,  (* tasks: they suspend, and never give up            *)
          Listening,   (* those that pass the cancel token                  *)
          Hurried      (* those that pass a deadline                        *)

VARIABLES
  phase,       (* per caller: none, waiting, ready or over                  *)
  cancelled,   (* the token is cancelled                                    *)
  dated,       (* the token has a deadline                                  *)
  shut         (* a shutdown has begun                                      *)

vars == <<phase, cancelled, dated, shut>>

Move(c, from, to) ==
  /\ phase[c] = from
  /\ phase' = [phase EXCEPT ![c] = to]
  /\ UNCHANGED <<cancelled, dated, shut>>

(* Why a wait may end with nothing to show.                                *)
MayStop(c) == c \in Hurried \/ (c \in Listening /\ (cancelled \/ dated))

Init ==
  /\ phase = [c \in Callers |-> "none"]
  /\ ~cancelled /\ ~dated /\ ~shut

Register(c) == Move(c, "none", "waiting")
Resolve(c)  == Move(c, "waiting", "ready")
GiveUp(c)   == c \notin Suspending /\ MayStop(c) /\ Move(c, "waiting", "over")
Return(c)   == Move(c, "ready", "none") \/ Move(c, "over", "none")

(* A task that a late wake of the shutdown resumes looks for itself.       *)
Withdraw(c) == c \in Suspending /\ shut /\ Move(c, "waiting", "none")

Cancel == ~cancelled /\ cancelled' = TRUE /\ UNCHANGED <<phase, dated, shut>>
Date   == ~dated /\ dated' = TRUE /\ UNCHANGED <<phase, cancelled, shut>>
Shut   == ~shut /\ shut' = TRUE /\ UNCHANGED <<phase, cancelled, dated>>

Next ==
  \/ \E c \in Callers : Register(c) \/ Resolve(c) \/ GiveUp(c) \/ Return(c) \/ Withdraw(c)
  \/ Cancel \/ Date \/ Shut

Spec == Init /\ [][Next]_vars
=============================================================================
