------------------------------ MODULE RunQueue ------------------------------
(***************************************************************************)
(* Who sleeps on queue_cv and who wakes them: worker_loop, yoop_task_wait  *)
(* (which dispatches queued tasks on the waiting thread, on top of         *)
(* whatever that thread was doing), yoop_task_wait_until_ns (which does    *)
(* not), yoop_task_cancel, the completion broadcast, the lazy spawn of the *)
(* pool and yoop_runtime_shutdown, all of runtime/yoop_runtime.c.          *)
(*                                                                         *)
(* Each thread has a stack of activities, the newest last: a task step it  *)
(* runs, a wait it is in, a broadcast it still owes.  A signal wakes one   *)
(* sleeper, whichever the system picks; a broadcast wakes all of them; a   *)
(* thread may wake for no reason.  The park byte and the joiner list are   *)
(* TaskScheduler's: here a parked task is woken by whoever it waits for.   *)
(***************************************************************************)
EXTENDS Naturals, Sequences, FiniteSets

CONSTANTS Tasks,      (* the task handles                                   *)
          Workers,    (* the threads of the pool                            *)
          Main,       (* the main thread, and the code it runs              *)
          Parent,     (* who spawns (and may wait for) each task: a task or *)
                      (* Main                                               *)
          Suspends,   (* the tasks whose body suspends                      *)
          TimedCallers, (* the code that also calls waitUntil               *)
          Cancellers  (* the code that calls cancel                         *)

ASSUME RunQueueAssumption ==
  /\ Main \notin Tasks \cup Workers /\ Workers # {}
  /\ Parent \in [Tasks -> Tasks \cup {Main}]

VARIABLES
  queue,      (* the run queue                                              *)
  life,       (* per task: new, queued, running, parked or done             *)
  done,       (* the tasks whose state byte is 1                            *)
  cancelled,  (* the tasks whose cancel byte is 1                           *)
  stack,      (* per thread: activities [op, task]                          *)
  asleep,     (* the threads in yoop_cond_wait on queue_cv                  *)
  pool,       (* per worker: unborn, up or exited                           *)
  main,       (* the program: running, joining the pool, or stopped         *)
  shutdown    (* g_rt.shutdown                                              *)

vars == <<queue, life, done, cancelled, stack, asleep, pool, main, shutdown>>

Threads == Workers \cup {Main}

Ops == {"run", "signal", "wait", "poll", "timed", "cancel"}

Doing(op, t) == [op |-> op, task |-> t]

(* The newest activity of a thread, and what becomes of the stack when it  *)
(* starts one, ends one, or its newest one moves on.                       *)
Is(th, op, t) == stack[th] # <<>> /\ stack[th][Len(stack[th])] = Doing(op, t)
IsAny(th, ops) == stack[th] # <<>> /\ stack[th][Len(stack[th])].op \in ops
Below(th) == SubSeq(stack[th], 1, Len(stack[th]) - 1)
Start(th, op, t) == stack' = [stack EXCEPT ![th] = Append(@, Doing(op, t))]
End(th) == stack' = [stack EXCEPT ![th] = Below(th)]
Become(th, op, t) == stack' = [stack EXCEPT ![th] = Append(Below(th), Doing(op, t))]

(* The code running on a thread: the body of the newest step, or main.     *)
Code(th, c) ==
  \/ c \in Tasks /\ Is(th, "run", c)
  \/ c = Main /\ th = Main /\ stack[Main] = <<>> /\ main = "running"

Awake(th) == th \notin asleep

(* Mutant: nobody is signalled.                                            *)
PushSilently(t) ==
  /\ queue' = Append(queue, t)
  /\ pool' = [w \in Workers |-> IF pool[w] = "unborn" THEN "up" ELSE pool[w]]
  /\ UNCHANGED asleep

(* queue_push_locked: append, spawn the pool the first time, and wake one  *)
(* of the sleepers.                                                        *)
Push(t) ==
  /\ queue' = Append(queue, t)
  /\ pool' = [w \in Workers |-> IF pool[w] = "unborn" THEN "up" ELSE pool[w]]
  /\ IF asleep = {} THEN UNCHANGED asleep
     ELSE \E th \in asleep : asleep' = asleep \ {th}

Init ==
  /\ queue = <<>>
  /\ life = [t \in Tasks |-> "new"]
  /\ done = {}
  /\ cancelled = {}
  /\ stack = [th \in Threads |-> <<>>]
  /\ asleep = {}
  /\ pool = [w \in Workers |-> "unborn"]
  /\ main = "running"
  /\ shutdown = FALSE

-----------------------------------------------------------------------------
(* yoop_task_submit.                                                       *)
Submit(th, c, t) ==
  /\ Code(th, c) /\ Parent[t] = c /\ life[t] = "new"
  /\ Push(t)
  /\ life' = [life EXCEPT ![t] = "queued"]
  /\ UNCHANGED <<done, cancelled, stack, main, shutdown>>

(* Dispatch: the head of the queue starts running on th, on top of what    *)
(* th was doing.                                                           *)
Dispatch(th) ==
  /\ queue # <<>>
  /\ queue' = Tail(queue)
  /\ life' = [life EXCEPT ![Head(queue)] = "running"]
  /\ UNCHANGED <<done, cancelled, asleep, pool, main, shutdown>>

(* worker_loop: pop, or sleep, or exit once shut down and out of work.     *)
AtLoop(w) == pool[w] = "up" /\ stack[w] = <<>> /\ Awake(w)

WorkerPop(w) ==
  /\ AtLoop(w)
  /\ Dispatch(w)
  /\ Start(w, "run", Head(queue))

WorkerSleep(w) ==
  /\ AtLoop(w)
  /\ queue = <<>> /\ ~shutdown
  /\ asleep' = asleep \cup {w}
  /\ UNCHANGED <<queue, life, done, cancelled, stack, pool, main, shutdown>>

(* Mutant: the shutdown flag is looked at before the queue.                *)
WorkerExitAtOnce(w) ==
  /\ AtLoop(w)
  /\ shutdown
  /\ pool' = [pool EXCEPT ![w] = "exited"]
  /\ UNCHANGED <<queue, life, done, cancelled, stack, asleep, main, shutdown>>

WorkerExit(w) ==
  /\ AtLoop(w)
  /\ queue = <<>> /\ shutdown
  /\ pool' = [pool EXCEPT ![w] = "exited"]
  /\ UNCHANGED <<queue, life, done, cancelled, stack, asleep, main, shutdown>>

(* yoop_task_wait, from the body of a task or from main ...                *)
WaitCall(th, c, t) ==
  /\ Code(th, c) /\ Parent[t] = c /\ life[t] # "new"
  /\ Start(th, "wait", t)
  /\ UNCHANGED <<queue, life, done, cancelled, asleep, pool, main, shutdown>>

(* ... looks at the state byte, ...                                        *)
WaitCheck(th, t) ==
  /\ Is(th, "wait", t) /\ Awake(th)
  /\ IF t \in done THEN End(th) ELSE Become(th, "poll", t)
  /\ UNCHANGED <<queue, life, done, cancelled, asleep, pool, main, shutdown>>

(* ... then, under queue_mu, runs a queued task if there is one, ...       *)
WaitPop(th, t) ==
  /\ Is(th, "poll", t)
  /\ Dispatch(th)
  /\ stack' = [stack EXCEPT ![th] = Below(th) \o <<Doing("wait", t), Doing("run", Head(queue))>>]

(* Mutant: the thread sleeps whatever the state byte says.                 *)
WaitSleepAnyway(th, t) ==
  /\ Is(th, "poll", t)
  /\ queue = <<>>
  /\ IF t \in done THEN End(th) ELSE Become(th, "wait", t)
  /\ asleep' = asleep \cup {th}
  /\ UNCHANGED <<queue, life, done, cancelled, pool, main, shutdown>>

(* ... looks at the state byte again, and sleeps without a deadline.       *)
WaitSleep(th, t) ==
  /\ Is(th, "poll", t)
  /\ queue = <<>>
  /\ IF t \in done THEN End(th) /\ UNCHANGED asleep
     ELSE Become(th, "wait", t) /\ asleep' = asleep \cup {th}
  /\ UNCHANGED <<queue, life, done, cancelled, pool, main, shutdown>>

(* yoop_task_wait_until_ns.  It never pops; it returns when the task is    *)
(* done or cancelled, or at a deadline that may pass at any moment.        *)
TimedCall(th, c, t) ==
  /\ Code(th, c) /\ c \in TimedCallers /\ Parent[t] = c /\ life[t] # "new"
  /\ Start(th, "timed", t)
  /\ UNCHANGED <<queue, life, done, cancelled, asleep, pool, main, shutdown>>

(* Mutant: neither byte is looked at under the lock.                       *)
TimedSleepUnchecked(th, t) ==
  /\ Is(th, "timed", t) /\ Awake(th)
  /\ asleep' = asleep \cup {th}
  /\ UNCHANGED <<queue, life, done, cancelled, stack, pool, main, shutdown>>

TimedSleep(th, t) ==
  /\ Is(th, "timed", t) /\ Awake(th)
  /\ t \notin done \cup cancelled
  /\ asleep' = asleep \cup {th}
  /\ UNCHANGED <<queue, life, done, cancelled, stack, pool, main, shutdown>>

TimedReturn(th, t) ==
  /\ Is(th, "timed", t)
  /\ End(th)
  /\ asleep' = asleep \ {th}
  /\ UNCHANGED <<queue, life, done, cancelled, pool, main, shutdown>>

(* yoop_task_cancel: the byte first, the broadcast under queue_mu after.   *)
Cancel(th, c, t) ==
  /\ Code(th, c) /\ c \in Cancellers /\ life[t] # "new" /\ t \notin cancelled
  /\ cancelled' = cancelled \cup {t}
  /\ Start(th, "cancel", t)
  /\ UNCHANGED <<queue, life, done, asleep, pool, main, shutdown>>

CancelBroadcast(th, t) ==
  /\ Is(th, "cancel", t)
  /\ asleep' = {}
  /\ End(th)
  /\ UNCHANGED <<queue, life, done, cancelled, pool, main, shutdown>>

-----------------------------------------------------------------------------
(* The end of a step: the task parks, or goes straight back on the queue   *)
(* because a wake came during the step, or is done.                        *)
Suspend(th, t) ==
  /\ Is(th, "run", t) /\ t \in Suspends
  /\ life' = [life EXCEPT ![t] = "parked"]
  /\ End(th)
  /\ UNCHANGED <<queue, done, cancelled, asleep, pool, main, shutdown>>

Requeue(th, t) ==
  /\ Is(th, "run", t) /\ t \in Suspends
  /\ Push(t)
  /\ life' = [life EXCEPT ![t] = "queued"]
  /\ End(th)
  /\ UNCHANGED <<done, cancelled, main, shutdown>>

Finish(th, t) ==
  /\ Is(th, "run", t)
  /\ done' = done \cup {t}
  /\ life' = [life EXCEPT ![t] = "done"]
  /\ Become(th, "signal", t)
  /\ UNCHANGED <<queue, cancelled, asleep, pool, main, shutdown>>

(* Mutant: completion broadcasts the handle's condvar only, not queue_cv.  *)
SignalDoneQuietly(th, t) ==
  /\ Is(th, "signal", t)
  /\ End(th)
  /\ UNCHANGED <<queue, life, done, cancelled, asleep, pool, main, shutdown>>

(* The second half of yoop_handle_signal_done: the broadcast, and in the   *)
(* same critical section the tasks that suspended to join this one.  At    *)
(* most one such joiner is followed here.                                  *)
SignalDone(th, t) ==
  /\ Is(th, "signal", t)
  /\ asleep' = {}
  /\ End(th)
  /\ \/ UNCHANGED <<queue, life>>
     \/ \E j \in Tasks : /\ life[j] = "parked"
                         /\ queue' = Append(queue, j)
                         /\ life' = [life EXCEPT ![j] = "queued"]
  /\ UNCHANGED <<done, cancelled, pool, main, shutdown>>

(* Mutant: a wake queues a task that is still running.                     *)
WakeRunning(t) ==
  /\ life[t] \in {"parked", "running"} /\ ~shutdown
  /\ Push(t)
  /\ life' = [life EXCEPT ![t] = "queued"]
  /\ UNCHANGED <<done, cancelled, stack, main, shutdown>>

(* yoop_task_make_runnable, by the I/O thread.                             *)
Wake(t) ==
  /\ life[t] = "parked" /\ ~shutdown
  /\ Push(t)
  /\ life' = [life EXCEPT ![t] = "queued"]
  /\ UNCHANGED <<done, cancelled, stack, main, shutdown>>

SpuriousWake(th) ==
  /\ th \in asleep
  /\ asleep' = asleep \ {th}
  /\ UNCHANGED <<queue, life, done, cancelled, stack, pool, main, shutdown>>

(* Mutant: the flag is set and nobody is told.                             *)
ShutdownQuietly ==
  /\ Code(Main, Main)
  /\ shutdown' = TRUE
  /\ main' = "joining"
  /\ UNCHANGED <<queue, life, done, cancelled, stack, asleep, pool>>

(* yoop_runtime_shutdown, when main returns: set the flag and wake the     *)
(* pool, then join every worker.                                           *)
Shutdown ==
  /\ Code(Main, Main)
  /\ shutdown' = TRUE
  /\ asleep' = {}
  /\ main' = "joining"
  /\ UNCHANGED <<queue, life, done, cancelled, stack, pool>>

JoinWorkers ==
  /\ main = "joining"
  /\ \A w \in Workers : pool[w] # "up"
  /\ main' = "stopped"
  /\ UNCHANGED <<queue, life, done, cancelled, stack, asleep, pool, shutdown>>

-----------------------------------------------------------------------------
Next ==
  \/ \E th \in Threads, t \in Tasks :
       \/ \E c \in Tasks \cup {Main} : \/ Submit(th, c, t) \/ WaitCall(th, c, t)
                                       \/ TimedCall(th, c, t) \/ Cancel(th, c, t)
       \/ WaitCheck(th, t) \/ WaitPop(th, t) \/ WaitSleep(th, t)
       \/ TimedSleep(th, t) \/ TimedReturn(th, t) \/ CancelBroadcast(th, t)
       \/ Suspend(th, t) \/ Requeue(th, t) \/ Finish(th, t) \/ SignalDone(th, t)
  \/ \E w \in Workers : WorkerPop(w) \/ WorkerSleep(w) \/ WorkerExit(w)
  \/ \E t \in Tasks : Wake(t)
  \/ \E th \in Threads : SpuriousWake(th)
  \/ Shutdown \/ JoinWorkers

Spec == Init /\ [][Next]_vars

(* Threads are scheduled.  A body that keeps being run ends (that is the   *)
(* program's promise), and what a parked task waits for happens.           *)
Fairness ==
  /\ \A w \in Workers : WF_vars(WorkerPop(w)) /\ WF_vars(WorkerExit(w))
  /\ \A th \in Threads, t \in Tasks :
       /\ WF_vars(WaitCheck(th, t)) /\ WF_vars(WaitPop(th, t)) /\ WF_vars(WaitSleep(th, t))
       /\ WF_vars(SignalDone(th, t)) /\ WF_vars(CancelBroadcast(th, t))
       /\ WF_vars(TimedReturn(th, t))
  /\ \A t \in Tasks : WF_vars(Wake(t)) /\ SF_vars(\E th \in Threads : Finish(th, t))
  /\ WF_vars(JoinWorkers)

FairSpec == Spec /\ Fairness

-----------------------------------------------------------------------------
Activity == [op : Ops, task : Tasks]

(* Besides the types: a thread asleep on queue_cv is in a wait, or is a     *)
(* worker with nothing to do.                                              *)
TypeOK ==
  /\ queue \in Seq(Tasks)
  /\ life \in [Tasks -> {"new", "queued", "running", "parked", "done"}]
  /\ done \in SUBSET Tasks
  /\ cancelled \in SUBSET Tasks
  /\ stack \in [Threads -> Seq(Activity)]
  /\ asleep \in SUBSET Threads
  /\ \A th \in asleep : \/ IsAny(th, {"wait", "timed"})
                        \/ th \in Workers /\ stack[th] = <<>> /\ pool[th] = "up"
  /\ pool \in [Workers -> {"unborn", "up", "exited"}]
  /\ main \in {"running", "joining", "stopped"}
  /\ shutdown \in BOOLEAN

(***************************************************************************)
(* No wakeup for work is lost: while a task is queued, some thread that    *)
(* will look at the queue is awake, or a broadcast is on its way.  The     *)
(* threads that will look are the workers, and main while the task it      *)
(* waits for is not done.  queue_push_locked signals one sleeper, so this  *)
(* is about which sleeper that is ("Worker threads continue to drain the   *)
(* queue normally", yoop_task_wait_until_ns).                              *)
(***************************************************************************)
BroadcastDue == \E th \in Threads : IsAny(th, {"signal", "cancel"})

Dispatcher(th) ==
  /\ Awake(th)
  /\ \/ th \in Workers /\ pool[th] = "up"
     \/ IsAny(th, {"poll"})
     \/ \E t \in Tasks \ done : Is(th, "wait", t)

NoSleepOnWork ==
  queue # <<>> => BroadcastDue \/ \E th \in Threads : Dispatcher(th)

(***************************************************************************)
(* No completion and no cancellation is lost: a thread asleep in a wait    *)
(* whose task is done (or cancelled, when the wait is the kind that looks) *)
(* is about to be woken by the broadcast that follows.                     *)
(***************************************************************************)
NoSleepOnDone ==
  \A th \in asleep, t \in Tasks :
    /\ (Is(th, "wait", t) \/ Is(th, "timed", t)) /\ t \in done =>
         \E x \in Threads : Is(x, "signal", t)
    /\ Is(th, "timed", t) /\ t \in cancelled =>
         \E x \in Threads : Is(x, "cancel", t)

(***************************************************************************)
(* "Re-entrant dispatch is safe: each thunk runs to completion on the      *)
(* calling thread's stack" (yoop_task_wait).  A step goes on only after    *)
(* the steps above it on its stack are over and the waits above it have    *)
(* returned, so it is held up by their tasks.  No task is held up by       *)
(* itself, that is by a wait for it on top of its own step, nor are        *)
(* several by each other, on one stack or on many: in every set of tasks   *)
(* there is one that none of the set holds up.  A bounded wait returns     *)
(* whatever happens, and does not count.                                   *)
(***************************************************************************)
HeldUpBy(t, u) ==
  \E th \in Threads : \E i, j \in 1..Len(stack[th]) :
    /\ i < j /\ stack[th][i] = Doing("run", t)
    /\ stack[th][j] \in {Doing("run", u), Doing("wait", u), Doing("poll", u)}

NoBuriedWait ==
  \A S \in SUBSET Tasks : S # {} => \E t \in S : \A u \in S : ~HeldUpBy(t, u)

(* Shutdown leaves no queued task behind and no worker running.            *)
ShutdownDrains ==
  main = "stopped" => queue = <<>> /\ \A w \in Workers : stack[w] = <<>>

(***************************************************************************)
(* Whoever sleeps, wakes and dispatches on top of what, a task is promised *)
(* the life the scheduler promises it: queued once per wake, taken once    *)
(* per place in the queue, one step at a time, done once.                  *)
(***************************************************************************)
PhaseOf == [new |-> "new", queued |-> "ready", running |-> "running",
            parked |-> "blocked", done |-> "done"]

Lifecycle == INSTANCE TaskLifecycle WITH phase <- [t \in Tasks |-> PhaseOf[life[t]]]

ImplementsLifecycle == Lifecycle!Spec

(* A wait main is in returns.                                              *)
MainWaitReturns ==
  \A t \in Tasks : (\E i \in 1..Len(stack[Main]) : i = 1 /\ stack[Main][i] = Doing("wait", t))
                     ~> stack[Main] = <<>>

(* A shutdown that was begun ends.                                         *)
ShutdownEnds == main = "joining" ~> main = "stopped"
=============================================================================
