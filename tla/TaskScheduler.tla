---------------------------- MODULE TaskScheduler ----------------------------
(***************************************************************************)
(* The task scheduler of runtime/yoop_runtime.c, at the grain of its       *)
(* queue_mu critical sections: the FIFO run queue, the step a thread runs  *)
(* for a task (run_task_step), the park byte that keeps a wake arriving in *)
(* the middle of a step from starting a second runner, and the             *)
(* completion-waiter list that lets a task join another without a thread.  *)
(*                                                                         *)
(* Threads are the places a step can run: a worker of the pool, or a       *)
(* thread that dispatches from inside yoop_task_wait (each nested dispatch *)
(* counts as one more place).  Who may sleep when the queue is empty, and  *)
(* what nested dispatch does to a thread's stack, is RunQueue's subject.   *)
(*                                                                         *)
(* A body is arbitrary except that it suspends the way the library does:   *)
(* it has armed something since it last started running.                   *)
(***************************************************************************)
EXTENDS Naturals, Sequences, FiniteSets

CONSTANTS Tasks,    (* the task handles                                     *)
          IoTasks,  (* those whose body does socket I/O                     *)
          Threads,  (* the places a step can run                            *)
          None,     (* no task                                              *)
          Io        (* the I/O engine, as something a task can wait for     *)

ASSUME ConstantsDistinct == None \notin Tasks /\ Io \notin Tasks
ASSUME IoTasksAreTasks == IoTasks \subseteq Tasks

VARIABLES
  state,     (* state byte of each handle: 1 once the task is done          *)
  spawned,   (* the tasks already submitted                                 *)
  coro,      (* the coroutine slot: unborn, live, or gone (destroyed)       *)
  park,      (* the park byte                                               *)
  queue,     (* the run queue: nodes [handle, thunk]                        *)
  frame,     (* per thread, the step it runs and how far it got             *)
  waiters,   (* g_waiters: pairs <<target, waiter>>                         *)
  io,        (* per task, its registration with the I/O engine              *)
  wants      (* history: what the task armed in its latest step             *)

vars == <<state, spawned, coro, park, queue, frame, waiters, io, wants>>

Pcs == {"idle", "popped", "body", "armed", "suspended", "finished",
        "signalled", "firing", "tail"}

IdleFrame == [task |-> None, thunk |-> "resume", pc |-> "idle"]

(* A start node carries the thunk that runs the body; a resume node        *)
(* carries NULL.                                                           *)
Node(t, thunk) == [handle |-> t, thunk |-> thunk]

(* queue_mu is held across the whole waiter scan of signal_done; every     *)
(* other critical section is a single action.                              *)
QueueMuFree == \A th \in Threads : frame[th].pc # "firing"

At(th, pc) == frame[th].pc = pc
Goto(th, pc) == frame' = [frame EXCEPT ![th].pc = pc]

InQueue(t) == \E i \in 1..Len(queue) : queue[i].handle = t
InFrame(t) == \E th \in Threads : frame[th].task = t

(* Mutant: a wake queues the task whatever the park byte says.             *)
MakeRunnableAlwaysQueues(t) ==
  /\ queue' = Append(queue, Node(t, "resume"))
  /\ UNCHANGED park

(***************************************************************************)
(* make_runnable_locked: queue a parked task, otherwise record the wake.   *)
(***************************************************************************)
MakeRunnable(t) ==
  IF park[t] = "PARKED"
  THEN /\ park' = [park EXCEPT ![t] = "RUNNING"]
       /\ queue' = Append(queue, Node(t, "resume"))
  ELSE /\ park' = [park EXCEPT ![t] = "WAKE"]
       /\ UNCHANGED queue

(* disarm_waiter_locked: every registration of one waiter goes at once.    *)
Disarmed(t) == {w \in waiters : w[2] # t}

Init ==
  /\ state = [t \in Tasks |-> 0]
  /\ spawned = {}
  /\ coro = [t \in Tasks |-> "unborn"]
  /\ park = [t \in Tasks |-> "RUNNING"]
  /\ queue = <<>>
  /\ frame = [th \in Threads |-> IdleFrame]
  /\ waiters = {}
  /\ io = [t \in Tasks |-> "idle"]
  /\ wants = [t \in Tasks |-> {}]

-----------------------------------------------------------------------------
(* yoop_task_submit, by main or by a running body.                         *)
Submit(t) ==
  /\ QueueMuFree
  /\ t \notin spawned
  /\ spawned' = spawned \cup {t}
  /\ queue' = Append(queue, Node(t, "start"))
  /\ UNCHANGED <<state, coro, park, frame, waiters, io, wants>>

(* Mutant: the newest node is popped first.                                *)
PopNewest(th) ==
  LET n == Len(queue) IN
  /\ QueueMuFree
  /\ At(th, "idle")
  /\ queue # <<>>
  /\ queue' = SubSeq(queue, 1, n - 1)
  /\ frame' = [frame EXCEPT ![th] = [task |-> queue[n].handle, thunk |-> queue[n].thunk,
                                     pc |-> "popped"]]
  /\ UNCHANGED <<state, spawned, coro, park, waiters, io, wants>>

(* try_pop_task_locked, from worker_loop or from the wait loop.            *)
Pop(th) ==
  /\ QueueMuFree
  /\ At(th, "idle")
  /\ queue # <<>>
  /\ queue' = Tail(queue)
  /\ frame' = [frame EXCEPT ![th] = [task |-> Head(queue).handle,
                                     thunk |-> Head(queue).thunk,
                                     pc |-> "popped"]]
  /\ UNCHANGED <<state, spawned, coro, park, waiters, io, wants>>

(* The head of run_task_step: the park byte is reset, then the thunk       *)
(* starts the body or the stored coroutine is resumed.  A resume that      *)
(* finds no coroutine runs nothing.                                        *)
BeginStep(th) ==
  LET t == frame[th].task IN
  /\ QueueMuFree
  /\ At(th, "popped")
  /\ park' = [park EXCEPT ![t] = "RUNNING"]
  /\ wants' = [wants EXCEPT ![t] = {}]
  /\ coro' = [coro EXCEPT ![t] = IF frame[th].thunk = "start" THEN "live" ELSE @]
  /\ Goto(th, IF coro'[t] = "live" THEN "body" ELSE "suspended")
  /\ UNCHANGED <<state, spawned, queue, waiters, io>>

(* Mutant: the target's state is not looked at under the lock.             *)
ArmCompleteUnchecked(th, u) ==
  LET t == frame[th].task IN
  /\ QueueMuFree
  /\ At(th, "body") \/ At(th, "armed")
  /\ Io \notin wants[t]
  /\ u \in spawned \ {t}
  /\ waiters' = waiters \cup {<<u, t>>}
  /\ wants' = [wants EXCEPT ![t] = @ \cup {u}]
  /\ Goto(th, "armed")
  /\ UNCHANGED <<state, spawned, coro, park, queue, io>>

(* yoop_task_arm_complete returning 0.  On a target that is done it        *)
(* returns 2 and changes nothing.                                          *)
ArmComplete(th, u) ==
  LET t == frame[th].task IN
  /\ QueueMuFree
  /\ At(th, "body") \/ At(th, "armed")
  /\ Io \notin wants[t]
  /\ u \in spawned \ {t}
  /\ state[u] = 0
  /\ waiters' = waiters \cup {<<u, t>>}
  /\ wants' = [wants EXCEPT ![t] = @ \cup {u}]
  /\ Goto(th, "armed")
  /\ UNCHANGED <<state, spawned, coro, park, queue, io>>

(* yoop_task_disarm_complete: the body decides not to suspend after all.   *)
Disarm(th) ==
  LET t == frame[th].task IN
  /\ QueueMuFree
  /\ At(th, "armed")
  /\ Io \notin wants[t]
  /\ waiters' = Disarmed(t)
  /\ wants' = [wants EXCEPT ![t] = {}]
  /\ Goto(th, "body")
  /\ UNCHANGED <<state, spawned, coro, park, queue, io>>

(* io_arm_common / iop_begin: register with the engine and return.         *)
ArmIo(th) ==
  LET t == frame[th].task IN
  /\ At(th, "body")
  /\ t \in IoTasks
  /\ io[t] = "idle"
  /\ io' = [io EXCEPT ![t] = "armed"]
  /\ wants' = [wants EXCEPT ![t] = {Io}]
  /\ Goto(th, "armed")
  /\ UNCHANGED <<state, spawned, coro, park, queue, waiters>>

(* suspendNow: the coroutine returns to run_task_step, settle sees it is   *)
(* not finished, and the state byte is still 0.                            *)
Suspend(th) ==
  /\ At(th, "armed")
  /\ Goto(th, "suspended")
  /\ UNCHANGED <<state, spawned, coro, park, queue, waiters, io, wants>>

(* Mutant: a wake recorded during the step is cleared but not acted on.    *)
ParkOrForget(th) ==
  LET t == frame[th].task IN
  /\ QueueMuFree
  /\ At(th, "suspended")
  /\ park' = [park EXCEPT ![t] = IF @ = "WAKE" THEN "RUNNING" ELSE "PARKED"]
  /\ frame' = [frame EXCEPT ![th] = IdleFrame]
  /\ UNCHANGED <<state, spawned, coro, queue, waiters, io, wants>>

(* park_or_requeue_locked, at the end of a step that suspended.            *)
ParkOrRequeue(th) ==
  LET t == frame[th].task IN
  /\ QueueMuFree
  /\ At(th, "suspended")
  /\ IF park[t] = "WAKE"
     THEN /\ park' = [park EXCEPT ![t] = "RUNNING"]
          /\ queue' = Append(queue, Node(t, "resume"))
     ELSE /\ park' = [park EXCEPT ![t] = "PARKED"]
          /\ UNCHANGED queue
  /\ frame' = [frame EXCEPT ![th] = IdleFrame]
  /\ UNCHANGED <<state, spawned, coro, waiters, io, wants>>

(* The body returns: yoop_task_settle destroys the coroutine frame ...     *)
Finish(th) ==
  LET t == frame[th].task IN
  /\ At(th, "body")
  /\ coro' = [coro EXCEPT ![t] = "gone"]
  /\ Goto(th, "finished")
  /\ UNCHANGED <<state, spawned, park, queue, waiters, io, wants>>

(* ... and yoop_handle_signal_done publishes it: the state byte first,     *)
SignalState(th) ==
  LET t == frame[th].task IN
  /\ At(th, "finished")
  /\ state' = [state EXCEPT ![t] = 1]
  /\ Goto(th, "signalled")
  /\ UNCHANGED <<spawned, coro, park, queue, waiters, io, wants>>

(* Mutant: completion skips the waiter scan.                               *)
FireNever(th) ==
  /\ QueueMuFree
  /\ At(th, "signalled")
  /\ Goto(th, "tail")
  /\ UNCHANGED <<state, spawned, coro, park, queue, waiters, io, wants>>

(* then, under queue_mu, fire_waiters_locked: one waiter at a time, ...    *)
FireBegin(th) ==
  /\ QueueMuFree
  /\ At(th, "signalled")
  /\ Goto(th, "firing")
  /\ UNCHANGED <<state, spawned, coro, park, queue, waiters, io, wants>>

FireOne(th, t) ==
  /\ At(th, "firing")
  /\ <<frame[th].task, t>> \in waiters
  /\ waiters' = Disarmed(t)
  /\ MakeRunnable(t)
  /\ UNCHANGED <<state, spawned, coro, frame, io, wants>>

(* Mutant: the tail of the step does not look at the state byte and parks  *)
(* a finished task.                                                        *)
FireEndThenPark(th) ==
  /\ At(th, "firing")
  /\ \A w \in waiters : w[1] # frame[th].task
  /\ Goto(th, "suspended")
  /\ UNCHANGED <<state, spawned, coro, park, queue, waiters, io, wants>>

(* ... until none is left for this target.                                 *)
FireEnd(th) ==
  /\ At(th, "firing")
  /\ \A w \in waiters : w[1] # frame[th].task
  /\ Goto(th, "tail")
  /\ UNCHANGED <<state, spawned, coro, park, queue, waiters, io, wants>>

(* Mutant: the thread keeps naming the task it has left                    *)
(* (tls_current_task is not restored).                                     *)
EndStepKeepsTask(th) ==
  /\ At(th, "tail")
  /\ Goto(th, "idle")
  /\ UNCHANGED <<state, spawned, coro, park, queue, waiters, io, wants>>

(* The tail of run_task_step sees state 1 and does not park the task.      *)
EndStep(th) ==
  /\ At(th, "tail")
  /\ frame' = [frame EXCEPT ![th] = IdleFrame]
  /\ UNCHANGED <<state, spawned, coro, park, queue, waiters, io, wants>>

(* yoop_iob_deliver: the registration is taken under io_mu ...             *)
IoDeliver(t) ==
  /\ io[t] = "armed"
  /\ io' = [io EXCEPT ![t] = "fired"]
  /\ UNCHANGED <<state, spawned, coro, park, queue, frame, waiters, wants>>

(* ... and the task is woken after the unlock.                             *)
IoWake(t) ==
  /\ QueueMuFree
  /\ io[t] = "fired"
  /\ io' = [io EXCEPT ![t] = "idle"]
  /\ MakeRunnable(t)
  /\ UNCHANGED <<state, spawned, coro, frame, waiters, wants>>

(* A wake nobody is waiting for: yoop_io_shutdown wakes the task of every  *)
(* registration still in the table, delivered ones included.               *)
StrayWake(t) ==
  /\ QueueMuFree
  /\ t \in spawned
  /\ MakeRunnable(t)
  /\ UNCHANGED <<state, spawned, coro, frame, waiters, io, wants>>

-----------------------------------------------------------------------------
(* The steps of one thread that its next step does not choose to delay.    *)
EndBody(th) == Suspend(th) \/ Finish(th)

Next ==
  \/ \E t \in Tasks : Submit(t)
  \/ \E t \in IoTasks : IoDeliver(t) \/ IoWake(t) \/ StrayWake(t)
  \/ \E th \in Threads :
       \/ Pop(th) \/ BeginStep(th) \/ ArmIo(th) \/ Disarm(th)
       \/ \E u \in Tasks : ArmComplete(th, u)
       \/ Suspend(th) \/ Finish(th) \/ ParkOrRequeue(th)
       \/ SignalState(th) \/ FireBegin(th) \/ FireEnd(th) \/ EndStep(th)
       \/ \E t \in Tasks : FireOne(th, t)

Spec == Init /\ [][Next]_vars

(* Threads keep running, bodies end their steps, and the I/O thread        *)
(* finishes what it began; nobody owes a submission, an event or a stray   *)
(* wake.                                                                   *)
Fairness ==
  /\ \A th \in Threads :
       /\ WF_vars(Pop(th)) /\ WF_vars(BeginStep(th)) /\ WF_vars(EndBody(th))
       /\ WF_vars(ParkOrRequeue(th)) /\ WF_vars(SignalState(th))
       /\ WF_vars(FireBegin(th)) /\ WF_vars(FireEnd(th)) /\ WF_vars(EndStep(th))
       /\ WF_vars(\E t \in Tasks : FireOne(th, t))
  /\ \A t \in IoTasks : WF_vars(IoWake(t))

FairSpec == Spec /\ Fairness

-----------------------------------------------------------------------------
TypeOK ==
  /\ state \in [Tasks -> {0, 1}]
  /\ spawned \in SUBSET Tasks
  /\ coro \in [Tasks -> {"unborn", "live", "gone"}]
  /\ park \in [Tasks -> {"RUNNING", "WAKE", "PARKED"}]
  /\ queue \in Seq([handle : Tasks, thunk : {"start", "resume"}])
  /\ frame \in [Threads -> [task : Tasks \cup {None}, thunk : {"start", "resume"}, pc : Pcs]]
  /\ \A th \in Threads : frame[th].task = None <=> frame[th].pc = "idle"
  /\ waiters \in SUBSET (Tasks \X Tasks)
  /\ io \in [Tasks -> {"idle", "armed", "fired"}]
  /\ wants \in [Tasks -> SUBSET (Tasks \cup {Io})]

(***************************************************************************)
(* A task has at most one runner: whatever wakes arrive and whenever, it   *)
(* is never queued twice, never popped by one thread while another runs    *)
(* its coroutine, and never parked while queued or running.  Two runners   *)
(* would resume one coroutine frame from two threads (the hazard the       *)
(* comment on make_runnable_locked describes).                             *)
(***************************************************************************)
OneRunner ==
  /\ \A i, j \in 1..Len(queue) : queue[i].handle = queue[j].handle => i = j
  /\ \A th1, th2 \in Threads :
       frame[th1].task = frame[th2].task /\ frame[th1].task # None => th1 = th2
  /\ \A t \in Tasks : InQueue(t) => ~InFrame(t)
  /\ \A t \in Tasks : park[t] = "PARKED" => ~InQueue(t) /\ ~InFrame(t)

(***************************************************************************)
(* Every dispatch finds the task in the right condition: a start node only *)
(* for a body that never ran, a resume only for a live coroutine.  So no   *)
(* wake, however late, restarts a body or resumes a destroyed frame.       *)
(***************************************************************************)
DispatchIsSound ==
  /\ \A i \in 1..Len(queue) :
       coro[queue[i].handle] = IF queue[i].thunk = "start" THEN "unborn" ELSE "live"
  /\ \A th \in Threads :
       At(th, "popped") =>
         coro[frame[th].task] = IF frame[th].thunk = "start" THEN "unborn" ELSE "live"

(***************************************************************************)
(* No wake is lost: a parked task is still waiting for everything it       *)
(* armed.  Each target is unfinished, or its finisher has not reached the  *)
(* waiter scan yet, and an I/O interest has not been delivered and         *)
(* dropped.                                                                *)
(***************************************************************************)
Signalling(u) ==
  \E th \in Threads : frame[th].task = u /\ frame[th].pc \in {"signalled", "firing"}

NoLostWake ==
  \A t \in Tasks :
    park[t] = "PARKED" =>
      /\ \A u \in wants[t] \cap Tasks : state[u] = 0 \/ Signalling(u)
      /\ Io \in wants[t] => io[t] # "idle"

(***************************************************************************)
(* No task falls out of the scheduler: a submitted task that is not done   *)
(* is queued, or on a thread, or parked with something armed.              *)
(***************************************************************************)
NoTaskDropped ==
  \A t \in spawned :
    state[t] = 0 => InQueue(t) \/ InFrame(t)
                    \/ (park[t] = "PARKED" /\ wants[t] # {})

(***************************************************************************)
(* The scheduler implements the life cycle a task is promised: the phase   *)
(* is read off the queue, the threads, the park byte and the state byte.   *)
(***************************************************************************)
Phase(t) ==
  IF t \notin spawned THEN "new"
  ELSE IF state[t] = 1 THEN "done"
  ELSE IF InQueue(t) THEN "ready"
  ELSE IF park[t] = "PARKED" THEN "blocked" ELSE "running"

Lifecycle == INSTANCE TaskLifecycle WITH phase <- [t \in Tasks |-> Phase(t)]

ImplementsLifecycle == Lifecycle!Spec

(* A queued task is dispatched: the queue is FIFO and threads return to it.*)
QueuedIsDispatched == \A t \in Tasks : InQueue(t) ~> InFrame(t)

(* A task parked on a join runs again once a target it armed completes.    *)
JoinerResumes ==
  \A t, u \in Tasks :
    (park[t] = "PARKED" /\ u \in wants[t] /\ state[u] = 1) ~> InFrame(t)
=============================================================================
