------------------------------ MODULE TaskHandle ------------------------------
(***************************************************************************)
(* The handle of a task, from spawn to free, and the allocator context     *)
(* that travels with the task: yoop_task_alloc, retain, release and        *)
(* free_sync_pair, yoop_handle_signal_done and run_task_step of            *)
(* runtime/yoop_runtime.c, the per-task context of runtime/yoop_alloc.c,   *)
(* and the code the compiler emits around a binding (codegen/task_spawn    *)
(* and task_wait).                                                         *)
(*                                                                         *)
(* A pooled handle is on the heap with a reference count; a joined one is  *)
(* a slot of its parent's frame, which a loop uses again.  So a piece of   *)
(* storage holds one task after another, told apart here by a generation   *)
(* the code does not have.  The order of the run queue and the park byte   *)
(* are RunQueue's and TaskScheduler's: here any queued task may be next.   *)
(***************************************************************************)
EXTENDS Integers, Sequences, FiniteSets

CONSTANTS Handles,    (* the storage of task handles                        *)
          Pooled,     (* the ones on the heap; the others are stack slots   *)
          Parent,     (* whose code binds each: a task or Main              *)
          Main,       (* the main thread, and the code it runs              *)
          Workers,    (* the threads of the pool                            *)
          Regions,    (* allocators a program installs                      *)
          Unset,      (* nothing installed: malloc                          *)
          NoRecord,   (* a null context slot                                *)
          Spawns,     (* bound: tasks per storage                           *)
          MaxHeld,    (* bound: bindings to one pooled handle               *)
          LateReuse   (* storage is used again only once no step of its     *)
                      (* last task is still on a thread                     *)

ASSUME TaskHandleAssumption ==
  /\ Pooled \subseteq Handles
  /\ Main \notin Handles \cup Workers /\ Handles \cap Workers = {}
  /\ Parent \in [Handles -> Handles \cup {Main}]
  /\ Unset \notin Regions /\ NoRecord \notin Regions \cup {Unset}
  /\ Spawns \in Nat /\ MaxHeld \in Nat \ {0}
  /\ LateReuse \in BOOLEAN

VARIABLES
  gen,      (* per storage: tasks spawned in it so far                      *)
  live,     (* the storage that is a handle: not yet spawned in, freed, or  *)
            (* left by its frame otherwise                                  *)
  state,    (* per storage: the state byte                                  *)
  refs,     (* per storage: the reference count                             *)
  held,     (* per storage: bindings whose scope has not ended              *)
  ctx,      (* per storage: the context slot: what the record remembers     *)
  temp,     (* per scratch arena (a task's or a thread's): the code that    *)
            (* has allocations in it                                        *)
  ready,    (* the tasks on the run queue                                   *)
  parked,   (* the tasks suspended                                          *)
  stack,    (* per thread: the steps it is in, the newest last              *)
  cur,      (* per thread: yoop_cur_alloc                                   *)
  slot,     (* per thread: yoop_cur_task_slot, Main when null               *)
  waiting,  (* per code: the handle it is in yoop_task_wait for, or Main    *)
  own       (* per code: what it installed last                             *)

vars == <<gen, live, state, refs, held, ctx, temp, ready, parked, stack, cur, slot,
          waiting, own>>
memory == <<gen, live, state, refs, held>>
context == <<ctx, temp, cur, slot, own>>

Threads == Workers \cup {Main}
Codes == Handles \cup {Main}
Task == Handles \X (1..Spawns)
Steps == {"body", "store", "sync", "release", "tail", "discard", "park"}
Frame == [task : Task, pc : Steps, alloc : Regions \cup {Unset}, slot : Codes]

Top(th) == stack[th][Len(stack[th])]
At(th, pc) == stack[th] # <<>> /\ Top(th).pc = pc
On(th) == Top(th).task[1]
Below(th) == SubSeq(stack[th], 1, Len(stack[th]) - 1)
GoTo(th, pc) == stack' = [stack EXCEPT ![th][Len(stack[th])].pc = pc]
Stepping(h) == \E th \in Threads : \E i \in 1..Len(stack[th]) : stack[th][i].task[1] = h

(* c's code is what th executes, and it is not in a wait.                  *)
Code(th, c) ==
  /\ \/ c \in Handles /\ At(th, "body") /\ On(th) = c
     \/ c = Main /\ th = Main /\ stack[Main] = <<>>
  /\ waiting[c] = Main

Init ==
  /\ gen = [h \in Handles |-> 0]
  /\ live = {}
  /\ state = [h \in Handles |-> 0]
  /\ refs = [h \in Handles |-> 0]
  /\ held = [h \in Handles |-> 0]
  /\ ctx = [h \in Handles |-> NoRecord]
  /\ temp = [x \in Handles \cup Threads |-> {}]
  /\ ready = {}
  /\ parked = {}
  /\ stack = [th \in Threads |-> <<>>]
  /\ cur = [th \in Threads |-> Unset]
  /\ slot = [th \in Threads |-> Main]
  /\ waiting = [c \in Codes |-> Main]
  /\ own = [c \in Codes |-> Unset]

-----------------------------------------------------------------------------
(* A spawn: zeroed storage (yoop_task_alloc's is born with two             *)
(* references, the binding's and the worker's), then yoop_task_submit.     *)
Spawn(th, h) ==
  /\ Code(th, Parent[h]) /\ h \notin live /\ held[h] = 0 /\ gen[h] < Spawns
  /\ LateReuse => ~Stepping(h)
  /\ gen' = [gen EXCEPT ![h] = @ + 1]
  /\ live' = live \cup {h}
  /\ state' = [state EXCEPT ![h] = 0]
  /\ refs' = [refs EXCEPT ![h] = IF h \in Pooled THEN 2 ELSE 0]
  /\ held' = [held EXCEPT ![h] = 1]
  /\ ctx' = [ctx EXCEPT ![h] = NoRecord]
  /\ ready' = ready \cup {<<h, gen[h] + 1>>}
  /\ own' = [own EXCEPT ![h] = Unset]
  /\ UNCHANGED <<temp, parked, stack, cur, slot, waiting>>

(* `pooled h2 = h1`: yoop_task_retain.                                     *)
Copy(th, h) ==
  /\ Code(th, Parent[h]) /\ h \in Pooled /\ held[h] \in 1..MaxHeld - 1
  /\ held' = [held EXCEPT ![h] = @ + 1]
  /\ refs' = [refs EXCEPT ![h] = @ + 1]
  /\ UNCHANGED <<gen, live, state, ready, parked, stack, waiting, context>>

(* yoop_task_release: the last reference frees the sync pair, the context  *)
(* record with its scratch arena, and the handle.                          *)
Release(h) ==
  /\ refs' = [refs EXCEPT ![h] = @ - 1]
  /\ IF refs[h] = 1
     THEN /\ live' = live \ {h}
          /\ ctx' = [ctx EXCEPT ![h] = NoRecord]
          /\ temp' = [temp EXCEPT ![h] = {}]
     ELSE UNCHANGED <<live, ctx, temp>>

(* Mutant: a binding that has been moved away is released once more.       *)
DropAgain(th, h) ==
  /\ Code(th, Parent[h]) /\ h \in Pooled
  /\ held' = [held EXCEPT ![h] = @ - 1]
  /\ Release(h)
  /\ UNCHANGED <<gen, state, ready, parked, stack, waiting, cur, slot, own>>

(* The end of a pooled binding's scope.                                    *)
Drop(th, h) ==
  /\ Code(th, Parent[h]) /\ h \in Pooled /\ held[h] > 0
  /\ held' = [held EXCEPT ![h] = @ - 1]
  /\ Release(h)
  /\ UNCHANGED <<gen, state, ready, parked, stack, waiting, cur, slot, own>>

(* yoop_task_wait: `wait h`, or the end of a joined binding's scope ...    *)
Wait(th, h) ==
  /\ Code(th, Parent[h]) /\ held[h] > 0
  /\ waiting' = [waiting EXCEPT ![Parent[h]] = h]
  /\ UNCHANGED <<memory, context, ready, parked, stack>>

Waits(th, c) ==
  /\ waiting[c] # Main
  /\ IF c = Main THEN th = Main /\ stack[Main] = <<>> ELSE At(th, "body") /\ On(th) = c

(* ... which returns when the state byte is 1.  At the end of a joined     *)
(* binding's scope free_sync_pair follows, and the slot is its frame's     *)
(* again.                                                                  *)
WaitReturns(th, c) ==
  /\ Waits(th, c)
  /\ LET h == waiting[c] IN
       /\ state[h] = 1
       /\ waiting' = [waiting EXCEPT ![c] = Main]
       /\ \/ UNCHANGED <<live, held>>
          \/ h \notin Pooled /\ live' = live \ {h} /\ held' = [held EXCEPT ![h] = 0]
  /\ UNCHANGED <<gen, state, refs, context, ready, parked, stack>>

-----------------------------------------------------------------------------
(* run_task_step begins: the thread's allocator and slot are saved on its  *)
(* stack and the task's own are installed.                                 *)
Save(th, t) == Append(stack[th], [task |-> t, pc |-> "body", alloc |-> cur[th], slot |-> slot[th]])

(* Mutant: a task that has no record starts with what the thread has.      *)
BeginStepAsIs(th, t) ==
  /\ t \in ready
  /\ ready' = ready \ {t}
  /\ stack' = [stack EXCEPT ![th] = Save(th, t)]
  /\ cur' = [cur EXCEPT ![th] = IF ctx[t[1]] = NoRecord THEN @ ELSE ctx[t[1]]]
  /\ slot' = [slot EXCEPT ![th] = t[1]]
  /\ UNCHANGED <<memory, ctx, temp, parked, waiting, own>>

BeginStep(th, t) ==
  /\ t \in ready
  /\ ready' = ready \ {t}
  /\ stack' = [stack EXCEPT ![th] = Save(th, t)]
  /\ cur' = [cur EXCEPT ![th] = IF ctx[t[1]] = NoRecord THEN Unset ELSE ctx[t[1]]]
  /\ slot' = [slot EXCEPT ![th] = t[1]]
  /\ UNCHANGED <<memory, ctx, temp, parked, waiting, own>>

(* worker_loop, and yoop_task_wait on top of what the thread was doing.    *)
Work(w, t) == stack[w] = <<>> /\ BeginStep(w, t)
WorkInWait(th, c, t) == Waits(th, c) /\ BeginStep(th, t)

(* pushAllocator and popAllocator: yoop_set_allocator.                     *)
Install(th, c, r) ==
  /\ Code(th, c)
  /\ cur' = [cur EXCEPT ![th] = r]
  /\ own' = [own EXCEPT ![c] = r]
  /\ UNCHANGED <<memory, ctx, temp, slot, ready, parked, stack, waiting>>

(* yoop_temp_handle: the task's arena, in a record made for the purpose,   *)
(* or the thread's outside a step.                                         *)
Scratch(th) == IF slot[th] = Main THEN th ELSE slot[th]

TempUse(th, c) ==
  /\ Code(th, c)
  /\ temp' = [temp EXCEPT ![Scratch(th)] = @ \cup {c}]
  /\ ctx' = IF slot[th] # Main /\ ctx[slot[th]] = NoRecord
            THEN [ctx EXCEPT ![slot[th]] = Unset] ELSE ctx
  /\ UNCHANGED <<memory, cur, slot, own, ready, parked, stack, waiting>>

TempReset(th, c) ==
  /\ Code(th, c)
  /\ temp' = [temp EXCEPT ![Scratch(th)] = {}]
  /\ UNCHANGED <<memory, ctx, cur, slot, own, ready, parked, stack, waiting>>

(* The body suspends: yoop_task_settle finds it unfinished.                *)
Suspend(th, c) ==
  /\ c \in Handles /\ Code(th, c)
  /\ GoTo(th, "tail")
  /\ UNCHANGED <<memory, context, ready, parked, waiting>>

(* The body ends, every binding of its scopes with it, and                 *)
(* yoop_handle_signal_done begins.                                         *)
Finish(th, c) ==
  /\ c \in Handles /\ Code(th, c)
  /\ \A h \in Handles : Parent[h] = c => held[h] = 0
  /\ GoTo(th, "store")
  /\ UNCHANGED <<memory, context, ready, parked, waiting>>

(* yoop_handle_signal_done: the state byte, under the handle's mutex; the  *)
(* broadcast and the unlock, which use the sync pair; the worker's own     *)
(* reference, given up last.                                               *)
StoreState(th) ==
  /\ At(th, "store")
  /\ state' = [state EXCEPT ![On(th)] = 1]
  /\ GoTo(th, "sync")
  /\ UNCHANGED <<gen, live, refs, held, context, ready, parked, waiting>>

Sync(th) ==
  /\ At(th, "sync")
  /\ GoTo(th, "release")
  /\ UNCHANGED <<memory, context, ready, parked, waiting>>

(* Mutant: a reference that is the last one is taken for a joined handle.  *)
ReleaseOwnShared(th) ==
  /\ At(th, "release")
  /\ GoTo(th, "tail")
  /\ IF refs[On(th)] > 1 THEN Release(On(th)) ELSE UNCHANGED <<live, refs, ctx, temp>>
  /\ UNCHANGED <<gen, state, held, cur, slot, own, ready, parked, waiting>>

ReleaseOwn(th) ==
  /\ At(th, "release")
  /\ GoTo(th, "tail")
  /\ IF refs[On(th)] > 0 THEN Release(On(th)) ELSE UNCHANGED <<live, refs, ctx, temp>>
  /\ UNCHANGED <<gen, state, held, cur, slot, own, ready, parked, waiting>>

-----------------------------------------------------------------------------
(* Mutant: the caller's allocator comes back, its slot does not.           *)
RestoreAllocator(th) ==
  /\ stack' = [stack EXCEPT ![th] = Below(th)]
  /\ cur' = [cur EXCEPT ![th] = Top(th).alloc]
  /\ UNCHANGED slot

(* The tail of run_task_step.  It reads the state byte and the context     *)
(* slot of storage that may have been given up; such storage is read here  *)
(* as it was left, or as its next task has it.                             *)
Restore(th) ==
  /\ stack' = [stack EXCEPT ![th] = Below(th)]
  /\ cur' = [cur EXCEPT ![th] = Top(th).alloc]
  /\ slot' = [slot EXCEPT ![th] = Top(th).slot]

(* yoop_ctx_discard_task, under no lock: without a record there is nothing *)
(* to do, ...                                                              *)
NothingToDiscard(th) ==
  /\ At(th, "tail") /\ state[On(th)] # 0 /\ ctx[On(th)] = NoRecord
  /\ Restore(th)
  /\ UNCHANGED <<memory, ctx, temp, own, ready, parked, waiting>>

(* ... otherwise its address is read first ...                             *)
Discard(th) ==
  /\ At(th, "tail") /\ state[On(th)] # 0 /\ ctx[On(th)] # NoRecord
  /\ GoTo(th, "discard")
  /\ UNCHANGED <<memory, context, ready, parked, waiting>>

(* ... and the slot is cleared, the arena and the record are freed after.  *)
(* The last binding may be released in between (Drop), which frees the     *)
(* record and the handle first: the record is then freed twice, and the    *)
(* slot written is no longer a handle's.  No property forbids it: it is    *)
(* part of the race the code documents.                                    *)
FreeRecord(th) ==
  /\ At(th, "discard")
  /\ ctx' = [ctx EXCEPT ![On(th)] = NoRecord]
  /\ temp' = [temp EXCEPT ![On(th)] = {}]
  /\ Restore(th)
  /\ UNCHANGED <<memory, own, ready, parked, waiting>>

(* yoop_ctx_store_task, ...                                                *)
Store(th) ==
  /\ At(th, "tail") /\ state[On(th)] = 0
  /\ ctx' = IF ctx[On(th)] = NoRecord /\ cur[th] = Unset THEN ctx
            ELSE [ctx EXCEPT ![On(th)] = cur[th]]
  /\ GoTo(th, "park")
  /\ UNCHANGED <<memory, temp, cur, slot, own, ready, parked, waiting>>

(* ... then park_or_requeue_locked: parked, or back on the queue at once   *)
(* if a wake came during the step.                                         *)
Park(th) ==
  /\ At(th, "park")
  /\ \/ parked' = parked \cup {Top(th).task} /\ UNCHANGED ready
     \/ ready' = ready \cup {Top(th).task} /\ UNCHANGED parked
  /\ Restore(th)
  /\ UNCHANGED <<memory, ctx, temp, own, waiting>>

(* yoop_task_make_runnable.                                                *)
Wake(t) ==
  /\ t \in parked
  /\ parked' = parked \ {t}
  /\ ready' = ready \cup {t}
  /\ UNCHANGED <<memory, context, stack, waiting>>

Next ==
  \/ \E th \in Threads, h \in Handles :
       \/ Spawn(th, h) \/ Copy(th, h) \/ Drop(th, h) \/ Wait(th, h)
       \/ Suspend(th, h) \/ Finish(th, h)
  \/ \E th \in Threads, c \in Codes :
       \/ WaitReturns(th, c) \/ TempUse(th, c) \/ TempReset(th, c)
       \/ \E r \in Regions : Install(th, c, r)
       \/ \E t \in ready : WorkInWait(th, c, t)
  \/ \E w \in Workers, t \in ready : Work(w, t)
  \/ \E th \in Threads : \/ StoreState(th) \/ Sync(th) \/ ReleaseOwn(th)
                         \/ NothingToDiscard(th) \/ Discard(th) \/ FreeRecord(th)
                         \/ Store(th) \/ Park(th)
  \/ \E t \in parked : Wake(t)

Spec == Init /\ [][Next]_vars

-----------------------------------------------------------------------------
TypeOK ==
  /\ gen \in [Handles -> 0..Spawns]
  /\ live \in SUBSET Handles
  /\ state \in [Handles -> {0, 1}]
  /\ refs \in [Handles -> Int]
  /\ held \in [Handles -> 0..MaxHeld]
  /\ ctx \in [Handles -> Regions \cup {Unset, NoRecord}]
  /\ temp \in [Handles \cup Threads -> SUBSET Codes]
  /\ ready \in SUBSET Task
  /\ parked \in SUBSET Task
  /\ stack \in [Threads -> Seq(Frame)]
  /\ cur \in [Threads -> Regions \cup {Unset}]
  /\ slot \in [Threads -> Codes]
  /\ waiting \in [Codes -> Codes]
  /\ own \in [Codes -> Regions \cup {Unset}]

(***************************************************************************)
(* The ambient allocator belongs to the task (run_task_step): whatever     *)
(* thread the code of a task or of main runs on, and whatever ran on that  *)
(* thread before, or meanwhile on top of a wait, the thread's allocator is *)
(* the one that code installed, and its context slot that code's.  True    *)
(* only if storage is not used again under a step of its last task, which  *)
(* the code does not see to: the tail of that step would record its        *)
(* thread's allocator for the new task.                                    *)
(***************************************************************************)
FollowsTask ==
  \A th \in Threads, c \in Codes :
    Code(th, c) \/ Waits(th, c) => cur[th] = own[c] /\ slot[th] = c

(***************************************************************************)
(* A task's scratch is invisible to every other task, and resetTemp in a   *)
(* task never clears the storage of whoever dispatched it (alloc.yoop):    *)
(* an arena holds allocations of one task only, or of the code its thread  *)
(* runs outside any step.                                                  *)
(***************************************************************************)
ScratchIsOwn ==
  /\ \A h \in Handles : temp[h] \subseteq {h}
  /\ \A w \in Workers : temp[w] = {}
  /\ temp[Main] \subseteq {Main}

(***************************************************************************)
(* The handle outlives these uses: a binding in scope names a handle that  *)
(* exists, and so does every queued or parked task and every step, up to   *)
(* the store of the state byte (a joined handle) or to the release of the  *)
(* worker's own reference (a pooled one).  It need not outlive the sync    *)
(* pair's last use on a joined handle, nor the tail of a finished task     *)
(* with its discard: those steps do touch storage that is given up.  Like  *)
(* FollowsTask it is lost when storage is used again under such a step.    *)
(***************************************************************************)
Exists(t) == t[1] \in live /\ t[2] = gen[t[1]]

Uses(h) == IF h \in Pooled THEN {"body", "store", "sync", "release", "park"}
           ELSE {"body", "store", "park"}

NoUseAfterFree ==
  /\ \A h \in Handles : held[h] > 0 => h \in live
  /\ \A t \in ready \cup parked : Exists(t)
  /\ \A th \in Threads : \A i \in 1..Len(stack[th]) :
       stack[th][i].pc \in Uses(stack[th][i].task[1]) => Exists(stack[th][i].task)

(***************************************************************************)
(* Nothing is left behind: a pooled handle is freed by whichever of the    *)
(* bindings and the worker lets go last, and storage that is given up and  *)
(* that no step is in has no context record and no scratch arena.          *)
(***************************************************************************)
NothingLeaks ==
  \A h \in Handles : ~Stepping(h) =>
    /\ h \in live /\ h \in Pooled /\ held[h] = 0 => <<h, gen[h]>> \in ready \cup parked
    /\ h \notin live => ctx[h] = NoRecord /\ temp[h] = {}

FreedWhenUnused == NoUseAfterFree /\ NothingLeaks

(***************************************************************************)
(* Each task that storage holds in turn lives the life TaskLifecycle       *)
(* promises, from its spawn to the store of its state byte: the state byte *)
(* is the storage's, so a step that reads that of the next task, or a      *)
(* completion that reaches it, would move the wrong one.                   *)
(***************************************************************************)
Working(t) ==
  \E th \in Threads : \E i \in 1..Len(stack[th]) :
    /\ stack[th][i].task = t
    /\ stack[th][i].pc \in {"body", "store", "park"}
         \cup IF state[t[1]] = 0 THEN {"tail"} ELSE {}

Phase(t) ==
  IF t[2] > gen[t[1]] THEN "new"
  ELSE IF t \in ready THEN "ready"
  ELSE IF t \in parked THEN "blocked"
  ELSE IF Working(t) THEN "running" ELSE "done"

Lifecycle == INSTANCE TaskLifecycle WITH Tasks <- Task, phase <- [t \in Task |-> Phase(t)]

ImplementsLifecycle == Lifecycle!Spec
=============================================================================
