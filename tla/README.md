# Verification of the yooper runtime

TLA+ models, TLC runs and TLAPS proofs for this repository. The repository is a
self-hosted compiler for a systems language (`bootstrap/src`), a C runtime that
every compiled program links (`runtime/`), and a standard library (`std/`). The
part that is hard to test is the runtime: coroutine tasks on a thread pool, an I/O
thread, cancellation tokens shared by everybody, and a shutdown that meets all of
them. That is what is modelled, with two users of it that have protocols of their
own: the HTTP server of the standard library, and the JavaScript driver that keeps
the child processes of the test suites (`src/testProc.js`).

Line numbers below are of the files at the commit this directory was written
against; `PROJECT.json` ("map") gives the lines of every definition.

## 1. Inventory

| Component | State | Operations | Interacts with | Hard because |
|---|---|---|---|---|
| **Task scheduler** (`yoop_runtime.c` 60-270, 640-810) | per handle: state byte, coroutine slot, park byte; list of completion waiters; current task per thread | submit, begin a step, arm/disarm a completion, park or requeue, make runnable, settle, fire waiters | run queue, I/O thread (`make_runnable`), compiled bodies (`suspendNow`) | a wake may come before, during or after the step it is meant for; two threads must never resume one coroutine |
| **Run queue, workers, waits** (`yoop_runtime.c` 254-620) | FIFO queue, one condition variable for everyone, shutdown flag, threads' stacks | push, pop, `wait` (dispatches on the waiting thread), `waitUntil`, `cancel`, init, shutdown | scheduler, main program | several kinds of sleepers on one condition variable; nested dispatch; shutdown |
| **Park tokens, timers** (`yoop_runtime.c` 860-960, `yoop_time.c`) | a three-valued state per token | park, timed park, unpark | I/O waits, cancellation | timeout against wake |
| **I/O core** (`yoop_io.c` 120-860) | table of registrations, sequence numbers, started and stopping flags, the I/O thread | blocking wait, blocking operation, suspended wait, suspended operation, delivery, start, shutdown | engine, scheduler, tokens | the engine writes into the stack frame of a waiting thread, which may time out or be cancelled meanwhile |
| **Engines** (`yoop_io_epoll.c`, `_kqueue.c`, `_windows.c`) | epoll: per descriptor a read and a write seq, one-shot arming, self-pipe | register, deregister, wake, loop, forget, teardown | I/O core | two directions share one kernel entry; events are older than what they are applied to |
| **Cancellation tokens** (`yoop_cancel.c`, `std/core/cancel`) | flag, deadline, waiters, parent, children, reference count | new, child, share, request (cascade), set deadline, sleep, wait, release | I/O waits, sleepers | linking, cascading and freeing at once |
| **Child processes** (`yoop_io.c` 861-1241) | pipes of one call | spawn, run | none | pure I/O |
| **Task handles** (`yoop_runtime.c` 768-860, `codegen/task_spawn`, `task_wait`) | per handle: reference count, state byte, context slot; per binding: its scope | spawn, copy, end of scope, wait, completion, release | compiled code, scheduler | heap handles let go by several threads; stack slots used again; a step's tail reads a handle that was released (a race the source describes at 228-238) |
| **Allocator contexts** (`yoop_alloc.c`, `std/core/alloc.yoop`) | the ambient allocator and the context slot of a thread, a record per task, a scratch arena per task or thread | save, load, store, discard, restore, install, reset | every step | a context must follow its task, also through steps nested in waits |
| **Atomics** (`yoop_atomic.c`, `std/core/atomic.yoop`) | none | load, store, add | std, programs | none: the steps of `HttpServer` and `CancelTree` |
| **Runtime leaves** (`yoop_fs.c`, `yoop_net.c`, `yoop_tls.c`, ...) | none of their own | wrappers of system calls | std | pure I/O |
| **std/net, std/tls** | a descriptor | arm, suspend, retry | I/O core | the arm / suspend / end pattern |
| **std/http server** (`std/http/server.yoop`) | per server: `ServeState` (inFlight, peak, accepted, rejected, served); per connection: requests answered | `serve`, `serveConcurrent`, `connectionTask`, `serveConnectionOn` | std/net, tasks, atomics | fire-and-forget tasks that write to a caller's counters; a ceiling tested after it is claimed |
| **std/http client, router, TLS** (`std/http`, `std/https`) | buffers, tables | parse, match, format | std/net | boundaries of buffers; sequential |
| **std collections, text, encodings** | arrays | map with open addressing, deque, vec, base64, SHA-256 | none | boundaries |
| **modules/json** | none | parse, serialize | none | sequential |
| **Compiler** (lex, parse, source_graph, typecheck, comptime, codegen, link, lsp, plugin) | trees and tables | passes | none at run time | size; sequential. The rules worth a model are the walk of the source graph, the discharge of kind obligations and divergence |
| **Test driver's child processes** (`src/testProc.js`) | per call: events seen, four timers; the set of live children; the tree kill in progress | `runProc`, `killTree`, `trackChild`, `stopChild`, safety net | operating system | events and timers in any order; descendants that ignore signals, keep pipes open or are reparented |
| **Other tools, editors, web, scripts** | - | - | - | drivers and generated pages; the editor's language clients have one hazard, listed |

How they meet: a body arms an interest (`yoop_task_arm_complete`, `io_arm_common`,
`iop_begin`) and then returns out of its step; the completion of another task or the
I/O thread calls `yoop_task_make_runnable`; the run queue wakes a thread; the thread
runs the next step. A thread that is not a task parks on a token on its own stack
instead, and the I/O thread, the cancellation of a token or a deadline wakes it.

What makes each part correct is listed as `hazards` in `PROJECT.json`, every one at
its line, with the property that covers it or the reason none does.

## 2. Modules

| Module | Models |
|---|---|
| `TaskLifecycle` | the abstract promise: a task is new, ready, running, blocked, done, and moves between these one edge at a time |
| `WaitPromise` | the abstract promise of a wait for a socket: resolved once, given up only for a reason |
| `TokenTree` | the abstract promise of cancellation tokens: created, linked, cancelled and freed once each |
| `Admission` | the abstract promise of the server's ceiling: who is let in, who is turned away, three exact numbers |
| `TaskScheduler` | steps, park byte, queue, waiter list, I/O registrations of tasks. Refines `TaskLifecycle` |
| `RunQueue` | who sleeps on `queue_cv` and who wakes them: workers, dispatching waits, bounded waits, cancel, shutdown. Refines `TaskLifecycle` |
| `IoWait` | a wait for a socket from call to return, against the table, the epoll engine, the token, the deadline and the shutdown of the engine. Refines `WaitPromise` |
| `CancelTree` | the tree of tokens: link, cascade, counts, teardown, sleepers. Refines `TokenTree` |
| `TaskHandle` | a handle from spawn to free, and the allocator context that travels with its task. Refines `TaskLifecycle` |
| `HttpServer` | the two accept loops, the tasks they start, `ServeState`, keep-alive. Refines `Admission` |
| `TestProc` | the driver's calls, timers and tree kills against the processes |
| `..._proofs` | the theorems about each of the above (`CancelTree` has two such modules) |
| `MC...` | instances for TLC where the constants need definitions or symmetry |

One action stands for one critical section of the code (of `queue_mu`, `io_mu`, or a
token's mutex), or for one atomic operation outside a lock. Where a critical section
calls into a loop whose order matters (`fire_waiters_locked`, the scan of a token's
children), the lock is modelled as held over several actions.

### TaskScheduler

`state`, `coro`, `park` are the bytes and the slot of the handle prefix; `queue` holds
nodes with or without a thunk; `frame[th]` is the step a thread runs and how far
`run_task_step` has come (`popped`, `body`, `armed`, `suspended`, `finished`,
`signalled`, `firing`, `tail`); `waiters` is `g_waiters`; `io` is the task's entry
with the engine. `wants` is a history variable: what the task armed in its latest
step. Threads are places where a step can run, so a thread inside `yoop_task_wait`
is one more of them. A body does anything a body can: submit, arm one or several
targets, arm the engine, change its mind (disarm), suspend once it has armed
something, return. `StrayWake` is the second wake `yoop_io_shutdown` gives a
delivered operation.

### RunQueue

`stack[th]` is a thread's stack of activities, the newest last: a step it runs, a wait
it is in, a broadcast it still owes. `asleep` is the set of threads in
`yoop_cond_wait` on `queue_cv`: `Push` removes one of them, whichever the system picks,
a broadcast removes all, `SpuriousWake` removes any. Park byte and waiter list are
left to `TaskScheduler`: here a suspended task is woken by some thread. `SignalDone`
follows at most one suspended joiner. The deadline of a bounded wait may pass at any
moment, and what the wait returns is not kept. `NoBuriedWait` is about sets of tasks: in
none of them is everyone held up by another, where a step is held up by the tasks of the
steps and waits above it on its stack. With one task this is a wait for it on top of its
own step, with more a circle over several stacks.

### IoWait

`pc[c]` is where a call is. A caller of kind `wait` is a thread in `io_wait_common`,
`op` one in `yoop_iop_wait`, `arm` and `taskop` are tasks in `io_arm_common` and in
`iop_begin` / `yoop_iop_end`. `table` is `io_regs`, `ep` the two seqs of the slot,
`kernel` what the epoll set has armed, `loop` the I/O thread: the batch it fetched, the
seqs it has claimed, the task it must still wake. `token` has the flag, the waiter list
and whether its mutex is held by a thread that is waking them. Bounds and abstractions:

- one descriptor and one token: the hazards are about who shares them;
- sequence numbers are drawn from `Callers \X 1..MaxSeq`, always one that nothing
  refers to any more (`FreshSeqs`), which is what "never reused" amounts to; a call
  that finds none left would not register, which with two per caller never happens in
  the runs;
- time: a limited wait may time out at any moment, and how late one returns cannot be told;
- the system call made before registering and after a delivery has no effect on the
  state and is left out; registering may fail at any time (`Refuse`);
- the engine can be started again after its shutdown, but is shut down once;
- the loop leaves only when it is told to: its exit on an `epoll_wait` error other than
  EINTR (`yoop_io_epoll.c` 257-260), after which nobody is served, is left out;
- the descriptor is closed only between calls (`Close`): closing one that somebody waits
  on, which drops the slot (315) and leaves the registration, is a fault of the caller that
  no document promises to handle.

### CancelTree

Every thread has a stack of calls, because `yoop_cancel_request` and
`yoop_cancel_release` recurse. A frame names what comes next; `more` is what a scan has
still to look at and `kids` the retained snapshot. `try_retain` is one step: the count
it may bump by mistake and put back is read by no one in between. Linking is done the
way `childOf` does it, on a token nobody else has seen yet. Allocation does not fail.

### TaskHandle

A storage is a heap handle (`Pooled`) or a slot of its parent's frame; it holds one task
after another, told apart by `gen`, which the code does not have. `refs`, `state`, `ctx`
are the count, the state byte and the context slot; `held` counts the bindings in scope.
`stack[th]` is the nesting of `run_task_step` on a thread, each frame with what it saved
(`alloc`, `slot`) and how far it has come: `body`, `store` (the record), `sync`
(`signal_done` on the handle's own mutex), `release`, `tail`, `discard`, `park`. `cur` and
`slot` are the thread's `yoop_cur_alloc` and `yoop_cur_task_slot`; `temp` says whose
allocations are in a scratch arena. `own` is a history variable: what a piece of code
installed last. Any queued task may be next (the order is `RunQueue`'s). Bounds: `Spawns`
tasks per storage, `MaxHeld` bindings to one handle. Only the code that spawned a handle
binds it.

`LateReuse` names an assumption the code needs and does not enforce: that storage is
used for another task only when no step of its last one is still on a thread. Without it
(`LateReuse = FALSE`) TLC finds `FollowsTask` violated in the way the comment at
`yoop_runtime.c` 228-238 describes: the worker that finishes a task has released the last
reference of its pooled handle, the storage is spawned in again, and the old tail reads
the new task's state byte and stores its own allocator in the new task's slot;
`FreedWhenUnused` is violated too. With each storage used once (`Spawns` = 1) every
property holds without it. The proofs call the two cases together `NoEarlyReuse`.

The other half of that race needs no new task: the tail discards the context record
under no lock, in two steps (`Discard` reads its address, `FreeRecord` frees it), and the
last binding may be released between them (`Drop`), which frees the record and the handle
first. This overlap is in the behaviours. No property forbids it, because the code
documents it as open; what `FreedWhenUnused` does claim ends, for each kind of handle,
before the tail.

### HttpServer

`cfg` is what the server was started with (either loop, `maxConcurrent`, `n`, the
keep-alive limit); `loop`, `holds`, `now`, `handled` are the accept loop and its locals;
`at[c]` is where a connection is, from the backlog to its close. Every atomic operation on
`ServeState` is a step of its own, and so is every await: claim-then-test, the raise of
the peak, the count of an accepted socket, the spawn, and at the end of a connection its
count, its slot and its close. What a request says is its outcome: answered and kept,
answered and last, malformed, or the client is gone. `serve` has one connection
at a time and counts its requests against `n`; `serveConcurrent` counts sockets. The comment
at 613-614 says that a ceiling of zero or less makes `serveConcurrent` "behave like `serve`";
the code makes it 1 (620), and at 1, in the code and in the model, a second connection is
refused with a 503 where `serve` would leave it in the backlog. A stream
is closed after its slot was given back, so the descriptors in use may exceed the slots by
the connections that are just closing. `AcceptOutcome.TimedOut` is not a step: neither
loop gives accept a deadline.

### TestProc

The driver is one thread; the processes go on between any two of its steps, also between
the two walks of `killTree`, each of which is a list made earlier (`kill.kin`). `proc` and
`parent` are the system's tree: a process whose parent ends is reparented (to None), and
`Descendants` is what pgrep can find from a child. `armed` is the timers of a call and
`drain` what its variable `drainTimer` names, which are not the same. `strays` is a
history variable: processes that cannot be found from a child any more, or that were
forked while SIGKILLs were sent. Time is abstract: every timer may fire at any moment,
except that the ones with a known order (deadline, kill, drain) keep it. Modelled as the
code does it: every call has a deadline (the condition at 260 holds for every caller); the
sweep after an `exit` (75-79, "take the tree") walks from a child that is dead, so it
finds nothing; a spawn error of a tracked child has no handler.

## 3. Runs

| Run | Instance | Shows |
|---|---|---|
| `TaskSchedulerSafety` | 3 tasks (1 doing I/O), 2 threads, fair | `OneRunner`, `DispatchIsSound`, `NoLostWake`, `NoTaskDropped`; `ImplementsLifecycle`, the refinement; what is queued is dispatched (`QueuedIsDispatched`), who joins runs again (`JoinerResumes`) |
| `RunQueueSafety` | 4 tasks, 2 workers, a chain of waits deeper than the pool; the tasks that suspend are those that do not wait | `NoSleepOnWork`, `NoBuriedWait` (nobody is held up by itself, alone or round a circle), `ShutdownDrains` |
| `RunQueueTimed` | 3 tasks, 1 worker, bounded waits and cancel, fair | `NoSleepOnDone`; main's wait returns, shutdown ends |
| `RunQueueTimedLost` | 2 tasks, 1 worker, main in a bounded wait | **violated**: `NoSleepOnWork` |
| `NestedDispatch` | a chain of 3 tasks, 1 worker, the first one suspends | **violated**: `NoBuriedWait` |
| `IoWaitSafety` | a cancellable reader, a writing operation, a reading task | `NoDanglingFrame`, `NoStranded`, `StopIsSeen`; `ImplementsPromise`, the refinement |
| `IoWaitLostCancel` | one reader with a token | **violated**: `CancelIsSeen` |
| `IoWaitShutdown` | a reader and a writer, a shutdown | **violated**: `ReleasedAtShutdown` |
| `CancelTreeSafety` | 3 tokens, 2 threads | `FreedWhenUnused` (nothing freed is touched, nothing leaks), `CascadeReachesAll`, `NoStaleSleep`; `ImplementsTree`, the refinement |
| `TaskHandleSafety` | a pooled handle of main's and a joined one of its task's, 2 workers, 2 tasks per storage | `FollowsTask`, `ScratchIsOwn`, `FreedWhenUnused`, under `LateReuse` |
| `HttpServerSafety` | 3 connections, every configuration up to 2 slots, n = 3, 2 requests, fair | `SlotsAreSound`, `CompleteWhenDrained`, `NeverOvershoots`; `ImplementsAdmission`, the refinement; provided clients send or close, every slot comes back (`Drains`) and everyone is answered |
| `TestProcSafety` | a `runProc` and a tracked child, 2 forks, fair | `CallLeavesNothing`, `OnlyStraysSurvive`; every `runProc` is resolved (`Resolves`; `trackChild` arms no deadline, against rule 1 of the file, and is left out) |

Every passing run but `RunQueueTimed` also checks its module's `TypeOK`. Some formulas
that only theorems state, no run lists: `ImplementsLifecycle` of `RunQueue` and of
`TaskHandle`, `NoCycle` of `CancelTree`, `EndIsDue` and `Patient` of `TestProc`. TLC was
asked about each, on the instances above, before it was proved.

Why the bounds are enough. The races of the scheduler need a runner, a waker and a third
task that the waker also joins; the refinement would tell a second runner apart at two
threads. The run queue needs a chain of waits longer than the pool and a sleeper of each
kind. In `IoWait` two callers of one direction compete for the slot and one uses the
other direction, which gives every combination of slots; two sequence numbers per caller
let an old event meet a new registration. A token tree of three has a token that is a
child and a parent at once, or a parent with two children; two threads are enough for
one to cancel, link or release while the other does (each pair of operations).
`TaskHandle` has one storage of each kind, one bound by main and one by a task, so that
steps nest on a wait, on main and on a worker; two tasks per storage is the first reuse,
two bindings the first copy, and one installed allocator can be told from none. Three
connections against two slots fill the server and refuse one; `n` = 3 with limits of 2
makes a bounded run end inside and between connections. Two processes below two children
are a chain or siblings, one of which can end before, under or after the other, fork again
or keep a pipe open. Other bounds in the models (`MaxSeq`, `Spawns`, `MaxHeld`,
`MaxSlots`, `MaxN`, `MaxRequests`) are the constants in the `.cfg` files.
`CHECK_DEADLOCK FALSE` is set where the program really ends: after the pool has stopped
(`RunQueue`), when every token or handle has been used up (`CancelTree`, `TaskHandle`),
when the server has returned and its connections are closed (`HttpServer`), and when the
driver has gone or has nothing left to wait for (`TestProc`).

### What the violated runs show

1. `RunQueueTimedLost`. `queue_push_locked` (616) signals `queue_cv` once. Threads in
   `yoop_task_wait_until_ns` sleep on the same variable and never take a task, so the
   signal can be spent on one of them: the task stays queued with every worker asleep,
   until the deadline or the next push. The comment at 540 promises that workers
   "continue to drain the queue normally".
2. `NestedDispatch`. A task that waits runs queued work on its own stack (511). If that
   work is a resumed task that now waits for the very task underneath, neither can
   return. The comment at 500 calls this dispatch safe because thunks run to completion,
   which tasks that suspend do not.
3. `IoWaitLostCancel`. `io_wait_common` (450; 756 in `yoop_iop_wait`) ignores that
   `yoop_cancel_add_waiter` answered 1, "already cancelled", and parks; the comment at
   446 says that case is reported there.
4. `IoWaitShutdown`. Between the end of the flush (368) and the teardown (370) a wait
   that had already checked that the engine runs can register and park for good.

These four are recorded under `findings`. Other disagreements met while reading, without a
run of their own, are hazards with a note or part of a property:

- the deadline that is computed once per wait (`yoop_io.c` 396) although
  `yoop_cancel_set_deadline_ns` wakes the waiter to recompute it, and the events that
  carry a descriptor instead of a seq;
- a body that arms a second target after its first has fired in the same step keeps that
  registration, although the comment at `yoop_runtime.c` 697-699 says that the first to
  fire disarms all: TLC confirms it in `TaskScheduler`. The wake that comes of it is one
  too many, absorbed by the byte or spent on a resume the model allows anyway. The bodies
  of std arm one target in a step;
- the sync pair of a joined handle, which `signal_done` still uses while its waiter, who
  saw the state byte without the mutex, may return and free it (`FreedWhenUnused` ends at
  the store of the state byte for a joined handle; the step `sync` after the end of the
  binding is this state);
- a grandchild that ignores SIGTERM, under a child that obeys it, survives a deadline
  and an interrupt of the test driver, although every kill is meant to be a tree kill:
  the SIGKILL pass starts from a dead child (`OnlyStraysSurvive` exempts these and says
  what else may not survive);
- the drain timer of an `exit`, whose variable the deadline overwrites, outlives its call
  (`CallLeavesNothing` allows this one and no other).

## 4. Fairness

`TaskScheduler!FairSpec`: a thread that can pop, begin, end or tidy up a step does so, a
body ends its step one way or the other, and the I/O thread hands over what it has taken.
It is the operating system's scheduling of runnable threads plus the language's own
assumption that bodies end their steps; nothing is assumed of submissions, I/O events or
stray wakes. `RunQueue!FairSpec` is the same for workers and waits, with strong fairness
of `Finish` (a body that is resumed again and again ends in time) and of nothing that
concerns who receives a signal. `HttpServer!FairSpec` is weak fairness of the accept loop
(to return is only assumed when the loop's own condition is false: an accept may also
fail) and of each connection's steps, which includes that a client sends its next request
or closes: the code gives a read no deadline and relies on it, and without it `Drains` and
`EveryoneIsAnswered` fail at once (a hazard of its own): an idle client does stall
`serve`, as `server.yoop` 400-402 and 570-572 say. Nobody is assumed to connect.
`TestProc` assumes that timers fire, that the steps of `killTree` go on (pgrep has a
timeout) and that an error event is delivered; nothing of the processes, which may hang
and hold their pipes for ever. `IoWait`, `CancelTree` and `TaskHandle` state no fairness:
their properties are safety properties that say who still has to act.

## 5. Proofs

Eight modules hold theorems, each for any sets of its actors and any bounds, from the
named assumptions of the module it is about and, where a theorem says so, one more.
None of the invariants below is inductive alone; what each strengthening adds is why the
code works. Every proof has one step or lemma per action, and lemmas for the ways a
queue, a stack or a frame changes.

Six theorems say that a detailed module implements an abstract one: `LifecycleImplemented`
(twice), `LifecycleUnlessReusedEarly`, `PromiseImplemented`, `TreeImplemented` and
`AdmissionImplemented`. An abstract module has no locks, queues, stacks or threads, so
these are the statements to compare with what the documents say; a step of the code that
is not a step of the promise is a stutter of it. The mappings are the `INSTANCE ... WITH`
lines at the end of each module.

**`TaskScheduler_proofs`**: `TypeCorrect`, `OneRunnerHolds`, `DispatchIsSoundHolds`,
`NoLostWakeHolds`, `NoTaskDroppedHolds`, and `LifecycleImplemented`, the refinement.
`IInv` adds what a task's coroutine, state byte and spawned flag are in each phase of its
step; that what is queued, popped or parked is spawned, unfinished and has its coroutine,
and that a target somebody is registered on is unfinished or about to be scanned
(`WaitersSound`), while a wake that reaches a finished task, from a registration it left or
astray, is absorbed by its byte; and that a wake is owed, recorded or still registered for
everything a task armed in its latest step. A wake touches one task, and puts it on
the queue only from `PARKED`, which `OneRunner` says excludes the queue and the threads;
a step that ends looks at the byte under the same lock. The refinement follows with one
step of `Lifecycle` or a stutter per action.

**`RunQueue_proofs`**: `TypeCorrect`, `NoSleepOnDoneHolds`, `ShutdownDrainsHolds`, for any
program (`Parent`, `Suspends`, `TimedCallers`, `Cancellers`) and any number of workers
above 0, which is what the code makes of the machine's answer, and under no other
hypothesis `InOnePlace` and `LifecycleImplemented`: a wait is right above the step that
called it (`Above`) and a task is in one place (`Lives`: queued once, or parked, or run by
one step of one stack), however deep the dispatches nest and whoever wakes, cancels or
shuts down; so each step of the pool moves a task along one edge of its life. `Leaving` is
what leads up to a shutdown: main joins with an empty stack, only a worker that is up runs
anything, nobody leaves before the flag is set, and whoever leaves leaves no queue to
nobody. Two theorems carry a hypothesis that the violated runs show to be needed:

- `NoBuriedWaitHolds` assumes `Committed`: no task that spawns (and may so wait for) others
  suspends. Then on a stack that has a task and its spawner the spawner is the older one
  (`Older`), and the relation that leads from a task to its unfinished children and to the
  steps above its own has no circle (`Acyclic`): a task joins it when it is spawned or
  dispatched, and then nothing leads on from it. A task held up by a wait is held up by a
  child of one above it, or by its own child, so a circle of tasks that hold each other up
  would be one of the relation;
- `NoSleepOnWorkHolds` assumes `TimedCallers = {}`: nobody calls `waitUntil`. The signal
  of a push then always goes to somebody who takes work, and `Seen` says who is awake:
  a broadcast is due, or a worker is up and awake, or the queue is empty, or it has one
  task and main is awake in a wait that dispatches.

**`IoWait_proofs`**: `TypeCorrect`, `NoDanglingFrameHolds`, `NoStrandedHolds`
(with it: a waiter a cancelled token lists is about to be woken), `StopIsSeenHolds` and
`PromiseImplemented`, for any callers, kinds, directions and
tokens. `Calls` and `Entries` tie a call to its park token and its registration;
`Registered` says a call that is in a wait and not fired has an undelivered entry;
`Once` that a sequence number is in one slot or once in the hand of the loop, and in
neither when delivered; `Serving` that until a shutdown begins every undelivered entry is
covered (armed in the kernel, in the batch about to be processed, or in hand); `Owned` and
`WokenOnce` that before a shutdown an entry is of its owner's current call and a task is
woken once for it; `Listed` and `Stopping` are the token's and the shutdown's side. The
argument for `NoStranded`: whatever takes a slot or disarms the descriptor does so in the
section in which the batch shows the descriptor, and the loop arms again what is left.

`PromiseImplemented` maps a call to what its caller can see: not registered, waiting,
told, or giving up. Beside `IInv` it needs `Limits` (a call that parks with a limit has a
deadline of its own, or its token has one) and `Told` (a call that was told has one entry,
and that is delivered), so a delivery, a timeout and a flush each find the one wait they
are for still waiting. `WaitPromise!Withdraw` is the case the code has to cope with: a
wake of a shutdown flush that comes late, after the engine was started again, resumes a
task whose next operation is still registered. `yoop_iop_end` then withdraws it and the
caller tries its system call again, so nothing is lost; before a shutdown has begun it
cannot happen.

**`CancelTree_proofs`**: `NoStaleSleepHolds`. The stacks of a thread are calls
(`Calling`) or one sleep (`Napping`): a sleep is called by the program and calls
nothing, so no step of a request or a release on the same thread is underneath it, and
a deadline read before the sleep is re-read after every broadcast.

**`CancelRefs_proofs`**, also about `CancelTree`: `TypeCorrect` (no count ever drops below
0), `FreedWhenUnusedHolds`, `CascadeReachesAllHolds`, `TreeImplemented`, `NoCycleHolds`,
for any tokens, trees and threads, finite or not. The core of `IInv` is `Balanced`: the
count of a token is the number of its handles, of its linked children (a child counts once
its link has taken the reference), of the releases that are due on all stacks, and of the
snapshots that retain it. The other conjuncts say why each count is there when it is
needed: a call of the program rests on a handle, a call of a cascade on the release right
below it (`Nested`); a snapshot is of children, which cannot leave the list while the scan
has the mutex (`Snapped`, `Held`); between linking a child and taking the link's
reference, both tokens are kept by handles of the one thread that knows the child
(`Private`); and a token whose count is 0 is in one call that destroys it, and leaves its
parent's list before it goes (`Ends`, `Alive`). `CascadeReachesAll` has two parts.
`RequestIsComplete` is carried up the stack by `Reaches`: of each child of a token a
cascade works on, the child is still in the snapshot, or is the one being worked on, or
has its tree complete. A complete tree stays so: a child is linked only below a live token
that is not cancelled, and every live token of a complete tree is cancelled. `Covered` is
`NoneEscapes` by depth.

`TreeImplemented` needs `FromAbove` beside `IInv`: what a thread is about to cancel it has
a handle on, or it is a child of a cancelled token (`CancelComesFromAbove`); and a token
that is about to be linked has no parent and no children, which the code never tests for
the children: `childOf` links what it has just created. A handle that is let go counts as
gone at once, while the release that follows takes its own time; the counts (`Balanced`)
say that a token is freed only when the tree has no use for it. `NoCycleHolds` follows
from the promise alone: a link puts a leaf below another token, so a set of tokens without
a way out would have had none before.

**`TaskHandle_proofs`**, all assuming `NoEarlyReuse` (a storage holds one task, or the next
only when no step of the last is on a thread), which a program that uses each storage once
meets and the code does not enforce for others: `TypeCorrect`,
`FollowsTaskUnlessReusedEarly`, `ScratchIsOwnUnlessReusedEarly`, `FreedUnlessReusedEarly`.
`IInv` has: a task's step is alone (`Alone`);
a queued or parked task exists, is unfinished and has no step (`Suspended`); what each
phase of a step says of its handle (`Phases`); the count is the bindings plus one while
the worker's reference is outstanding (`Counted`); each frame has saved the allocator and
the slot of the code below it (`Saved`); the record of a task off the threads is what it
installed (`Remembered`); and what is over left nothing, nor a slot without a record an
arena (`Cleared`), which is why a discard that finds no record has nothing to free.
`LifecycleUnlessReusedEarly`: each task that a storage holds in turn lives its own abstract
life, although all of them share one state byte and one park byte.

**`HttpServer_proofs`**: `TypeCorrect`, `SlotsAreSoundHolds`, `AdmissionImplemented`,
`CompleteWhenDrainedHolds`, `NeverOvershootsHolds`, for any finite set of connections and any
configuration. `Holding` is what the loop holds in
each place; `Claimed` that after a successful claim the tasks are fewer than `now`, which
is at most the ceiling: tasks may end in between, but only the loop starts one.

In `AdmissionImplemented` a connection is let in or turned away at the claim of the slot: the
steps that follow (raise the peak, count, spawn, or give back, count, refuse) are stutters,
because the numbers of `Admission` are those of `ServeState` plus what the loop is due to add.
`Books` is what the two totals rest on: `Alone` (only one connection talks to `serve`),
`Budget` (no connection has made more requests than its limit, and what is under way
fits in what is left of `n`) and `Totals` (`served` is the requests of the
connections that have closed their account, `accepted` and `rejected` those that were
taken). A sum over connections is stated as the cardinality of the set of pairs of a connection
and the number of one of its requests, about which the theorems on finite sets can be cited.

**`TestProc_proofs`**: `TypeCorrect`, `CallLeavesNothingHolds`, `OnlyStraysSurviveHolds`,
`EndIsDueHolds`, `PatientHolds`, for any number of children and forks. `Timing` and
`Killing` are the driver's books; `Down` says that a process which is no stray has no
stray above it, `Found` that it is below a running child, and `Caught` that killTree
reaches what is below a child before the child. `EndIsDueHolds` is the safety half of
`Resolves`: an open call always has its deadline or its last drain armed, and a settled
one has the killTree at work that resolves it. `PatientHolds` says that nobody kills a
child that runs and is in time. Both rest on `Paced`, which says why each timer is armed
and for whom killTree is at work.

Only model-checked is liveness, since fairness and ENABLED are beyond the proof system:
`QueuedIsDispatched`, `JoinerResumes`, `MainWaitReturns`, `ShutdownEnds`, `Drains`,
`EveryoneIsAnswered`, `Resolves`. Every safety property of every passing run is
a theorem, some under the hypotheses named above.

## 6. Not modelled, and why

- The engines for kqueue and completion ports: other implementations of the interface
  that `IoWait` uses.
- The child processes of `yoop_io.c` and the runtime leaves: pure I/O.
- The compiler proper, its language server and test mode: sequential passes over large
  trees, out of reach of explicit-state checking and tested by the compiler's fixpoint.
- std collections, text, encodings, the HTTP client and message formats, modules/json:
  sequential code over data with a fixture for each operation.
- The JavaScript apart from `src/testProc.js`: test suites, generators, web pages (most of
  their lines are generated data in `web/data`), viewers. The editor's language clients
  (`editors/vscode/extension.js`) have one hazard, at 386, that depends on what
  the library's start and stop of a client do in between.
- Inside modelled components: failures of malloc in the scheduler and the token tree, the
  I/O loop's exit on an error of `epoll_wait`, the result of a bounded wait, the
  reuse of a descriptor number, several descriptors, several shutdowns, a second
  initialisation of the pool; handles that are returned, stored or passed to another task;
  the arithmetic of arenas; parsing of requests; Windows process trees.

## 7. Order of the work, and what could follow

Done, in this order: `TaskLifecycle` and `TaskScheduler`, `RunQueue`, `IoWait`,
`CancelTree`, `TaskHandle`, `HttpServer`, `TestProc`, each with its runs; then the proofs
of their invariants, then the abstract modules `WaitPromise`, `TokenTree` and `Admission`
and the refinements. What would add most from here: `TaskHandle` with bindings that move
between tasks; a second descriptor in `IoWait`, with the reuse of its number; and the hash
map and the chunked decoder against a reference over bounded inputs.
