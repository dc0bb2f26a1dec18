-------------------------- MODULE TaskScheduler_proofs --------------------------
(***************************************************************************)
(* Proofs about TaskScheduler, for any set of tasks and threads.           *)
(***************************************************************************)
EXTENDS TaskScheduler, TLAPS

NodeT == [handle : Tasks, thunk : {"start", "resume"}]
FrameT == [task : Tasks \cup {None}, thunk : {"start", "resume"}, pc : Pcs]

-----------------------------------------------------------------------------
(* Facts about the two operations on the run queue.                        *)

LEMMA AppendFacts ==
  ASSUME NEW S, NEW q \in Seq(S), NEW x \in S
  PROVE  /\ Append(q, x) \in Seq(S)
         /\ Len(Append(q, x)) = Len(q) + 1
         /\ \A i \in 1..Len(q) : Append(q, x)[i] = q[i]
         /\ Append(q, x)[Len(q) + 1] = x
  OBVIOUS

LEMMA TailFacts ==
  ASSUME NEW S, NEW q \in Seq(S), q # <<>>
  PROVE  /\ Head(q) \in S /\ Head(q) = q[1]
         /\ Tail(q) \in Seq(S)
         /\ Len(q) \in Nat /\ Len(q) > 0
         /\ Len(Tail(q)) = Len(q) - 1
         /\ \A i \in 1..(Len(q) - 1) : Tail(q)[i] = q[i + 1]
  OBVIOUS

LEMMA NodeTyped ==
  ASSUME NEW t \in Tasks, NEW b \in {"start", "resume"}
  PROVE  Node(t, b) \in NodeT /\ Node(t, b).handle = t /\ Node(t, b).thunk = b
  BY DEF Node, NodeT

LEMMA QueuedTyped ==
  ASSUME TypeOK, NEW i \in 1..Len(queue)
  PROVE  queue[i] \in NodeT
<1>1. queue \in Seq(NodeT)
  BY DEF TypeOK, NodeT
<1>2. QED
  BY <1>1

-----------------------------------------------------------------------------
(* Every variable keeps its type.                                          *)

LEMMA MakeRunnableTyped ==
  ASSUME TypeOK, NEW t \in Tasks, MakeRunnable(t)
  PROVE  /\ park' \in [Tasks -> {"RUNNING", "WAKE", "PARKED"}]
         /\ queue' \in Seq(NodeT)
<1>1. queue \in Seq(NodeT) /\ Node(t, "resume") \in NodeT
  BY NodeTyped DEF TypeOK, NodeT
<1>2. Append(queue, Node(t, "resume")) \in Seq(NodeT)
  BY <1>1
<1>3. QED
  BY <1>1, <1>2 DEF TypeOK, MakeRunnable

(* The two ways a frame changes besides a pop: it advances, or it ends.    *)
LEMMA GotoFacts ==
  ASSUME TypeOK, NEW th \in Threads, NEW p \in Pcs \ {"idle"},
         ~At(th, "idle"), Goto(th, p)
  PROVE  /\ frame' \in [Threads -> FrameT]
         /\ \A x \in Threads : frame'[x].task = None <=> frame'[x].pc = "idle"
         /\ \A x \in Threads : frame'[x].task = frame[x].task
         /\ \A x \in Threads \ {th} : frame'[x] = frame[x]
         /\ frame'[th].pc = p
         /\ frame'[th].thunk = frame[th].thunk
         /\ frame[th].task \in Tasks
<1>1. frame[th] \in FrameT /\ frame[th].task \in Tasks
  BY DEF TypeOK, FrameT, At
<1>2. frame' = [frame EXCEPT ![th] = [frame[th] EXCEPT !.pc = p]]
  BY DEF Goto
<1>3. [frame[th] EXCEPT !.pc = p] \in FrameT
  BY <1>1 DEF FrameT
<1>4. /\ [frame[th] EXCEPT !.pc = p].task = frame[th].task
      /\ [frame[th] EXCEPT !.pc = p].thunk = frame[th].thunk
      /\ [frame[th] EXCEPT !.pc = p].pc = p
  BY <1>1 DEF FrameT
<1>5. QED
  BY <1>1, <1>2, <1>3, <1>4, ConstantsDistinct DEF TypeOK, FrameT

LEMMA IdleFacts ==
  ASSUME TypeOK, NEW th \in Threads, frame' = [frame EXCEPT ![th] = IdleFrame]
  PROVE  /\ frame' \in [Threads -> FrameT]
         /\ \A x \in Threads : frame'[x].task = None <=> frame'[x].pc = "idle"
         /\ \A x \in Threads \ {th} : frame'[x] = frame[x]
         /\ frame'[th].pc = "idle" /\ frame'[th].task = None
<1>1. IdleFrame \in FrameT /\ IdleFrame.task = None /\ IdleFrame.pc = "idle"
  BY DEF IdleFrame, FrameT, Pcs
<1>2. QED
  BY <1>1 DEF TypeOK, FrameT

LEMMA PopFacts ==
  ASSUME TypeOK, NEW th \in Threads, Pop(th)
  PROVE  /\ Head(queue) \in NodeT
         /\ Tail(queue) \in Seq(NodeT)
         /\ frame' \in [Threads -> FrameT]
         /\ \A x \in Threads : frame'[x].task = None <=> frame'[x].pc = "idle"
         /\ \A x \in Threads \ {th} : frame'[x] = frame[x]
         /\ frame'[th].pc = "popped"
         /\ frame'[th].task = Head(queue).handle
         /\ frame'[th].thunk = Head(queue).thunk
<1> DEFINE new == [task |-> Head(queue).handle, thunk |-> Head(queue).thunk,
                   pc |-> "popped"]
<1>1. queue \in Seq(NodeT) /\ queue # <<>>
  BY DEF Pop, TypeOK, NodeT
<1>2. Head(queue) \in NodeT /\ Tail(queue) \in Seq(NodeT)
  BY <1>1, TailFacts
<1>3. Head(queue).handle \in Tasks /\ Head(queue).thunk \in {"start", "resume"}
  BY <1>2 DEF NodeT
<1>4. new \in FrameT /\ new.task = Head(queue).handle /\ new.pc = "popped"
      /\ new.thunk = Head(queue).thunk
  BY <1>3 DEF FrameT, Pcs
<1>5. frame' = [frame EXCEPT ![th] = new]
  BY DEF Pop
<1>6. QED
  BY <1>2, <1>3, <1>4, <1>5, ConstantsDistinct DEF TypeOK, FrameT

LEMMA TypeStep == TypeOK /\ [Next]_vars => TypeOK'
<1> SUFFICES ASSUME TypeOK, [Next]_vars PROVE TypeOK'
  OBVIOUS
<1> USE DEF NodeT, FrameT
<1>1. ASSUME NEW t \in Tasks, Submit(t) PROVE TypeOK'
  BY <1>1, NodeTyped, AppendFacts DEF Submit, TypeOK
<1>2. ASSUME NEW t \in IoTasks, IoDeliver(t) PROVE TypeOK'
  BY <1>2, IoTasksAreTasks DEF IoDeliver, TypeOK
<1>3. ASSUME NEW t \in IoTasks, IoWake(t) PROVE TypeOK'
  BY <1>3, IoTasksAreTasks, MakeRunnableTyped DEF IoWake, TypeOK
<1>4. ASSUME NEW t \in IoTasks, StrayWake(t) PROVE TypeOK'
  BY <1>4, IoTasksAreTasks, MakeRunnableTyped DEF StrayWake, TypeOK
<1>5. ASSUME NEW th \in Threads, Pop(th) PROVE TypeOK'
  BY <1>5, PopFacts DEF Pop, TypeOK
<1>6. ASSUME NEW th \in Threads, BeginStep(th) PROVE TypeOK'
  <2>1. PICK p \in {"body", "suspended"} : Goto(th, p)
    BY <1>6 DEF BeginStep
  <2>2. ~At(th, "idle") /\ p \in Pcs \ {"idle"}
    BY <1>6 DEF BeginStep, At, Pcs
  <2>3. QED
    BY <1>6, <2>1, <2>2, GotoFacts DEF BeginStep, TypeOK
<1>7. ASSUME NEW th \in Threads, ArmIo(th) PROVE TypeOK'
  <2>1. ~At(th, "idle") /\ Goto(th, "armed") /\ "armed" \in Pcs \ {"idle"}
    BY <1>7 DEF ArmIo, At, Pcs
  <2>2. QED
    BY <1>7, <2>1, GotoFacts DEF ArmIo, TypeOK
<1>8. ASSUME NEW th \in Threads, Disarm(th) PROVE TypeOK'
  <2>1. ~At(th, "idle") /\ Goto(th, "body") /\ "body" \in Pcs \ {"idle"}
    BY <1>8 DEF Disarm, At, Pcs
  <2>2. QED
    BY <1>8, <2>1, GotoFacts DEF Disarm, TypeOK, Disarmed
<1>9. ASSUME NEW th \in Threads, NEW u \in Tasks, ArmComplete(th, u) PROVE TypeOK'
  <2>1. ~At(th, "idle") /\ Goto(th, "armed") /\ "armed" \in Pcs \ {"idle"}
    BY <1>9 DEF ArmComplete, At, Pcs
  <2>2. QED
    BY <1>9, <2>1, GotoFacts DEF ArmComplete, TypeOK
<1>10. ASSUME NEW th \in Threads, Suspend(th) PROVE TypeOK'
  <2>1. ~At(th, "idle") /\ Goto(th, "suspended") /\ "suspended" \in Pcs \ {"idle"}
    BY <1>10 DEF Suspend, At, Pcs
  <2>2. QED
    BY <1>10, <2>1, GotoFacts DEF Suspend, TypeOK
<1>11. ASSUME NEW th \in Threads, Finish(th) PROVE TypeOK'
  <2>1. ~At(th, "idle") /\ Goto(th, "finished") /\ "finished" \in Pcs \ {"idle"}
    BY <1>11 DEF Finish, At, Pcs
  <2>2. QED
    BY <1>11, <2>1, GotoFacts DEF Finish, TypeOK
<1>12. ASSUME NEW th \in Threads, ParkOrRequeue(th) PROVE TypeOK'
  <2>1. frame[th].task \in Tasks /\ queue \in Seq(NodeT)
    BY <1>12 DEF ParkOrRequeue, At, TypeOK
  <2>2. Append(queue, Node(frame[th].task, "resume")) \in Seq(NodeT)
    BY <2>1, NodeTyped, AppendFacts
  <2>3. /\ park' \in [Tasks -> {"RUNNING", "WAKE", "PARKED"}]
        /\ queue' \in Seq(NodeT)
    BY <1>12, <2>1, <2>2 DEF ParkOrRequeue, TypeOK
  <2>4. /\ frame' \in [Threads -> FrameT]
        /\ \A x \in Threads : frame'[x].task = None <=> frame'[x].pc = "idle"
    BY <1>12, IdleFacts DEF ParkOrRequeue
  <2>5. QED
    BY <1>12, <2>3, <2>4 DEF ParkOrRequeue, TypeOK
<1>13. ASSUME NEW th \in Threads, SignalState(th) PROVE TypeOK'
  <2>1. ~At(th, "idle") /\ Goto(th, "signalled") /\ "signalled" \in Pcs \ {"idle"}
    BY <1>13 DEF SignalState, At, Pcs
  <2>2. QED
    BY <1>13, <2>1, GotoFacts DEF SignalState, TypeOK
<1>14. ASSUME NEW th \in Threads, FireBegin(th) PROVE TypeOK'
  <2>1. ~At(th, "idle") /\ Goto(th, "firing") /\ "firing" \in Pcs \ {"idle"}
    BY <1>14 DEF FireBegin, At, Pcs
  <2>2. QED
    BY <1>14, <2>1, GotoFacts DEF FireBegin, TypeOK
<1>15. ASSUME NEW th \in Threads, NEW t \in Tasks, FireOne(th, t) PROVE TypeOK'
  BY <1>15, MakeRunnableTyped DEF FireOne, Disarmed, TypeOK
<1>16. ASSUME NEW th \in Threads, FireEnd(th) PROVE TypeOK'
  <2>1. ~At(th, "idle") /\ Goto(th, "tail") /\ "tail" \in Pcs \ {"idle"}
    BY <1>16 DEF FireEnd, At, Pcs
  <2>2. QED
    BY <1>16, <2>1, GotoFacts DEF FireEnd, TypeOK
<1>17. ASSUME NEW th \in Threads, EndStep(th) PROVE TypeOK'
  BY <1>17, IdleFacts DEF EndStep, TypeOK
<1>18. CASE UNCHANGED vars
  BY <1>18 DEF vars, TypeOK
<1>19. QED
  BY <1>1, <1>2, <1>3, <1>4, <1>5, <1>6, <1>7, <1>8, <1>9, <1>10, <1>11,
     <1>12, <1>13, <1>14, <1>15, <1>16, <1>17, <1>18 DEF Next

(* Every variable keeps its type, and a thread has a task exactly when it  *)
(* is not idle.                                                            *)
THEOREM TypeCorrect == Spec => []TypeOK
<1>1. Init => TypeOK
  BY ConstantsDistinct DEF Init, TypeOK, IdleFrame, Pcs
<1>2. QED
  BY <1>1, TypeStep, PTL DEF Spec

-----------------------------------------------------------------------------
(***************************************************************************)
(* The inductive invariant.  OneRunner and NoTaskDropped are inductive     *)
(* once the condition a task is found in at each point of its step is      *)
(* fixed; NoLostWake needs to look at the step before the task is parked:  *)
(* from the moment it arms until it parks, either a wake has been recorded *)
(* in the park byte or everything it armed is still registered.            *)
(***************************************************************************)
NodeSound(n) ==
  /\ n.handle \in spawned
  /\ state[n.handle] = 0
  /\ coro[n.handle] = IF n.thunk = "start" THEN "unborn" ELSE "live"

QueueSound == \A i \in 1..Len(queue) : NodeSound(queue[i])

FrameSound(f) ==
  /\ f.task \in spawned
  /\ f.pc = "popped" =>
       state[f.task] = 0
       /\ coro[f.task] = IF f.thunk = "start" THEN "unborn" ELSE "live"
  /\ f.pc \in {"body", "armed", "suspended"} =>
       state[f.task] = 0 /\ coro[f.task] = "live"
  /\ f.pc = "finished" => state[f.task] = 0 /\ coro[f.task] = "gone"
  /\ f.pc \in {"signalled", "firing", "tail"} =>
       state[f.task] = 1 /\ coro[f.task] = "gone"

FramesSound == \A th \in Threads : frame[th].task # None => FrameSound(frame[th])

ParkedSound ==
  \A t \in Tasks : park[t] = "PARKED" =>
    t \in spawned /\ state[t] = 0 /\ coro[t] = "live"

FreshSound == \A t \in Tasks \ spawned : state[t] = 0 /\ coro[t] = "unborn"

WaitersSound ==
  \A u, t \in Tasks : <<u, t>> \in waiters => state[u] = 0 \/ Signalling(u)

Registered(t) ==
  /\ \A u \in Tasks : u \in wants[t] => <<u, t>> \in waiters
  /\ Io \in wants[t] => io[t] # "idle"

WakeOwed ==
  /\ \A t \in Tasks : park[t] = "PARKED" => Registered(t) /\ wants[t] # {}
  /\ \A th \in Threads :
       frame[th].pc \in {"armed", "suspended"} =>
         /\ wants[frame[th].task] # {}
         /\ park[frame[th].task] # "WAKE" => Registered(frame[th].task)
  /\ \A th \in Threads : frame[th].pc = "body" => wants[frame[th].task] = {}

IInv == /\ TypeOK /\ OneRunner /\ QueueSound /\ FramesSound /\ ParkedSound
        /\ FreshSound /\ WaitersSound /\ WakeOwed /\ NoTaskDropped

-----------------------------------------------------------------------------
(* What each kind of step does to the queue and to who runs what.          *)

Distinct(q) == \A i, j \in 1..Len(q) : q[i].handle = q[j].handle => i = j

LEMMA PushFacts ==
  ASSUME TypeOK, NEW t \in Tasks, NEW k \in {"start", "resume"},
         queue' = Append(queue, Node(t, k))
  PROVE  /\ \A x \in Tasks : InQueue(x)' <=> InQueue(x) \/ x = t
         /\ \A i \in 1..Len(queue') :
              queue'[i] = Node(t, k) \/ \E j \in 1..Len(queue) : queue'[i] = queue[j]
         /\ Distinct(queue) /\ ~InQueue(t) => Distinct(queue')
<1>1. queue \in Seq(NodeT) /\ Node(t, k) \in NodeT /\ Node(t, k).handle = t
  BY NodeTyped DEF TypeOK, NodeT
<1>2. /\ Len(queue) \in Nat
      /\ Len(queue') = Len(queue) + 1
      /\ \A i \in 1..Len(queue) : queue'[i] = queue[i]
      /\ queue'[Len(queue) + 1] = Node(t, k)
  BY <1>1, AppendFacts
<1>3. ASSUME NEW x \in Tasks PROVE InQueue(x)' <=> InQueue(x) \/ x = t
  BY <1>1, <1>2 DEF InQueue
<1>4. ASSUME NEW i \in 1..Len(queue')
      PROVE queue'[i] = Node(t, k) \/ \E j \in 1..Len(queue) : queue'[i] = queue[j]
  BY <1>2
<1>5. Distinct(queue) /\ ~InQueue(t) => Distinct(queue')
  BY <1>1, <1>2 DEF InQueue, Distinct
<1>6. QED
  BY <1>3, <1>4, <1>5

LEMMA PopQueueFacts ==
  ASSUME TypeOK, NEW th \in Threads, Pop(th)
  PROVE  /\ InQueue(Head(queue).handle)
         /\ \E j \in 1..Len(queue) : Head(queue) = queue[j]
         /\ \A x \in Tasks : InQueue(x)' => InQueue(x)
         /\ \A x \in Tasks : InQueue(x) => InQueue(x)' \/ x = Head(queue).handle
         /\ \A i \in 1..Len(queue') : \E j \in 1..Len(queue) : queue'[i] = queue[j]
         /\ Distinct(queue) =>
              /\ Distinct(queue')
              /\ \A x \in Tasks : x = Head(queue).handle => ~InQueue(x)'
<1>1. queue \in Seq(NodeT) /\ queue # <<>> /\ queue' = Tail(queue)
  BY DEF Pop, TypeOK, NodeT
<1>2. /\ Head(queue) = queue[1]
      /\ Len(queue) \in Nat /\ Len(queue) > 0
      /\ Len(queue') = Len(queue) - 1
      /\ \A i \in 1..(Len(queue) - 1) : queue'[i] = queue[i + 1]
  BY <1>1, TailFacts
<1>3. InQueue(Head(queue).handle) /\ \E j \in 1..Len(queue) : Head(queue) = queue[j]
  BY <1>2 DEF InQueue
<1>4. \A i \in 1..Len(queue') : \E j \in 1..Len(queue) : queue'[i] = queue[j]
  BY <1>2
<1>5. ASSUME NEW x \in Tasks, InQueue(x)' PROVE InQueue(x)
  BY <1>4, <1>5 DEF InQueue
<1>6. ASSUME NEW x \in Tasks, InQueue(x), x # Head(queue).handle PROVE InQueue(x)'
  <2>1. PICK i \in 1..Len(queue) : queue[i].handle = x
    BY <1>6 DEF InQueue
  <2>2. i - 1 \in 1..Len(queue') /\ queue'[i - 1] = queue[i]
    BY <1>2, <1>6, <2>1
  <2>3. QED
    BY <2>1, <2>2 DEF InQueue
<1>7. ASSUME Distinct(queue)
      PROVE /\ Distinct(queue')
            /\ \A x \in Tasks : x = Head(queue).handle => ~InQueue(x)'
  <2>1. \A i \in 1..Len(queue') : i + 1 \in 1..Len(queue) /\ queue'[i] = queue[i + 1]
    BY <1>2
  <2>2. Distinct(queue')
    BY <1>2, <1>7, <2>1 DEF Distinct
  <2>3. ASSUME NEW i \in 1..Len(queue') PROVE queue'[i].handle # Head(queue).handle
    <3>1. 1 \in 1..Len(queue) /\ i + 1 # 1
      BY <1>2, <2>1
    <3>2. QED
      BY <1>2, <1>7, <2>1, <3>1 DEF Distinct
  <2>4. QED
    BY <2>2, <2>3 DEF InQueue
<1>8. QED
  BY <1>3, <1>4, <1>5, <1>6, <1>7

(* A step that leaves the queue alone and moves no task between threads.   *)
LEMMA SameRunners ==
  ASSUME TypeOK, OneRunner, queue' = queue,
         \A th \in Threads : frame'[th].task = frame[th].task,
         \A t \in Tasks : park'[t] = "PARKED" => park[t] = "PARKED"
  PROVE  /\ OneRunner'
         /\ \A t \in Tasks : InQueue(t)' <=> InQueue(t)
         /\ \A t \in Tasks : InFrame(t)' <=> InFrame(t)
<1>1. \A t \in Tasks : InQueue(t)' <=> InQueue(t)
  BY DEF InQueue
<1>2. \A t \in Tasks : InFrame(t)' <=> InFrame(t)
  BY DEF InFrame
<1>3. QED
  BY <1>1, <1>2 DEF OneRunner

-----------------------------------------------------------------------------
(* The invariant is preserved, one lemma per kind of step.                 *)

(* A thread advances inside its own frame and leaves the queue alone.      *)
LEMMA AdvanceFacts ==
  ASSUME IInv, NEW th \in Threads, NEW p \in Pcs \ {"idle"}, ~At(th, "idle"),
         Goto(th, p), queue' = queue,
         \A t \in Tasks : park'[t] = "PARKED" => park[t] = "PARKED"
  PROVE  /\ \A x \in Threads : frame'[x].task = frame[x].task
         /\ \A x \in Threads \ {th} : frame'[x] = frame[x]
         /\ frame'[th].pc = p /\ frame'[th].thunk = frame[th].thunk
         /\ frame[th].task \in Tasks
         /\ OneRunner'
         /\ \A x \in Tasks : InQueue(x)' <=> InQueue(x)
         /\ \A x \in Tasks : InFrame(x)' <=> InFrame(x)
         /\ \A x \in Threads \ {th} : frame[x].task # frame[th].task
         /\ park[frame[th].task] # "PARKED"
         /\ FrameSound(frame[th])
<1>1. TypeOK /\ OneRunner /\ FramesSound
  BY DEF IInv
<1>2. /\ \A x \in Threads : frame'[x].task = frame[x].task
      /\ \A x \in Threads \ {th} : frame'[x] = frame[x]
      /\ frame'[th].pc = p /\ frame'[th].thunk = frame[th].thunk
      /\ frame[th].task \in Tasks
  BY <1>1, GotoFacts
<1>3. /\ OneRunner'
      /\ \A x \in Tasks : InQueue(x)' <=> InQueue(x)
      /\ \A x \in Tasks : InFrame(x)' <=> InFrame(x)
  BY <1>1, <1>2, SameRunners
<1>4. /\ \A x \in Threads \ {th} : frame[x].task # frame[th].task
      /\ park[frame[th].task] # "PARKED"
  BY <1>1, <1>2, ConstantsDistinct DEF OneRunner, InFrame
<1>5. FrameSound(frame[th])
  BY <1>1, <1>2, ConstantsDistinct DEF FramesSound
<1>6. QED
  BY <1>2, <1>3, <1>4, <1>5

(* WakeOwed only has to be looked at for the task the step is about: its   *)
(* own frame is th's, and other tasks keep what they wait for.             *)
LEMMA WakeOwedStep ==
  ASSUME IInv, TypeOK', NEW t \in Tasks, NEW th \in Threads,
         \A x \in Threads \ {th} : frame'[x] = frame[x] /\ frame[x].task # t,
         frame'[th].task \in {t, None},
         \A x \in Tasks \ {t} :
           /\ wants'[x] = wants[x] /\ park'[x] = park[x]
           /\ Registered(x) => Registered(x)',
         park'[t] = "PARKED" => Registered(t)' /\ wants'[t] # {},
         frame'[th].pc \in {"armed", "suspended"} =>
           wants'[t] # {} /\ (park'[t] # "WAKE" => Registered(t)'),
         frame'[th].pc = "body" => wants'[t] = {}
  PROVE  WakeOwed'
<1>1. \A x \in Threads \ {th} :
        frame[x].pc \in {"body", "armed", "suspended"} => frame[x].task \in Tasks \ {t}
  BY DEF IInv, TypeOK
<1>2. ASSUME NEW x \in Tasks, park'[x] = "PARKED"
      PROVE  Registered(x)' /\ wants'[x] # {}
  BY <1>2 DEF IInv, WakeOwed
<1>3. ASSUME NEW x \in Threads, frame'[x].pc \in {"armed", "suspended"}
      PROVE  /\ wants'[frame'[x].task] # {}
             /\ park'[frame'[x].task] # "WAKE" => Registered(frame[x].task)'
  <2>1. CASE x = th
    <3>1. frame'[th].task = t
      BY <1>3, <2>1 DEF TypeOK
    <3>2. Registered(t)' => Registered(frame[th].task)'
      BY <3>1 DEF Registered
    <3>3. QED
      BY <1>3, <2>1, <3>1, <3>2
  <2>2. CASE x # th
    <3>1. PICK y \in Tasks \ {t} : y = frame[x].task /\ y = frame'[x].task
      BY <1>1, <1>3, <2>2
    <3>2. wants[y] # {} /\ (park[y] # "WAKE" => Registered(y))
      BY <1>3, <2>2, <3>1 DEF IInv, WakeOwed
    <3>3. Registered(y)' => Registered(frame[x].task)'
      BY <3>1 DEF Registered
    <3>4. QED
      BY <3>1, <3>2, <3>3
  <2>3. QED
    BY <2>1, <2>2
<1>4. ASSUME NEW x \in Threads, frame'[x].pc = "body"
      PROVE  wants'[frame'[x].task] = {}
  <2>1. CASE x = th
    BY <1>4, <2>1 DEF TypeOK
  <2>2. CASE x # th
    BY <1>1, <1>4, <2>2 DEF IInv, WakeOwed
  <2>3. QED
    BY <2>1, <2>2
<1>5. QED
  BY <1>2, <1>3, <1>4 DEF WakeOwed

LEMMA ArmIoStep ==
  ASSUME IInv, TypeOK', NEW th \in Threads, ArmIo(th)
  PROVE  IInv'
<1>1. /\ "armed" \in Pcs \ {"idle"} /\ ~At(th, "idle") /\ Goto(th, "armed")
      /\ UNCHANGED <<state, spawned, coro, park, queue, waiters>>
      /\ frame[th].pc = "body"
  BY DEF ArmIo, At, Pcs
<1>2. PICK t \in Tasks :
      /\ t = frame[th].task
      /\ \A x \in Threads \ {th} : frame'[x] = frame[x] /\ frame[x].task # t
      /\ frame'[th].pc = "armed" /\ frame'[th].task = t
      /\ OneRunner' /\ park[t] # "PARKED" /\ FrameSound(frame[th])
      /\ \A x \in Tasks : InQueue(x)' <=> InQueue(x)
      /\ \A x \in Tasks : InFrame(x)' <=> InFrame(x)
  BY <1>1, AdvanceFacts
<1>3. QueueSound' /\ ParkedSound' /\ FreshSound'
  BY <1>1 DEF IInv, QueueSound, NodeSound, ParkedSound, FreshSound
<1>4. FramesSound'
  BY <1>1, <1>2 DEF IInv, FramesSound, FrameSound
<1>5. WaitersSound'
  BY <1>1, <1>2 DEF IInv, WaitersSound, Signalling
<1>6. wants'[t] = {Io} /\ io'[t] = "armed"
  BY <1>2 DEF ArmIo, IInv, TypeOK
<1>7. Registered(t)' /\ wants'[t] # {}
  <2>1. \A u \in Tasks : u \notin wants'[t]
    BY <1>6, ConstantsDistinct
  <2>2. QED
    BY <1>6, <2>1 DEF Registered
<1>8. \A x \in Tasks \ {t} : wants'[x] = wants[x] /\ (Registered(x) => Registered(x)')
  BY <1>1, <1>2 DEF ArmIo, Registered, IInv, TypeOK
<1>9. WakeOwed'
  BY <1>1, <1>2, <1>7, <1>8, WakeOwedStep
<1>10. NoTaskDropped'
  BY <1>1, <1>2, <1>8 DEF IInv, NoTaskDropped, TypeOK
<1>11. QED
  BY <1>2, <1>3, <1>4, <1>5, <1>9, <1>10 DEF IInv

LEMMA DisarmStep ==
  ASSUME IInv, TypeOK', NEW th \in Threads, Disarm(th)
  PROVE  IInv'
<1>1. /\ "body" \in Pcs \ {"idle"} /\ ~At(th, "idle") /\ Goto(th, "body")
      /\ UNCHANGED <<state, spawned, coro, park, queue, io>>
      /\ frame[th].pc = "armed"
  BY DEF Disarm, At, Pcs
<1>2. PICK t \in Tasks :
      /\ t = frame[th].task
      /\ \A x \in Threads \ {th} : frame'[x] = frame[x] /\ frame[x].task # t
      /\ frame'[th].pc = "body" /\ frame'[th].task = t
      /\ OneRunner' /\ park[t] # "PARKED" /\ FrameSound(frame[th])
      /\ \A x \in Tasks : InQueue(x)' <=> InQueue(x)
      /\ \A x \in Tasks : InFrame(x)' <=> InFrame(x)
  BY <1>1, AdvanceFacts
<1>3. QueueSound' /\ ParkedSound' /\ FreshSound'
  BY <1>1 DEF IInv, QueueSound, NodeSound, ParkedSound, FreshSound
<1>4. FramesSound'
  BY <1>1, <1>2 DEF IInv, FramesSound, FrameSound
<1>5. WaitersSound'
  BY <1>1, <1>2 DEF Disarm, Disarmed, IInv, WaitersSound, Signalling
<1>6. wants'[t] = {}
  BY <1>2 DEF Disarm, IInv, TypeOK
<1>7. \A x \in Tasks \ {t} : wants'[x] = wants[x] /\ (Registered(x) => Registered(x)')
  BY <1>1, <1>2 DEF Disarm, Disarmed, Registered, IInv, TypeOK
<1>8. WakeOwed'
  BY <1>1, <1>2, <1>6, <1>7, WakeOwedStep
<1>9. NoTaskDropped'
  BY <1>1, <1>2, <1>7 DEF IInv, NoTaskDropped, TypeOK
<1>10. QED
  BY <1>2, <1>3, <1>4, <1>5, <1>8, <1>9 DEF IInv

LEMMA ArmCompleteStep ==
  ASSUME IInv, TypeOK', NEW th \in Threads, NEW u \in Tasks, ArmComplete(th, u)
  PROVE  IInv'
<1>1. /\ "armed" \in Pcs \ {"idle"} /\ ~At(th, "idle") /\ Goto(th, "armed")
      /\ UNCHANGED <<state, spawned, coro, park, queue, io>>
      /\ frame[th].pc \in {"body", "armed"}
      /\ Io \notin wants[frame[th].task]
  BY DEF ArmComplete, At, Pcs
<1>2. PICK t \in Tasks :
      /\ t = frame[th].task
      /\ \A x \in Threads \ {th} : frame'[x] = frame[x] /\ frame[x].task # t
      /\ frame'[th].pc = "armed" /\ frame'[th].task = t
      /\ OneRunner' /\ park[t] # "PARKED" /\ FrameSound(frame[th])
      /\ \A x \in Tasks : InQueue(x)' <=> InQueue(x)
      /\ \A x \in Tasks : InFrame(x)' <=> InFrame(x)
  BY <1>1, AdvanceFacts
<1>3. QueueSound' /\ ParkedSound' /\ FreshSound'
  BY <1>1 DEF IInv, QueueSound, NodeSound, ParkedSound, FreshSound
<1>4. FramesSound'
  BY <1>1, <1>2 DEF IInv, FramesSound, FrameSound
<1>5. WaitersSound'
  BY <1>1, <1>2 DEF ArmComplete, IInv, WaitersSound, Signalling
<1>6. wants'[t] = wants[t] \cup {u} /\ waiters' = waiters \cup {<<u, t>>}
  BY <1>2 DEF ArmComplete, IInv, TypeOK
<1>7. wants'[t] # {} /\ (park[t] # "WAKE" => Registered(t)')
  <2>1. park[t] # "WAKE" => Registered(t) \/ wants[t] = {}
    BY <1>1, <1>2 DEF IInv, WakeOwed
  <2>2. QED
    BY <1>1, <1>2, <1>6, <2>1, ConstantsDistinct DEF Registered
<1>8. \A x \in Tasks \ {t} : wants'[x] = wants[x] /\ (Registered(x) => Registered(x)')
  BY <1>1, <1>2, <1>6 DEF ArmComplete, Registered, IInv, TypeOK
<1>9. WakeOwed'
  BY <1>1, <1>2, <1>7, <1>8, WakeOwedStep
<1>10. NoTaskDropped'
  BY <1>1, <1>2, <1>8 DEF IInv, NoTaskDropped, TypeOK
<1>11. QED
  BY <1>2, <1>3, <1>4, <1>5, <1>9, <1>10 DEF IInv

LEMMA SuspendStep ==
  ASSUME IInv, TypeOK', NEW th \in Threads, Suspend(th)
  PROVE  IInv'
<1>1. /\ "suspended" \in Pcs \ {"idle"} /\ ~At(th, "idle") /\ Goto(th, "suspended")
      /\ UNCHANGED <<state, spawned, coro, park, queue, waiters, io, wants>>
      /\ frame[th].pc = "armed"
  BY DEF Suspend, At, Pcs
<1>2. PICK t \in Tasks :
      /\ t = frame[th].task
      /\ \A x \in Threads \ {th} : frame'[x] = frame[x] /\ frame[x].task # t
      /\ frame'[th].pc = "suspended" /\ frame'[th].task = t
      /\ OneRunner' /\ park[t] # "PARKED" /\ FrameSound(frame[th])
      /\ \A x \in Tasks : InQueue(x)' <=> InQueue(x)
      /\ \A x \in Tasks : InFrame(x)' <=> InFrame(x)
  BY <1>1, AdvanceFacts
<1>3. ~InQueue(t)
  BY <1>2 DEF IInv, OneRunner, InFrame
<1>4. QueueSound' /\ ParkedSound' /\ FreshSound'
  BY <1>1 DEF IInv, QueueSound, NodeSound, ParkedSound, FreshSound
<1>5. FramesSound'
  BY <1>1, <1>2 DEF IInv, FramesSound, FrameSound
<1>6. WaitersSound'
  BY <1>1, <1>2 DEF IInv, WaitersSound, Signalling
<1>8. \A x \in Tasks \ {t} : Registered(x) => Registered(x)'
  BY <1>1 DEF Registered
<1>9. WakeOwed'
  <2>1. /\ wants[t] # {} /\ (park[t] # "WAKE" => Registered(t))
        /\ Registered(t) => Registered(t)'
    BY <1>1, <1>2 DEF IInv, WakeOwed, Registered
  <2>2. QED
    BY <1>1, <1>2, <1>8, <2>1, WakeOwedStep
<1>10. NoTaskDropped'
  BY <1>1, <1>2 DEF Suspend, IInv, NoTaskDropped, TypeOK
<1>11. QED
  BY <1>2, <1>4, <1>5, <1>6, <1>9, <1>10 DEF IInv

LEMMA FinishStep ==
  ASSUME IInv, TypeOK', NEW th \in Threads, Finish(th)
  PROVE  IInv'
<1>1. /\ "finished" \in Pcs \ {"idle"} /\ ~At(th, "idle") /\ Goto(th, "finished")
      /\ UNCHANGED <<state, spawned, park, queue, waiters, io, wants>>
      /\ frame[th].pc = "body"
  BY DEF Finish, At, Pcs
<1>2. PICK t \in Tasks :
      /\ t = frame[th].task
      /\ \A x \in Threads \ {th} : frame'[x] = frame[x] /\ frame[x].task # t
      /\ frame'[th].pc = "finished" /\ frame'[th].task = t
      /\ OneRunner' /\ park[t] # "PARKED" /\ FrameSound(frame[th])
      /\ \A x \in Tasks : InQueue(x)' <=> InQueue(x)
      /\ \A x \in Tasks : InFrame(x)' <=> InFrame(x)
  BY <1>1, AdvanceFacts
<1>3. ~InQueue(t)
  BY <1>2 DEF IInv, OneRunner, InFrame
<1>4. QueueSound' /\ ParkedSound' /\ FreshSound'
  <2>1. \A x \in Tasks \ {t} : coro'[x] = coro[x]
    BY <1>2 DEF Finish, IInv, TypeOK
  <2>2. t \in spawned
    BY <1>2 DEF FrameSound
  <2>3. ASSUME NEW i \in 1..Len(queue) PROVE NodeSound(queue[i])'
    <3>1. queue[i].handle \in Tasks \ {t}
      <4>1. queue[i] \in NodeT
        BY QueuedTyped DEF IInv
      <4>2. QED
        BY <1>3, <4>1 DEF InQueue, NodeT
    <3>2. NodeSound(queue[i])
      BY DEF IInv, QueueSound
    <3>3. QED
      BY <1>1, <2>1, <3>1, <3>2 DEF NodeSound
  <2>4. QueueSound'
    BY <1>1, <2>3 DEF QueueSound, NodeSound
  <2>5. ParkedSound'
    BY <1>1, <1>2, <2>1 DEF IInv, ParkedSound
  <2>6. FreshSound'
    BY <1>1, <2>1, <2>2 DEF IInv, FreshSound
  <2>7. QED
    BY <2>4, <2>5, <2>6
<1>5. FramesSound'
  BY <1>1, <1>2, ConstantsDistinct DEF Finish, IInv, FramesSound, FrameSound, TypeOK
<1>6. WaitersSound'
  BY <1>1, <1>2 DEF IInv, WaitersSound, Signalling
<1>8. \A x \in Tasks \ {t} : Registered(x) => Registered(x)'
  BY <1>1 DEF Registered
<1>9. WakeOwed'
  BY <1>1, <1>2, <1>8, WakeOwedStep
<1>10. NoTaskDropped'
  BY <1>1, <1>2 DEF Finish, IInv, NoTaskDropped, TypeOK
<1>11. QED
  BY <1>2, <1>4, <1>5, <1>6, <1>9, <1>10 DEF IInv

LEMMA SignalStateStep ==
  ASSUME IInv, TypeOK', NEW th \in Threads, SignalState(th)
  PROVE  IInv'
<1>1. /\ "signalled" \in Pcs \ {"idle"} /\ ~At(th, "idle") /\ Goto(th, "signalled")
      /\ UNCHANGED <<spawned, coro, park, queue, waiters, io, wants>>
      /\ frame[th].pc = "finished"
  BY DEF SignalState, At, Pcs
<1>2. PICK t \in Tasks :
      /\ t = frame[th].task
      /\ \A x \in Threads \ {th} : frame'[x] = frame[x] /\ frame[x].task # t
      /\ frame'[th].pc = "signalled" /\ frame'[th].task = t
      /\ OneRunner' /\ park[t] # "PARKED" /\ FrameSound(frame[th])
      /\ \A x \in Tasks : InQueue(x)' <=> InQueue(x)
      /\ \A x \in Tasks : InFrame(x)' <=> InFrame(x)
  BY <1>1, AdvanceFacts
<1>3. ~InQueue(t)
  BY <1>2 DEF IInv, OneRunner, InFrame
<1>4. QueueSound' /\ ParkedSound' /\ FreshSound'
  <2>1. \A x \in Tasks \ {t} : state'[x] = state[x]
    BY <1>2 DEF SignalState, IInv, TypeOK
  <2>2. t \in spawned
    BY <1>2 DEF FrameSound
  <2>3. ASSUME NEW i \in 1..Len(queue) PROVE NodeSound(queue[i])'
    <3>1. queue[i].handle \in Tasks \ {t}
      <4>1. queue[i] \in NodeT
        BY QueuedTyped DEF IInv
      <4>2. QED
        BY <1>3, <4>1 DEF InQueue, NodeT
    <3>2. NodeSound(queue[i])
      BY DEF IInv, QueueSound
    <3>3. QED
      BY <1>1, <2>1, <3>1, <3>2 DEF NodeSound
  <2>4. QueueSound'
    BY <1>1, <2>3 DEF QueueSound, NodeSound
  <2>5. ParkedSound'
    BY <1>1, <1>2, <2>1 DEF IInv, ParkedSound
  <2>6. FreshSound'
    BY <1>1, <2>1, <2>2 DEF IInv, FreshSound
  <2>7. QED
    BY <2>4, <2>5, <2>6
<1>5. FramesSound'
  BY <1>1, <1>2, ConstantsDistinct DEF SignalState, IInv, FramesSound, FrameSound, TypeOK
<1>6. WaitersSound'
  <2>1. Signalling(t)'
    BY <1>2 DEF Signalling
  <2>2. \A u \in Tasks \ {t} : state'[u] = state[u] /\ (Signalling(u) => Signalling(u)')
    BY <1>1, <1>2 DEF SignalState, Signalling, IInv, TypeOK
  <2>3. QED
    BY <1>1, <2>1, <2>2 DEF IInv, WaitersSound
<1>8. \A x \in Tasks \ {t} : Registered(x) => Registered(x)'
  BY <1>1 DEF Registered
<1>9. WakeOwed'
  BY <1>1, <1>2, <1>8, WakeOwedStep
<1>10. NoTaskDropped'
  BY <1>1, <1>2 DEF SignalState, IInv, NoTaskDropped, TypeOK
<1>11. QED
  BY <1>2, <1>4, <1>5, <1>6, <1>9, <1>10 DEF IInv

LEMMA FireBeginStep ==
  ASSUME IInv, TypeOK', NEW th \in Threads, FireBegin(th)
  PROVE  IInv'
<1>1. /\ "firing" \in Pcs \ {"idle"} /\ ~At(th, "idle") /\ Goto(th, "firing")
      /\ UNCHANGED <<state, spawned, coro, park, queue, waiters, io, wants>>
      /\ frame[th].pc = "signalled"
  BY DEF FireBegin, At, Pcs
<1>2. PICK t \in Tasks :
      /\ t = frame[th].task
      /\ \A x \in Threads \ {th} : frame'[x] = frame[x] /\ frame[x].task # t
      /\ frame'[th].pc = "firing" /\ frame'[th].task = t
      /\ OneRunner' /\ park[t] # "PARKED" /\ FrameSound(frame[th])
      /\ \A x \in Tasks : InQueue(x)' <=> InQueue(x)
      /\ \A x \in Tasks : InFrame(x)' <=> InFrame(x)
  BY <1>1, AdvanceFacts
<1>3. ~InQueue(t)
  BY <1>2 DEF IInv, OneRunner, InFrame
<1>4. QueueSound' /\ ParkedSound' /\ FreshSound'
  BY <1>1 DEF IInv, QueueSound, NodeSound, ParkedSound, FreshSound
<1>5. FramesSound'
  BY <1>1, <1>2 DEF IInv, FramesSound, FrameSound
<1>6. WaitersSound'
  BY <1>1, <1>2 DEF IInv, WaitersSound, Signalling
<1>8. \A x \in Tasks \ {t} : Registered(x) => Registered(x)'
  BY <1>1 DEF Registered
<1>9. WakeOwed'
  BY <1>1, <1>2, <1>8, WakeOwedStep
<1>10. NoTaskDropped'
  BY <1>1, <1>2 DEF FireBegin, IInv, NoTaskDropped, TypeOK
<1>11. QED
  BY <1>2, <1>4, <1>5, <1>6, <1>9, <1>10 DEF IInv

LEMMA FireEndStep ==
  ASSUME IInv, TypeOK', NEW th \in Threads, FireEnd(th)
  PROVE  IInv'
<1>1. /\ "tail" \in Pcs \ {"idle"} /\ ~At(th, "idle") /\ Goto(th, "tail")
      /\ UNCHANGED <<state, spawned, coro, park, queue, waiters, io, wants>>
      /\ frame[th].pc = "firing"
  BY DEF FireEnd, At, Pcs
<1>2. PICK t \in Tasks :
      /\ t = frame[th].task
      /\ \A x \in Threads \ {th} : frame'[x] = frame[x] /\ frame[x].task # t
      /\ frame'[th].pc = "tail" /\ frame'[th].task = t
      /\ OneRunner' /\ park[t] # "PARKED" /\ FrameSound(frame[th])
      /\ \A x \in Tasks : InQueue(x)' <=> InQueue(x)
      /\ \A x \in Tasks : InFrame(x)' <=> InFrame(x)
  BY <1>1, AdvanceFacts
<1>3. ~InQueue(t)
  BY <1>2 DEF IInv, OneRunner, InFrame
<1>4. QueueSound' /\ ParkedSound' /\ FreshSound'
  BY <1>1 DEF IInv, QueueSound, NodeSound, ParkedSound, FreshSound
<1>5. FramesSound'
  BY <1>1, <1>2 DEF IInv, FramesSound, FrameSound
<1>6. WaitersSound'
  BY <1>1, <1>2 DEF FireEnd, IInv, WaitersSound, Signalling
<1>8. \A x \in Tasks \ {t} : Registered(x) => Registered(x)'
  BY <1>1 DEF Registered
<1>9. WakeOwed'
  BY <1>1, <1>2, <1>8, WakeOwedStep
<1>10. NoTaskDropped'
  BY <1>1, <1>2 DEF FireEnd, IInv, NoTaskDropped, TypeOK
<1>11. QED
  BY <1>2, <1>4, <1>5, <1>6, <1>9, <1>10 DEF IInv

LEMMA BeginStepStep ==
  ASSUME IInv, TypeOK', NEW th \in Threads, BeginStep(th)
  PROVE  IInv'
<1>1. ~At(th, "idle") /\ frame[th].pc = "popped"
      /\ UNCHANGED <<state, spawned, queue, waiters, io>>
  BY DEF BeginStep, At
<1>2. frame[th].task \in Tasks /\ FrameSound(frame[th]) /\ frame[th].thunk \in {"start", "resume"}
  BY <1>1, ConstantsDistinct DEF IInv, TypeOK, FramesSound
<1>3. /\ coro' = [coro EXCEPT ![frame[th].task] = "live"]
      /\ Goto(th, "body") /\ "body" \in Pcs \ {"idle"}
  <2>1. frame[th].thunk # "start" => coro[frame[th].task] = "live"
    BY <1>1, <1>2 DEF FrameSound
  <2>2. coro' = [coro EXCEPT ![frame[th].task] = "live"]
    BY <1>2, <2>1 DEF BeginStep, IInv, TypeOK
  <2>3. coro'[frame[th].task] = "live"
    BY <1>2, <2>2 DEF IInv, TypeOK
  <2>4. QED
    BY <2>2, <2>3 DEF BeginStep, Pcs
<1>4. \A x \in Tasks : park'[x] = "PARKED" => park[x] = "PARKED"
  BY <1>2 DEF BeginStep, IInv, TypeOK
<1>5. PICK t \in Tasks :
      /\ t = frame[th].task
      /\ \A x \in Threads \ {th} : frame'[x] = frame[x] /\ frame[x].task # t
      /\ frame'[th].pc = "body" /\ frame'[th].task = t
      /\ OneRunner' /\ park[t] # "PARKED" /\ FrameSound(frame[th])
      /\ \A x \in Tasks : InQueue(x)' <=> InQueue(x)
      /\ \A x \in Tasks : InFrame(x)' <=> InFrame(x)
  BY <1>1, <1>3, <1>4, AdvanceFacts
<1>6. ~InQueue(t)
  BY <1>5 DEF IInv, OneRunner, InFrame
<1>7. QueueSound' /\ ParkedSound' /\ FreshSound'
  BY <1>1, <1>3, <1>4, <1>5, <1>6 DEF IInv, QueueSound, NodeSound, ParkedSound, FreshSound,
     FrameSound, InQueue, TypeOK
<1>8. FramesSound'
  BY <1>1, <1>3, <1>5, ConstantsDistinct DEF IInv, FramesSound, FrameSound, TypeOK
<1>9. WaitersSound'
  BY <1>1, <1>5 DEF IInv, WaitersSound, Signalling
<1>10. wants'[t] = {} /\ park'[t] = "RUNNING"
  BY <1>5 DEF BeginStep, IInv, TypeOK
<1>11. \A x \in Tasks \ {t} : /\ wants'[x] = wants[x] /\ park'[x] = park[x]
                              /\ Registered(x) => Registered(x)'
  BY <1>1, <1>5 DEF BeginStep, Registered, IInv, TypeOK
<1>12. WakeOwed'
  BY <1>1, <1>5, <1>10, <1>11, WakeOwedStep
<1>13. NoTaskDropped'
  BY <1>1, <1>5, <1>11 DEF IInv, NoTaskDropped, TypeOK, InFrame
<1>14. QED
  BY <1>5, <1>7, <1>8, <1>9, <1>12, <1>13 DEF IInv

(* A wake, whoever sends it: the task was parked and is queued again, or   *)
(* the wake is recorded for the step in progress.                          *)
LEMMA WakeStep ==
  ASSUME IInv, TypeOK', NEW t \in Tasks, MakeRunnable(t),
         UNCHANGED <<state, spawned, coro, frame, wants>>,
         \A w \in Tasks \X Tasks : w \in waiters' => w \in waiters,
         \A x \in Tasks \ {t} : Registered(x) => Registered(x)'
  PROVE  IInv'
<1>1. /\ park'[t] # "PARKED" /\ (park[t] # "PARKED" => park'[t] = "WAKE")
      /\ \A x \in Tasks \ {t} : park'[x] = park[x]
  BY DEF MakeRunnable, IInv, TypeOK
<1>2. park[t] = "PARKED" =>
        /\ queue' = Append(queue, Node(t, "resume"))
        /\ ~InQueue(t) /\ ~InFrame(t)
        /\ NodeSound(Node(t, "resume"))
  BY NodeTyped DEF MakeRunnable, IInv, OneRunner, ParkedSound, NodeSound
<1>3. park[t] # "PARKED" => queue' = queue
  BY DEF MakeRunnable
<1>4. /\ \A x \in Tasks : InQueue(x)' <=> InQueue(x) \/ (x = t /\ park[t] = "PARKED")
      /\ Distinct(queue')
      /\ \A i \in 1..Len(queue') :
           (queue'[i] = Node(t, "resume") /\ NodeSound(Node(t, "resume")))
           \/ \E j \in 1..Len(queue) : queue'[i] = queue[j]
  <2>1. TypeOK /\ Distinct(queue)
    BY DEF IInv, OneRunner, Distinct
  <2>2. CASE park[t] = "PARKED"
    BY <1>2, <2>1, <2>2, PushFacts
  <2>3. CASE park[t] # "PARKED"
    BY <1>3, <2>1, <2>3 DEF InQueue, Distinct
  <2>4. QED
    BY <2>2, <2>3
<1>5. \A x \in Tasks : InFrame(x)' <=> InFrame(x)
  BY DEF InFrame
<1>6. OneRunner'
  <2>1. \A i, j \in 1..Len(queue') : queue'[i].handle = queue'[j].handle => i = j
    BY <1>4 DEF Distinct
  <2>2. \A x \in Tasks : InQueue(x)' => ~InFrame(x)'
    BY <1>2, <1>4, <1>5 DEF IInv, OneRunner
  <2>3. \A x \in Tasks : park'[x] = "PARKED" => ~InQueue(x)' /\ ~InFrame(x)'
    BY <1>1, <1>4, <1>5 DEF IInv, OneRunner
  <2>4. QED
    BY <2>1, <2>2, <2>3 DEF IInv, OneRunner
<1>7. QueueSound'
  BY <1>4 DEF IInv, QueueSound, NodeSound
<1>8. FramesSound' /\ ParkedSound' /\ FreshSound'
  BY <1>1 DEF IInv, FramesSound, FrameSound, ParkedSound, FreshSound
<1>9. WaitersSound'
  BY DEF IInv, WaitersSound, Signalling
<1>10. WakeOwed'
  <2>1. ASSUME NEW x \in Tasks, park'[x] = "PARKED" PROVE Registered(x)' /\ wants'[x] # {}
    BY <1>1, <2>1 DEF IInv, WakeOwed
  <2>2. ASSUME NEW x \in Threads, frame'[x].pc \in {"armed", "suspended"}
        PROVE  /\ wants'[frame'[x].task] # {}
               /\ park'[frame'[x].task] # "WAKE" => Registered(frame[x].task)'
    <3>1. PICK y \in Tasks : y = frame[x].task
      BY <2>2 DEF IInv, TypeOK
    <3>2. wants[y] # {} /\ (park[y] # "WAKE" => Registered(y))
      BY <2>2, <3>1 DEF IInv, WakeOwed
    <3>3. y = t => park'[y] = "WAKE"
      BY <1>1, <1>2, <3>1 DEF InFrame
    <3>4. park'[y] # "WAKE" => Registered(y)'
      BY <1>1, <3>2, <3>3
    <3>5. Registered(y)' => Registered(frame[x].task)'
      BY <3>1 DEF Registered
    <3>6. QED
      BY <3>1, <3>2, <3>4, <3>5
  <2>3. \A x \in Threads : frame'[x].pc = "body" => wants'[frame'[x].task] = {}
    BY DEF IInv, WakeOwed
  <2>4. QED
    BY <2>1, <2>2, <2>3 DEF WakeOwed
<1>11. NoTaskDropped'
  BY <1>1, <1>4, <1>5 DEF IInv, NoTaskDropped, TypeOK
<1>12. QED
  BY <1>6, <1>7, <1>8, <1>9, <1>10, <1>11 DEF IInv

(* A step that changes no frame and only adds registrations.               *)
LEMMA SameOwed ==
  ASSUME IInv, UNCHANGED <<park, frame, wants>>,
         \A x \in Tasks : Registered(x) => Registered(x)'
  PROVE  WakeOwed'
<1>1. ASSUME NEW x \in Threads, frame'[x].pc \in {"armed", "suspended"}
      PROVE  /\ wants'[frame'[x].task] # {}
             /\ park'[frame'[x].task] # "WAKE" => Registered(frame[x].task)'
  <2>1. PICK y \in Tasks : y = frame[x].task
    BY <1>1 DEF IInv, TypeOK
  <2>2. wants[y] # {} /\ (park[y] # "WAKE" => Registered(y)')
    BY <1>1, <2>1 DEF IInv, WakeOwed
  <2>3. Registered(y)' => Registered(frame[x].task)'
    BY <2>1 DEF Registered
  <2>4. QED
    BY <2>1, <2>2, <2>3
<1>2. \A x \in Tasks : park'[x] = "PARKED" => Registered(x)' /\ wants'[x] # {}
  BY DEF IInv, WakeOwed
<1>3. \A x \in Threads : frame'[x].pc = "body" => wants'[frame'[x].task] = {}
  BY DEF IInv, WakeOwed
<1>4. QED
  BY <1>1, <1>2, <1>3 DEF WakeOwed

LEMMA SubmitStep ==
  ASSUME IInv, TypeOK', NEW t \in Tasks, Submit(t)
  PROVE  IInv'
<1>1. /\ spawned' = spawned \cup {t} /\ t \notin spawned
      /\ queue' = Append(queue, Node(t, "start"))
      /\ UNCHANGED <<state, coro, park, frame, waiters, io, wants>>
  BY DEF Submit
<1>2. ~InQueue(t) /\ ~InFrame(t) /\ park[t] # "PARKED"
  <2>1. ~InQueue(t)
    BY <1>1 DEF IInv, QueueSound, NodeSound, InQueue
  <2>2. ~InFrame(t)
    BY <1>1, ConstantsDistinct DEF IInv, FramesSound, FrameSound, InFrame
  <2>3. QED
    BY <1>1, <2>1, <2>2 DEF IInv, ParkedSound
<1>3. NodeSound(Node(t, "start"))'
  BY <1>1, NodeTyped DEF IInv, FreshSound, NodeSound
<1>4. /\ \A x \in Tasks : InQueue(x)' <=> InQueue(x) \/ x = t
      /\ Distinct(queue')
      /\ \A i \in 1..Len(queue') :
           queue'[i] = Node(t, "start") \/ \E j \in 1..Len(queue) : queue'[i] = queue[j]
  BY <1>1, <1>2, PushFacts DEF IInv, OneRunner, Distinct
<1>5. OneRunner'
  BY <1>1, <1>2, <1>4 DEF IInv, OneRunner, Distinct, InFrame
<1>6. QueueSound'
  BY <1>1, <1>3, <1>4 DEF IInv, QueueSound, NodeSound
<1>7. FramesSound' /\ ParkedSound' /\ FreshSound'
  BY <1>1 DEF IInv, FramesSound, FrameSound, ParkedSound, FreshSound
<1>8. WaitersSound' /\ WakeOwed'
  <2>1. \A x \in Tasks : Registered(x) => Registered(x)'
    BY <1>1 DEF Registered
  <2>2. WakeOwed'
    BY <1>1, <2>1, SameOwed
  <2>3. WaitersSound'
    BY <1>1 DEF IInv, WaitersSound, Signalling
  <2>4. QED
    BY <2>2, <2>3
<1>9. NoTaskDropped'
  <2>1. \A x \in Tasks : InFrame(x)' <=> InFrame(x)
    BY <1>1 DEF InFrame
  <2>2. QED
    BY <1>1, <1>4, <2>1 DEF IInv, NoTaskDropped, TypeOK
<1>10. QED
  BY <1>5, <1>6, <1>7, <1>8, <1>9 DEF IInv

LEMMA PopStep ==
  ASSUME IInv, TypeOK', NEW th \in Threads, Pop(th)
  PROVE  IInv'
<1>1. /\ UNCHANGED <<state, spawned, coro, park, waiters, io, wants>>
      /\ frame[th].pc = "idle" /\ frame[th].task = None
  BY DEF Pop, At, IInv, TypeOK
<1>2. PICK n \in NodeT :
      /\ n = Head(queue)
      /\ frame'[th].pc = "popped" /\ frame'[th].task = n.handle /\ frame'[th].thunk = n.thunk
      /\ \A x \in Threads \ {th} : frame'[x] = frame[x]
  BY PopFacts DEF IInv
<1>3. PICK t \in Tasks : t = n.handle
  BY DEF NodeT
<1>4. /\ InQueue(t) /\ \E j \in 1..Len(queue) : n = queue[j]
      /\ \A x \in Tasks : InQueue(x)' => InQueue(x) /\ x # t
      /\ \A x \in Tasks : InQueue(x) => InQueue(x)' \/ x = t
      /\ \A i \in 1..Len(queue') : \E j \in 1..Len(queue) : queue'[i] = queue[j]
      /\ Distinct(queue')
  <2>1. TypeOK /\ Distinct(queue)
    BY DEF IInv, OneRunner, Distinct
  <2>2. QED
    BY <1>2, <1>3, <2>1, PopQueueFacts
<1>5. NodeSound(n)
  BY <1>4 DEF IInv, QueueSound
<1>6. ~InFrame(t) /\ park[t] # "PARKED"
  BY <1>4 DEF IInv, OneRunner
<1>7. \A x \in Tasks : InFrame(x)' <=> InFrame(x) \/ x = t
  BY <1>1, <1>2, <1>3, ConstantsDistinct DEF InFrame
<1>8. OneRunner'
  <2>1. \A x1, x2 \in Threads :
          frame'[x1].task = frame'[x2].task /\ frame'[x1].task # None => x1 = x2
    BY <1>2, <1>3, <1>6 DEF IInv, OneRunner, InFrame
  <2>2. \A x \in Tasks : InQueue(x)' => ~InFrame(x)'
    BY <1>4, <1>7 DEF IInv, OneRunner
  <2>3. \A x \in Tasks : park'[x] = "PARKED" => ~InQueue(x)' /\ ~InFrame(x)'
    BY <1>1, <1>4, <1>6, <1>7 DEF IInv, OneRunner
  <2>4. QED
    BY <1>4, <2>1, <2>2, <2>3 DEF OneRunner, Distinct
<1>9. QueueSound' /\ ParkedSound' /\ FreshSound'
  BY <1>1, <1>4 DEF IInv, QueueSound, NodeSound, ParkedSound, FreshSound
<1>10. FramesSound'
  BY <1>1, <1>2, <1>3, <1>5 DEF IInv, FramesSound, FrameSound, NodeSound
<1>11. WaitersSound'
  BY <1>1, <1>2 DEF IInv, WaitersSound, Signalling
<1>12. /\ \A x \in Threads \ {th} : frame'[x] = frame[x] /\ frame[x].task # t
       /\ \A x \in Tasks : Registered(x) => Registered(x)'
  BY <1>1, <1>2, <1>6 DEF InFrame, Registered
<1>13. WakeOwed'
  BY <1>1, <1>2, <1>3, <1>6, <1>12, WakeOwedStep
<1>14. NoTaskDropped'
  BY <1>1, <1>4, <1>7 DEF IInv, NoTaskDropped, TypeOK
<1>15. QED
  BY <1>8, <1>9, <1>10, <1>11, <1>13, <1>14 DEF IInv

(* A thread is done with its task, and nobody else has it.                 *)
LEMMA LeaveFacts ==
  ASSUME IInv, NEW th \in Threads, ~At(th, "idle"),
         frame' = [frame EXCEPT ![th] = IdleFrame]
  PROVE  \E t \in Tasks :
           /\ t = frame[th].task /\ frame'[th].task = None /\ frame'[th].pc = "idle"
           /\ \A x \in Threads \ {th} : frame'[x] = frame[x] /\ frame[x].task # t
           /\ \A x \in Tasks : InFrame(x)' <=> InFrame(x) /\ x # t
           /\ ~InQueue(t) /\ park[t] # "PARKED" /\ InFrame(t)
           /\ FrameSound(frame[th])
<1>1. PICK t \in Tasks : t = frame[th].task /\ t # None
  BY ConstantsDistinct DEF At, IInv, TypeOK
<1>2. /\ frame'[th].task = None /\ frame'[th].pc = "idle"
      /\ \A x \in Threads \ {th} : frame'[x] = frame[x]
  BY IdleFacts DEF IInv
<1>3. \A x \in Threads \ {th} : frame[x].task # t
  BY <1>1 DEF IInv, OneRunner
<1>4. \A x \in Tasks : InFrame(x)' <=> InFrame(x) /\ x # t
  BY <1>1, <1>2, <1>3, ConstantsDistinct DEF InFrame
<1>5. ~InQueue(t) /\ park[t] # "PARKED" /\ InFrame(t) /\ FrameSound(frame[th])
  BY <1>1 DEF IInv, OneRunner, FramesSound, InFrame
<1>6. QED
  BY <1>1, <1>2, <1>3, <1>4, <1>5

LEMMA EndStepStep ==
  ASSUME IInv, TypeOK', NEW th \in Threads, EndStep(th)
  PROVE  IInv'
<1>1. /\ UNCHANGED <<state, spawned, coro, park, queue, waiters, io, wants>>
      /\ frame[th].pc = "tail" /\ ~At(th, "idle")
  BY DEF EndStep, At
<1>2. PICK t \in Tasks :
      /\ t = frame[th].task /\ frame'[th].task = None /\ frame'[th].pc = "idle"
      /\ \A x \in Threads \ {th} : frame'[x] = frame[x] /\ frame[x].task # t
      /\ \A x \in Tasks : InFrame(x)' <=> InFrame(x) /\ x # t
      /\ park[t] # "PARKED" /\ FrameSound(frame[th])
  BY <1>1, LeaveFacts DEF EndStep
<1>3. \A x \in Tasks : InQueue(x)' <=> InQueue(x)
  BY <1>1 DEF InQueue
<1>4. OneRunner'
  <2>1. \A x1, x2 \in Threads :
          frame'[x1].task = frame'[x2].task /\ frame'[x1].task # None => x1 = x2
    BY <1>2 DEF IInv, OneRunner
  <2>2. \A x \in Tasks : InQueue(x)' => ~InFrame(x)'
    BY <1>2, <1>3 DEF IInv, OneRunner
  <2>3. \A x \in Tasks : park'[x] = "PARKED" => ~InQueue(x)' /\ ~InFrame(x)'
    BY <1>1, <1>2, <1>3 DEF IInv, OneRunner
  <2>4. QED
    BY <1>1, <2>1, <2>2, <2>3 DEF IInv, OneRunner
<1>5. QueueSound' /\ ParkedSound' /\ FreshSound'
  BY <1>1 DEF IInv, QueueSound, NodeSound, ParkedSound, FreshSound
<1>6. FramesSound'
  BY <1>1, <1>2 DEF IInv, FramesSound, FrameSound
<1>7. WaitersSound'
  BY <1>1, <1>2 DEF IInv, WaitersSound, Signalling
<1>8. \A x \in Tasks : Registered(x) => Registered(x)'
  BY <1>1 DEF Registered
<1>9. WakeOwed'
  BY <1>1, <1>2, <1>8, WakeOwedStep
<1>10. NoTaskDropped'
  BY <1>1, <1>2, <1>3 DEF IInv, NoTaskDropped, FrameSound, TypeOK
<1>11. QED
  BY <1>4, <1>5, <1>6, <1>7, <1>9, <1>10 DEF IInv

LEMMA ParkOrRequeueStep ==
  ASSUME IInv, TypeOK', NEW th \in Threads, ParkOrRequeue(th)
  PROVE  IInv'
<1>1. /\ UNCHANGED <<state, spawned, coro, waiters, io, wants>>
      /\ frame[th].pc = "suspended" /\ ~At(th, "idle")
  BY DEF ParkOrRequeue, At
<1>2. PICK t \in Tasks :
      /\ t = frame[th].task /\ frame'[th].task = None /\ frame'[th].pc = "idle"
      /\ \A x \in Threads \ {th} : frame'[x] = frame[x] /\ frame[x].task # t
      /\ \A x \in Tasks : InFrame(x)' <=> InFrame(x) /\ x # t
      /\ ~InQueue(t) /\ FrameSound(frame[th])
  BY <1>1, LeaveFacts DEF ParkOrRequeue
<1>3. /\ wants[t] # {} /\ (park[t] # "WAKE" => Registered(t))
      /\ t \in spawned /\ state[t] = 0 /\ coro[t] = "live"
  BY <1>1, <1>2 DEF IInv, WakeOwed, FrameSound
<1>4. \A x \in Tasks \ {t} : park'[x] = park[x]
  BY <1>2 DEF ParkOrRequeue, IInv, TypeOK
<1>5. park[t] = "WAKE" => /\ park'[t] = "RUNNING"
                          /\ queue' = Append(queue, Node(t, "resume"))
  BY <1>2 DEF ParkOrRequeue, IInv, TypeOK
<1>6. park[t] # "WAKE" => park'[t] = "PARKED" /\ queue' = queue
  BY <1>2 DEF ParkOrRequeue, IInv, TypeOK
<1>7. /\ \A x \in Tasks : InQueue(x)' <=> InQueue(x) \/ (x = t /\ park[t] = "WAKE")
      /\ Distinct(queue')
      /\ \A i \in 1..Len(queue') :
           queue'[i] = Node(t, "resume") \/ \E j \in 1..Len(queue) : queue'[i] = queue[j]
  <2>1. TypeOK /\ Distinct(queue)
    BY DEF IInv, OneRunner, Distinct
  <2>2. CASE park[t] = "WAKE"
    BY <1>2, <1>5, <2>1, <2>2, PushFacts
  <2>3. CASE park[t] # "WAKE"
    BY <1>6, <2>1, <2>3 DEF InQueue, Distinct
  <2>4. QED
    BY <2>2, <2>3
<1>8. OneRunner'
  <2>1. \A x1, x2 \in Threads :
          frame'[x1].task = frame'[x2].task /\ frame'[x1].task # None => x1 = x2
    BY <1>2 DEF IInv, OneRunner
  <2>2. \A x \in Tasks : InQueue(x)' => ~InFrame(x)'
    BY <1>2, <1>7 DEF IInv, OneRunner
  <2>3. \A x \in Tasks : park'[x] = "PARKED" => ~InQueue(x)' /\ ~InFrame(x)'
    BY <1>2, <1>4, <1>5, <1>6, <1>7 DEF IInv, OneRunner
  <2>4. QED
    BY <1>7, <2>1, <2>2, <2>3 DEF OneRunner, Distinct
<1>9. NodeSound(Node(t, "resume"))
  BY <1>3, NodeTyped DEF NodeSound
<1>10. QueueSound'
  BY <1>1, <1>7, <1>9 DEF IInv, QueueSound, NodeSound
<1>11. FramesSound' /\ FreshSound'
  BY <1>1, <1>2 DEF IInv, FramesSound, FrameSound, FreshSound
<1>12. ParkedSound'
  BY <1>1, <1>3, <1>4 DEF IInv, ParkedSound
<1>13. WaitersSound'
  BY <1>1, <1>2 DEF IInv, WaitersSound, Signalling
<1>14. \A x \in Tasks : Registered(x) => Registered(x)'
  BY <1>1 DEF Registered
<1>15. WakeOwed'
  BY <1>1, <1>2, <1>3, <1>4, <1>5, <1>6, <1>14, WakeOwedStep
<1>16. NoTaskDropped'
  BY <1>1, <1>2, <1>3, <1>4, <1>5, <1>6, <1>7 DEF IInv, NoTaskDropped, TypeOK
<1>17. QED
  BY <1>8, <1>10, <1>11, <1>12, <1>13, <1>15, <1>16 DEF IInv

LEMMA IoDeliverStep ==
  ASSUME IInv, TypeOK', NEW t \in IoTasks, IoDeliver(t)
  PROVE  IInv'
<1>1. UNCHANGED <<state, spawned, coro, park, queue, frame, waiters, wants>>
  BY DEF IoDeliver
<1>2. \A x \in Tasks : Registered(x) => Registered(x)'
  BY <1>1, IoTasksAreTasks DEF IoDeliver, Registered, IInv, TypeOK
<1>3. OneRunner' /\ QueueSound' /\ FramesSound' /\ ParkedSound' /\ FreshSound'
  BY <1>1 DEF IInv, OneRunner, InQueue, InFrame, QueueSound, NodeSound, FramesSound,
     FrameSound, ParkedSound, FreshSound
<1>4. WaitersSound' /\ NoTaskDropped'
  BY <1>1 DEF IInv, WaitersSound, Signalling, NoTaskDropped, InQueue, InFrame
<1>5. WakeOwed'
  BY <1>1, <1>2, SameOwed
<1>6. QED
  BY <1>3, <1>4, <1>5 DEF IInv

LEMMA FireOneStep ==
  ASSUME IInv, TypeOK', NEW th \in Threads, NEW t \in Tasks, FireOne(th, t)
  PROVE  IInv'
<1>1. /\ MakeRunnable(t) /\ waiters' = Disarmed(t)
      /\ UNCHANGED <<state, spawned, coro, frame, io, wants>>
  BY DEF FireOne
<1>2. \A w \in Tasks \X Tasks : w \in waiters' => w \in waiters
  BY <1>1 DEF Disarmed
<1>3. \A x \in Tasks \ {t} : Registered(x) => Registered(x)'
  BY <1>1 DEF Registered, Disarmed
<1>4. QED
  BY <1>1, <1>2, <1>3, WakeStep

LEMMA IoWakeStep ==
  ASSUME IInv, TypeOK', NEW t \in IoTasks, IoWake(t) \/ StrayWake(t)
  PROVE  IInv'
<1>1. /\ MakeRunnable(t) /\ t \in Tasks
      /\ UNCHANGED <<state, spawned, coro, frame, waiters, wants>>
      /\ \A x \in Tasks \ {t} : io'[x] = io[x]
  BY IoTasksAreTasks DEF IoWake, StrayWake, IInv, TypeOK
<1>2. \A x \in Tasks \ {t} : Registered(x) => Registered(x)'
  BY <1>1 DEF Registered
<1>3. QED
  BY <1>1, <1>2, WakeStep

LEMMA StutterStep ==
  ASSUME IInv, UNCHANGED vars
  PROVE  IInv'
<1>1. UNCHANGED <<state, spawned, coro, park, queue, frame, waiters, io, wants>>
  BY DEF vars
<1>2. TypeOK' /\ OneRunner' /\ QueueSound' /\ FramesSound' /\ ParkedSound' /\ FreshSound'
  BY <1>1 DEF IInv, TypeOK, OneRunner, InQueue, InFrame, QueueSound, NodeSound, FramesSound,
     FrameSound, ParkedSound, FreshSound
<1>3. WaitersSound' /\ NoTaskDropped' /\ WakeOwed'
  BY <1>1 DEF IInv, WaitersSound, Signalling, NoTaskDropped, InQueue, InFrame, WakeOwed, Registered
<1>4. QED
  BY <1>2, <1>3 DEF IInv

LEMMA IInvInit == Init => IInv
<1> SUFFICES ASSUME Init PROVE IInv
  OBVIOUS
<1>1. TypeOK
  BY ConstantsDistinct DEF Init, TypeOK, IdleFrame, Pcs
<1>2. /\ Len(queue) = 0 /\ spawned = {} /\ waiters = {}
      /\ \A th \in Threads : frame[th].task = None /\ frame[th].pc = "idle"
      /\ \A t \in Tasks : park[t] = "RUNNING" /\ state[t] = 0 /\ coro[t] = "unborn"
  BY DEF Init, IdleFrame
<1>3. \A t \in Tasks : ~InQueue(t) /\ ~InFrame(t)
  BY <1>2, ConstantsDistinct DEF InQueue, InFrame
<1>4. OneRunner /\ QueueSound /\ FramesSound /\ ParkedSound /\ FreshSound
  BY <1>2, <1>3 DEF OneRunner, QueueSound, FramesSound, ParkedSound, FreshSound
<1>5. WaitersSound /\ WakeOwed /\ NoTaskDropped
  BY <1>2 DEF WaitersSound, WakeOwed, NoTaskDropped
<1>6. QED
  BY <1>1, <1>4, <1>5 DEF IInv

LEMMA IInvStep == IInv /\ [Next]_vars => IInv'
<1> SUFFICES ASSUME IInv, [Next]_vars PROVE IInv'
  OBVIOUS
<1>0. TypeOK'
  BY TypeStep DEF IInv
<1>1. ASSUME NEW t \in Tasks, Submit(t) PROVE IInv'
  BY <1>0, <1>1, SubmitStep
<1>2. ASSUME NEW t \in IoTasks, IoDeliver(t) \/ IoWake(t) \/ StrayWake(t) PROVE IInv'
  BY <1>0, <1>2, IoDeliverStep, IoWakeStep
<1>3. ASSUME NEW th \in Threads, Pop(th) \/ BeginStep(th) \/ ArmIo(th) \/ Disarm(th)
      PROVE IInv'
  BY <1>0, <1>3, PopStep, BeginStepStep, ArmIoStep, DisarmStep
<1>4. ASSUME NEW th \in Threads, NEW u \in Tasks, ArmComplete(th, u) PROVE IInv'
  BY <1>0, <1>4, ArmCompleteStep
<1>5. ASSUME NEW th \in Threads, Suspend(th) \/ Finish(th) \/ ParkOrRequeue(th) PROVE IInv'
  BY <1>0, <1>5, SuspendStep, FinishStep, ParkOrRequeueStep
<1>6. ASSUME NEW th \in Threads,
             SignalState(th) \/ FireBegin(th) \/ FireEnd(th) \/ EndStep(th)
      PROVE IInv'
  BY <1>0, <1>6, SignalStateStep, FireBeginStep, FireEndStep, EndStepStep
<1>7. ASSUME NEW th \in Threads, NEW t \in Tasks, FireOne(th, t) PROVE IInv'
  BY <1>0, <1>7, FireOneStep
<1>8. CASE UNCHANGED vars
  BY <1>8, StutterStep
<1>9. QED
  BY <1>1, <1>2, <1>3, <1>4, <1>5, <1>6, <1>7, <1>8 DEF Next

-----------------------------------------------------------------------------
(* The inductive invariant holds in every reachable state.                 *)
THEOREM InductiveInvariant == Spec => []IInv
  BY IInvInit, IInvStep, PTL DEF Spec

(* No schedule gives a task two runners, for any number of tasks and       *)
(* threads.                                                                *)
THEOREM OneRunnerHolds == Spec => []OneRunner
<1>1. IInv => OneRunner
  BY DEF IInv
<1>2. QED
  BY <1>1, InductiveInvariant, PTL

(* Every dispatch starts a fresh body or resumes a live coroutine.         *)
THEOREM DispatchIsSoundHolds == Spec => []DispatchIsSound
<1>1. IInv => DispatchIsSound
  <2> SUFFICES ASSUME IInv PROVE DispatchIsSound
    OBVIOUS
  <2>1. ASSUME NEW th \in Threads, At(th, "popped")
        PROVE coro[frame[th].task] = IF frame[th].thunk = "start" THEN "unborn" ELSE "live"
    BY <2>1 DEF At, IInv, TypeOK, FramesSound, FrameSound
  <2>2. QED
    BY <2>1 DEF IInv, QueueSound, NodeSound, DispatchIsSound
<1>2. QED
  BY <1>1, InductiveInvariant, PTL

(* No join wake and no I/O wake is lost to the window between arming and   *)
(* parking.                                                                *)
THEOREM NoLostWakeHolds == Spec => []NoLostWake
<1>1. IInv => NoLostWake
  BY DEF IInv, WakeOwed, Registered, WaitersSound, NoLostWake, TypeOK
<1>2. QED
  BY <1>1, InductiveInvariant, PTL

(* No task falls out of the scheduler before it is done.                   *)
THEOREM NoTaskDroppedHolds == Spec => []NoTaskDropped
<1>1. IInv => NoTaskDropped
  BY DEF IInv
<1>2. QED
  BY <1>1, InductiveInvariant, PTL

-----------------------------------------------------------------------------
(***************************************************************************)
(* The scheduler implements TaskLifecycle.  Six kinds of step move exactly *)
(* one task, the others leave every phase as it is.                        *)
(***************************************************************************)
LEMMA PhaseValues ==
  ASSUME NEW t \in Tasks
  PROVE  /\ t \notin spawned => Phase(t) = "new"
         /\ t \in spawned /\ state[t] = 1 => Phase(t) = "done"
         /\ t \in spawned /\ state[t] = 0 /\ InQueue(t) => Phase(t) = "ready"
         /\ t \in spawned /\ state[t] = 0 /\ ~InQueue(t) =>
              Phase(t) = IF park[t] = "PARKED" THEN "blocked" ELSE "running"
  BY DEF Phase

LEMMA PhaseValuesNext ==
  ASSUME NEW t \in Tasks
  PROVE  /\ t \notin spawned' => Phase(t)' = "new"
         /\ t \in spawned' /\ state'[t] = 1 => Phase(t)' = "done"
         /\ t \in spawned' /\ state'[t] = 0 /\ InQueue(t)' => Phase(t)' = "ready"
         /\ t \in spawned' /\ state'[t] = 0 /\ ~InQueue(t)' =>
              Phase(t)' = IF park'[t] = "PARKED" THEN "blocked" ELSE "running"
  BY DEF Phase

LEMMA PhaseKept ==
  ASSUME TypeOK, NEW t \in Tasks, t \in spawned' <=> t \in spawned, state'[t] = state[t],
         InQueue(t)' <=> InQueue(t), park'[t] = "PARKED" <=> park[t] = "PARKED"
  PROVE  Phase(t)' = Phase(t)
<1>1. state[t] \in {0, 1}
  BY DEF TypeOK
<1>2. QED
  BY <1>1, PhaseValues, PhaseValuesNext

LEMMA PhaseStutter ==
  ASSUME TypeOK, UNCHANGED <<spawned, state, queue>>,
         \A t \in Tasks : park'[t] = "PARKED" <=> park[t] = "PARKED"
  PROVE  UNCHANGED [t \in Tasks |-> Phase(t)]
<1>1. \A t \in Tasks : Phase(t)' = Phase(t)
  BY PhaseKept DEF InQueue
<1>2. QED
  BY <1>1

LEMMA PhaseMove ==
  ASSUME NEW t \in Tasks, NEW a, NEW b, Phase(t) = a, Phase(t)' = b,
         \A x \in Tasks \ {t} : Phase(x)' = Phase(x)
  PROVE  Lifecycle!Move(t, a, b)
  BY DEF Lifecycle!Move

(* A wake moves a parked task to ready and leaves every other phase alone. *)
LEMMA WakePhase ==
  ASSUME IInv, NEW t \in Tasks, MakeRunnable(t), UNCHANGED <<spawned, state>>
  PROVE  UNCHANGED [x \in Tasks |-> Phase(x)] \/ Lifecycle!Wake(t)
<1>1. CASE park[t] = "PARKED"
  <2>1. queue' = Append(queue, Node(t, "resume")) /\ park' = [park EXCEPT ![t] = "RUNNING"]
    BY <1>1 DEF MakeRunnable
  <2>2. \A x \in Tasks : InQueue(x)' <=> InQueue(x) \/ x = t
    BY <2>1, PushFacts DEF IInv
  <2>3. t \in spawned /\ state[t] = 0 /\ ~InQueue(t)
    BY <1>1 DEF IInv, ParkedSound, OneRunner
  <2>4. Phase(t) = "blocked" /\ Phase(t)' = "ready"
    BY <1>1, <2>2, <2>3, PhaseValues, PhaseValuesNext
  <2>5. \A x \in Tasks \ {t} : Phase(x)' = Phase(x)
    BY <2>1, <2>2, PhaseKept DEF IInv, TypeOK
  <2>6. QED
    BY <2>4, <2>5, PhaseMove DEF Lifecycle!Wake
<1>2. CASE park[t] # "PARKED"
  <2>1. queue' = queue /\ park' = [park EXCEPT ![t] = "WAKE"]
    BY <1>2 DEF MakeRunnable
  <2>2. \A x \in Tasks : park'[x] = "PARKED" <=> park[x] = "PARKED"
    BY <1>2, <2>1 DEF IInv, TypeOK
  <2>3. QED
    BY <2>1, <2>2, PhaseStutter DEF IInv
<1>3. QED
  BY <1>1, <1>2

LEMMA SubmitPhase ==
  ASSUME IInv, IInv', NEW t \in Tasks, Submit(t)
  PROVE  Lifecycle!Spawn(t)
<1>1. /\ spawned' = spawned \cup {t} /\ t \notin spawned
      /\ queue' = Append(queue, Node(t, "start"))
      /\ UNCHANGED <<state, park>>
  BY DEF Submit
<1>2. \A x \in Tasks : InQueue(x)' <=> InQueue(x) \/ x = t
  BY <1>1, PushFacts DEF IInv
<1>3. state'[t] = 0
  BY <1>1 DEF IInv, FreshSound
<1>4. Phase(t) = "new" /\ Phase(t)' = "ready"
  BY <1>1, <1>2, <1>3, PhaseValues, PhaseValuesNext
<1>5. \A x \in Tasks \ {t} : Phase(x)' = Phase(x)
  BY <1>1, <1>2, PhaseKept DEF IInv
<1>6. QED
  BY <1>4, <1>5, PhaseMove DEF Lifecycle!Spawn

LEMMA PopPhase ==
  ASSUME IInv, IInv', NEW th \in Threads, Pop(th)
  PROVE  \E t \in Tasks : Lifecycle!Dispatch(t)
<1>1. PICK t \in Tasks : t = Head(queue).handle
  BY PopFacts DEF IInv, NodeT
<1>2. UNCHANGED <<spawned, state, park>>
  BY DEF Pop
<1>3. /\ InQueue(t) /\ ~InQueue(t)'
      /\ \A x \in Tasks \ {t} : InQueue(x)' <=> InQueue(x)
  <2>1. TypeOK /\ Distinct(queue)
    BY DEF IInv, OneRunner, Distinct
  <2>2. QED
    BY <1>1, <2>1, PopQueueFacts
<1>4. t \in spawned /\ state[t] = 0 /\ park[t] # "PARKED"
  BY <1>3 DEF IInv, InQueue, QueueSound, NodeSound, OneRunner
<1>5. Phase(t) = "ready" /\ Phase(t)' = "running"
  BY <1>2, <1>3, <1>4, PhaseValues, PhaseValuesNext
<1>6. \A x \in Tasks \ {t} : Phase(x)' = Phase(x)
  BY <1>2, <1>3, PhaseKept DEF IInv
<1>7. QED
  BY <1>5, <1>6, PhaseMove DEF Lifecycle!Dispatch

LEMMA ParkOrRequeuePhase ==
  ASSUME IInv, IInv', NEW th \in Threads, ParkOrRequeue(th)
  PROVE  \E t \in Tasks : Lifecycle!Block(t) \/ Lifecycle!Yield(t)
<1>1. /\ UNCHANGED <<spawned, state>>
      /\ frame[th].pc = "suspended" /\ ~At(th, "idle")
  BY DEF ParkOrRequeue, At
<1>2. PICK t \in Tasks : /\ t = frame[th].task /\ ~InQueue(t) /\ park[t] # "PARKED"
                         /\ FrameSound(frame[th])
  BY <1>1, LeaveFacts DEF ParkOrRequeue
<1>3. t \in spawned /\ state[t] = 0
  BY <1>1, <1>2 DEF FrameSound
<1>4. Phase(t) = "running"
  BY <1>2, <1>3, PhaseValues
<1>5. CASE park[t] = "WAKE"
  <2>1. queue' = Append(queue, Node(t, "resume")) /\ park' = [park EXCEPT ![t] = "RUNNING"]
    BY <1>2, <1>5 DEF ParkOrRequeue
  <2>2. \A x \in Tasks : InQueue(x)' <=> InQueue(x) \/ x = t
    BY <2>1, PushFacts DEF IInv
  <2>3. Phase(t)' = "ready"
    BY <1>1, <1>3, <2>2, PhaseValuesNext
  <2>4. \A x \in Tasks \ {t} : Phase(x)' = Phase(x)
    BY <1>1, <2>1, <2>2, PhaseKept DEF IInv, TypeOK
  <2>5. QED
    BY <1>4, <2>3, <2>4, PhaseMove DEF Lifecycle!Yield
<1>6. CASE park[t] # "WAKE"
  <2>1. queue' = queue /\ park' = [park EXCEPT ![t] = "PARKED"]
    BY <1>2, <1>6 DEF ParkOrRequeue
  <2>2. \A x \in Tasks : InQueue(x)' <=> InQueue(x)
    BY <2>1 DEF InQueue
  <2>3. Phase(t)' = "blocked"
    BY <1>1, <1>2, <1>3, <2>1, <2>2, PhaseValuesNext DEF IInv, TypeOK
  <2>4. \A x \in Tasks \ {t} : Phase(x)' = Phase(x)
    BY <1>1, <2>1, <2>2, PhaseKept DEF IInv, TypeOK
  <2>5. QED
    BY <1>4, <2>3, <2>4, PhaseMove DEF Lifecycle!Block
<1>7. QED
  BY <1>5, <1>6

LEMMA SignalStatePhase ==
  ASSUME IInv, IInv', NEW th \in Threads, SignalState(th)
  PROVE  \E t \in Tasks : Lifecycle!Complete(t)
<1>1. /\ "signalled" \in Pcs \ {"idle"} /\ ~At(th, "idle") /\ Goto(th, "signalled")
      /\ UNCHANGED <<spawned, park, queue>> /\ frame[th].pc = "finished"
  BY DEF SignalState, At, Pcs
<1>2. PICK t \in Tasks : /\ t = frame[th].task /\ park[t] # "PARKED"
                         /\ FrameSound(frame[th]) /\ InFrame(t)
  BY <1>1, AdvanceFacts DEF InFrame
<1>3. t \in spawned /\ state[t] = 0 /\ ~InQueue(t)
  BY <1>1, <1>2 DEF FrameSound, IInv, OneRunner
<1>4. state'[t] = 1 /\ \A x \in Tasks \ {t} : state'[x] = state[x]
  BY <1>2 DEF SignalState, IInv, TypeOK
<1>5. Phase(t) = "running" /\ Phase(t)' = "done"
  BY <1>1, <1>2, <1>3, <1>4, PhaseValues, PhaseValuesNext
<1>6. \A x \in Tasks \ {t} : Phase(x)' = Phase(x)
  BY <1>1, <1>4, PhaseKept DEF IInv, InQueue
<1>7. QED
  BY <1>5, <1>6, PhaseMove DEF Lifecycle!Complete

LEMMA QuietPhase ==
  ASSUME IInv, NEW th \in Threads,
         \/ BeginStep(th) \/ ArmIo(th) \/ Disarm(th) \/ Suspend(th) \/ Finish(th)
         \/ FireBegin(th) \/ FireEnd(th) \/ EndStep(th)
         \/ \E u \in Tasks : ArmComplete(th, u)
  PROVE  UNCHANGED [t \in Tasks |-> Phase(t)]
<1>1. UNCHANGED <<spawned, state, queue>>
  BY DEF BeginStep, ArmIo, Disarm, ArmComplete, Suspend, Finish, FireBegin, FireEnd, EndStep
<1>2. \A t \in Tasks : park'[t] = "PARKED" <=> park[t] = "PARKED"
  <2>1. CASE BeginStep(th)
    <3>1. frame[th].task \in Tasks /\ InFrame(frame[th].task)
      BY <2>1 DEF BeginStep, At, IInv, TypeOK, InFrame
    <3>2. park[frame[th].task] # "PARKED"
      BY <3>1 DEF IInv, OneRunner
    <3>3. QED
      BY <2>1, <3>1, <3>2 DEF BeginStep, IInv, TypeOK
  <2>2. CASE ~BeginStep(th)
    BY <2>2 DEF ArmIo, Disarm, ArmComplete, Suspend, Finish, FireBegin, FireEnd, EndStep
  <2>3. QED
    BY <2>1, <2>2
<1>3. QED
  BY <1>1, <1>2, PhaseStutter DEF IInv

LEMMA RefinementStep ==
  IInv /\ IInv' /\ [Next]_vars => [Lifecycle!Next]_([t \in Tasks |-> Phase(t)])
<1> SUFFICES ASSUME IInv, IInv', [Next]_vars
             PROVE  Lifecycle!Next \/ UNCHANGED [t \in Tasks |-> Phase(t)]
  OBVIOUS
<1> USE DEF Lifecycle!Next
<1>1. ASSUME NEW t \in Tasks, Submit(t) PROVE Lifecycle!Next
  BY <1>1, SubmitPhase
<1>2. ASSUME NEW t \in IoTasks, IoWake(t) \/ StrayWake(t)
      PROVE Lifecycle!Next \/ UNCHANGED [x \in Tasks |-> Phase(x)]
  <2>1. t \in Tasks /\ MakeRunnable(t) /\ UNCHANGED <<spawned, state>>
    BY <1>2, IoTasksAreTasks DEF IoWake, StrayWake
  <2>2. QED
    BY <2>1, WakePhase
<1>3. ASSUME NEW t \in IoTasks, IoDeliver(t) PROVE UNCHANGED [x \in Tasks |-> Phase(x)]
  BY <1>3, PhaseStutter DEF IoDeliver, IInv
<1>4. ASSUME NEW th \in Threads, Pop(th) PROVE Lifecycle!Next
  BY <1>4, PopPhase
<1>5. ASSUME NEW th \in Threads, ParkOrRequeue(th) PROVE Lifecycle!Next
  BY <1>5, ParkOrRequeuePhase
<1>6. ASSUME NEW th \in Threads, SignalState(th) PROVE Lifecycle!Next
  BY <1>6, SignalStatePhase
<1>7. ASSUME NEW th \in Threads, NEW t \in Tasks, FireOne(th, t)
      PROVE Lifecycle!Next \/ UNCHANGED [x \in Tasks |-> Phase(x)]
  <2>1. MakeRunnable(t) /\ UNCHANGED <<spawned, state>>
    BY <1>7 DEF FireOne
  <2>2. QED
    BY <2>1, WakePhase
<1>8. ASSUME NEW th \in Threads,
             \/ BeginStep(th) \/ ArmIo(th) \/ Disarm(th) \/ Suspend(th) \/ Finish(th)
             \/ FireBegin(th) \/ FireEnd(th) \/ EndStep(th)
             \/ \E u \in Tasks : ArmComplete(th, u)
      PROVE UNCHANGED [x \in Tasks |-> Phase(x)]
  BY <1>8, QuietPhase
<1>9. CASE UNCHANGED vars
  BY <1>9, PhaseStutter DEF vars, IInv
<1>10. QED
  BY <1>1, <1>2, <1>3, <1>4, <1>5, <1>6, <1>7, <1>8, <1>9 DEF Next

(* The scheduler keeps the promise of TaskLifecycle: a task is submitted   *)
(* once, blocks and wakes any number of times, completes once, and never   *)
(* runs again.                                                             *)
THEOREM LifecycleImplemented == Spec => ImplementsLifecycle
<1>1. Init => Lifecycle!Init
  <2> SUFFICES ASSUME Init PROVE Lifecycle!Init
    OBVIOUS
  <2>1. \A t \in Tasks : Phase(t) = "new"
    BY PhaseValues DEF Init
  <2>2. QED
    BY <2>1 DEF Lifecycle!Init
<1>2. QED
  BY <1>1, RefinementStep, InductiveInvariant, PTL
     DEF Spec, ImplementsLifecycle, Lifecycle!Spec
=============================================================================
