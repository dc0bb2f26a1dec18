--------------------------- MODULE RunQueue_proofs ---------------------------
(***************************************************************************)
(* Proofs about RunQueue, for any tasks, workers and program: types,       *)
(* NoSleepOnDone and ShutdownDrains; NoBuriedWait for the programs whose   *)
(* tasks never wait once they have suspended, and NoSleepOnWork for those  *)
(* that never use the bounded wait.  NestedDispatch and RunQueueTimedLost  *)
(* show what the others meet.                                              *)
(***************************************************************************)
EXTENDS RunQueue, SequenceTheorems, TLAPS

Runs(th, i, t) == i \in 1..Len(stack[th]) /\ stack[th][i] = Doing("run", t)

WaitOps == {"wait", "poll", "timed"}
Waits(th, i, t) ==
  i \in 1..Len(stack[th]) /\ stack[th][i].op \in WaitOps /\ stack[th][i].task = t

(* What leads up to a shutdown: main waits for nobody once it joins, only  *)
(* a worker that is up runs anything, nobody leaves before the flag is     *)
(* set, the first submit starts the pool, whoever leaves it leaves no      *)
(* queue to nobody, and main stops when all have left.                     *)
Leaving ==
  /\ shutdown <=> main # "running"
  /\ shutdown => stack[Main] = <<>>
  /\ \A w \in Workers : stack[w] # <<>> => pool[w] = "up"
  /\ ~shutdown => \A w \in Workers : pool[w] # "exited"
  /\ (\E t \in Tasks : life[t] # "new") => \A w \in Workers : pool[w] # "unborn"
  /\ \A th \in Threads : stack[th] # <<>> => \E t \in Tasks : life[t] # "new"
  /\ queue # <<>> => (\E t \in Tasks : life[t] # "new") /\ \E w \in Workers : pool[w] = "up"
  /\ main = "stopped" => \A w \in Workers : pool[w] # "up"

IInv == TypeOK /\ NoSleepOnDone /\ Leaving

-----------------------------------------------------------------------------
(* Stacks.                                                                 *)
LEMMA DoingType == ASSUME NEW op \in Ops, NEW t \in Tasks
                   PROVE Doing(op, t) \in Activity /\ Doing(op, t).op = op /\ Doing(op, t).task = t
BY DEF Doing, Activity

LEMMA AppendFacts ==
  ASSUME NEW s \in Seq(Activity), NEW x \in Activity
  PROVE  /\ Append(s, x) \in Seq(Activity) /\ Append(s, x) # <<>>
         /\ Len(Append(s, x)) = Len(s) + 1 /\ Append(s, x)[Len(s) + 1] = x
         /\ \A i \in 1..Len(s) : Append(s, x)[i] = s[i]
OBVIOUS

LEMMA FrontFacts ==
  ASSUME NEW s \in Seq(Activity), s # <<>>, NEW f, f = SubSeq(s, 1, Len(s) - 1)
  PROVE  /\ f \in Seq(Activity) /\ Len(f) = Len(s) - 1 /\ Len(s) \in Nat \ {0}
         /\ \A i \in 1..Len(f) : f[i] = s[i]
<1>1. Len(s) \in Nat \ {0} BY EmptySeq
<1>2. 1 \in Int /\ Len(s) - 1 \in Int BY <1>1
<1>3. \A i \in 1..Len(s) - 1 : s[i] \in Activity
  <2> TAKE i \in 1..Len(s) - 1
  <2>1. i \in 1..Len(s) BY <1>1
  <2> QED BY <2>1, ElementOfSeq
<1>4. /\ f \in Seq(Activity)
      /\ Len(f) = IF 1 <= Len(s) - 1 THEN Len(s) - 1 - 1 + 1 ELSE 0
      /\ \A i \in 1..Len(s) - 1 - 1 + 1 : f[i] = s[1 + i - 1]
  BY <1>2, <1>3, SubSeqProperties
<1> DEFINE n == Len(s)
<1>5. Len(f) = Len(s) - 1
  <2>1. n \in Nat \ {0} BY <1>1
  <2>2. Len(f) = IF 1 <= n - 1 THEN n - 1 - 1 + 1 ELSE 0 BY <1>4
  <2> HIDE DEF n
  <2>3. (IF 1 <= n - 1 THEN n - 1 - 1 + 1 ELSE 0) = n - 1 BY <2>1
  <2> QED BY <2>2, <2>3 DEF n
<1>6. \A i \in 1..Len(f) : f[i] = s[i]
  <2> TAKE i \in 1..Len(f)
  <2>1. i \in 1..Len(s) - 1 - 1 + 1 /\ 1 + i - 1 = i BY <1>1, <1>5
  <2> QED BY <1>4, <2>1
<1> QED BY <1>1, <1>4, <1>5, <1>6

(* The newest activity of a thread whose stack becomes s; the others keep  *)
(* theirs.                                                                 *)
LEMMA NewStack ==
  ASSUME TypeOK, NEW th \in Threads, NEW s \in Seq(Activity), stack' = [stack EXCEPT ![th] = s]
  PROVE  /\ stack' \in [Threads -> Seq(Activity)] /\ stack'[th] = s
         /\ \A x \in Threads \ {th} :
              /\ stack'[x] = stack[x]
              /\ \A op, t : Is(x, op, t)' <=> Is(x, op, t)
              /\ \A ops : IsAny(x, ops)' <=> IsAny(x, ops)
BY DEF TypeOK, Is, IsAny

LEMMA StartFacts ==
  ASSUME TypeOK, NEW th \in Threads, NEW op \in Ops, NEW t \in Tasks, Start(th, op, t)
  PROVE  /\ stack' \in [Threads -> Seq(Activity)] /\ stack'[th] # <<>>
         /\ \A o, u : Is(th, o, u)' <=> o = op /\ u = t
         /\ \A ops : IsAny(th, ops)' <=> op \in ops
         /\ \A x \in Threads \ {th} :
              /\ stack'[x] = stack[x]
              /\ \A o, u : Is(x, o, u)' <=> Is(x, o, u)
              /\ \A ops : IsAny(x, ops)' <=> IsAny(x, ops)
<1>1. stack[th] \in Seq(Activity) BY DEF TypeOK
<1> DEFINE s == Append(stack[th], Doing(op, t))
<1>2. /\ s \in Seq(Activity) /\ s # <<>> /\ Len(s) = Len(stack[th]) + 1
      /\ s[Len(stack[th]) + 1] = Doing(op, t)
  BY <1>1, DoingType, AppendFacts
<1>3. stack' = [stack EXCEPT ![th] = s] BY DEF Start
<1> HIDE DEF s
<1>4. stack' \in [Threads -> Seq(Activity)] /\ stack'[th] = s BY <1>2, <1>3, NewStack
<1>5. \A o, u : Is(th, o, u)' <=> o = op /\ u = t BY <1>2, <1>4 DEF Is, Doing
<1>6. \A ops : IsAny(th, ops)' <=> op \in ops BY <1>2, <1>4 DEF IsAny, Doing
<1> QED BY <1>2, <1>3, <1>4, <1>5, <1>6, NewStack

LEMMA BecomeFacts ==
  ASSUME TypeOK, NEW th \in Threads, NEW op \in Ops, NEW t \in Tasks, Become(th, op, t),
         stack[th] # <<>>
  PROVE  /\ stack' \in [Threads -> Seq(Activity)] /\ stack'[th] # <<>>
         /\ \A o, u : Is(th, o, u)' <=> o = op /\ u = t
         /\ \A ops : IsAny(th, ops)' <=> op \in ops
         /\ \A x \in Threads \ {th} :
              /\ stack'[x] = stack[x]
              /\ \A o, u : Is(x, o, u)' <=> Is(x, o, u)
              /\ \A ops : IsAny(x, ops)' <=> IsAny(x, ops)
<1>1. Below(th) \in Seq(Activity) BY FrontFacts DEF TypeOK, Below
<1> DEFINE s == Append(Below(th), Doing(op, t))
<1>2. /\ s \in Seq(Activity) /\ s # <<>> /\ Len(s) = Len(Below(th)) + 1
      /\ s[Len(Below(th)) + 1] = Doing(op, t)
  BY <1>1, DoingType, AppendFacts
<1>3. stack' = [stack EXCEPT ![th] = s] BY DEF Become
<1> HIDE DEF s
<1>4. stack' \in [Threads -> Seq(Activity)] /\ stack'[th] = s BY <1>2, <1>3, NewStack
<1>5. \A o, u : Is(th, o, u)' <=> o = op /\ u = t BY <1>2, <1>4 DEF Is, Doing
<1>6. \A ops : IsAny(th, ops)' <=> op \in ops BY <1>2, <1>4 DEF IsAny, Doing
<1> QED BY <1>2, <1>3, <1>4, <1>5, <1>6, NewStack

LEMMA EndFacts ==
  ASSUME TypeOK, NEW th \in Threads, End(th), stack[th] # <<>>
  PROVE  /\ stack' \in [Threads -> Seq(Activity)]
         /\ \A x \in Threads \ {th} :
              /\ stack'[x] = stack[x]
              /\ \A o, u : Is(x, o, u)' <=> Is(x, o, u)
              /\ \A ops : IsAny(x, ops)' <=> IsAny(x, ops)
<1>1. Below(th) \in Seq(Activity) BY FrontFacts DEF TypeOK, Below
<1> QED BY <1>1, NewStack DEF End

(* The newest activity of a thread is one.                                 *)
LEMMA OneTop ==
  ASSUME NEW th, NEW op, NEW t, Is(th, op, t)
  PROVE  /\ stack[th] # <<>> /\ (\A o, u : Is(th, o, u) <=> o = op /\ u = t)
         /\ \A ops : IsAny(th, ops) <=> op \in ops
BY DEF Is, IsAny, Doing

(* The code that calls runs on a thread that is awake, on top of a step or *)
(* on an empty stack.                                                      *)
LEMMA CodeFacts ==
  ASSUME TypeOK, NEW th \in Threads, NEW c, Code(th, c)
  PROVE  /\ th \notin asleep
         /\ \A op, t : Is(th, op, t) => op = "run"
         /\ th \in Workers => stack[th] # <<>>
         /\ th = Main /\ stack[th] = <<>> => main = "running"
<1>1. CASE Is(th, "run", c)
  BY <1>1, OneTop DEF TypeOK
<1>2. CASE th = Main /\ stack[Main] = <<>> /\ main = "running"
  BY <1>2, RunQueueAssumption DEF TypeOK, IsAny, Is
<1> QED BY <1>1, <1>2 DEF Code

(* Taking a task, from a wait: the wait looks again later, and the step of *)
(* the task is on top of it.                                               *)
LEMMA WaitPopFacts ==
  ASSUME TypeOK, NEW th \in Threads, NEW t \in Tasks, WaitPop(th, t)
  PROVE  /\ stack' \in [Threads -> Seq(Activity)] /\ stack'[th] # <<>>
         /\ Len(stack'[th]) = Len(stack[th]) + 1
         /\ \A i \in 1..Len(stack[th]) - 1 : stack'[th][i] = stack[th][i]
         /\ stack'[th][Len(stack[th])] = Doing("wait", t)
         /\ stack'[th][Len(stack[th]) + 1] = Doing("run", Head(queue))
         /\ \A o, u : Is(th, o, u)' <=> o = "run" /\ u = Head(queue)
         /\ \A ops : IsAny(th, ops)' <=> "run" \in ops
         /\ \A x \in Threads \ {th} :
              /\ stack'[x] = stack[x]
              /\ \A o, u : Is(x, o, u)' <=> Is(x, o, u)
              /\ \A ops : IsAny(x, ops)' <=> IsAny(x, ops)
<1> DEFINE x == Doing("wait", t)
           y == Doing("run", Head(queue))
           s == Append(Append(Below(th), x), y)
<1>1. stack[th] \in Seq(Activity) /\ stack[th] # <<>> BY DEF TypeOK, WaitPop, Is
<1>2. /\ Below(th) \in Seq(Activity) /\ Len(Below(th)) = Len(stack[th]) - 1
      /\ Len(stack[th]) \in Nat \ {0}
      /\ \A i \in 1..Len(Below(th)) : Below(th)[i] = stack[th][i]
  BY <1>1, FrontFacts DEF Below
<1>3. Head(queue) \in Tasks BY DEF TypeOK, WaitPop, Dispatch
<1>4. x \in Activity /\ y \in Activity BY <1>3, DoingType DEF Ops
<1>5. Below(th) \o <<x, y>> = s
  <2> HIDE DEF x, y
  <2> DEFINE b == Below(th)
  <2>1. b \in Seq(Activity) BY <1>2
  <2> HIDE DEF b
  <2>2. b \o <<x, y>> = Append(Append(b, x), y) BY <2>1, <1>4
  <2> QED BY <2>2 DEF b
<1>6. stack' = [stack EXCEPT ![th] = s] BY <1>5 DEF WaitPop
<1> DEFINE m == Append(Below(th), x)
<1>7. /\ m \in Seq(Activity) /\ Len(m) = Len(stack[th]) /\ m[Len(stack[th])] = x
      /\ \A i \in 1..Len(Below(th)) : m[i] = Below(th)[i]
  BY <1>2, <1>4, AppendFacts
<1> HIDE DEF m, x, y
<1>8. /\ s \in Seq(Activity) /\ s # <<>> /\ Len(s) = Len(stack[th]) + 1
      /\ s[Len(stack[th]) + 1] = y
      /\ \A i \in 1..Len(stack[th]) : s[i] = m[i]
  BY <1>4, <1>7, AppendFacts DEF m
<1> HIDE DEF s
<1>9. stack' \in [Threads -> Seq(Activity)] /\ stack'[th] = s BY <1>8, <1>6, NewStack
<1>10. \A i \in 1..Len(stack[th]) - 1 : s[i] = stack[th][i] BY <1>2, <1>7, <1>8
<1>11. s[Len(stack[th])] = x BY <1>2, <1>7, <1>8
<1>12. \A o, u : Is(th, o, u)' <=> o = "run" /\ u = Head(queue)
  BY <1>8, <1>9 DEF Is, Doing, y
<1>13. \A ops : IsAny(th, ops)' <=> "run" \in ops BY <1>8, <1>9 DEF IsAny, Doing, y
<1> QED BY <1>6, <1>8, <1>9, <1>10, <1>11, <1>12, <1>13, NewStack DEF x, y

-----------------------------------------------------------------------------
(* The queue.                                                              *)
LEMMA PushFacts ==
  ASSUME TypeOK, NEW t \in Tasks, Push(t)
  PROVE  /\ queue' \in Seq(Tasks) /\ queue' # <<>>
         /\ asleep' \subseteq asleep
         /\ pool' \in [Workers -> {"unborn", "up", "exited"}]
         /\ \A w \in Workers : pool'[w] = IF pool[w] = "unborn" THEN "up" ELSE pool[w]
BY DEF TypeOK, Push

LEMMA DispatchFacts ==
  ASSUME TypeOK, NEW th, Dispatch(th)
  PROVE  Head(queue) \in Tasks /\ queue' \in Seq(Tasks)
BY DEF TypeOK, Dispatch

(* What TypeOK says of the sleepers is kept by a thread that is awake, and *)
(* by one that goes to sleep in a wait, while the others keep their        *)
(* stacks.                                                                 *)
LEMMA SleepersKept ==
  ASSUME TypeOK, NEW th \in Threads,
         \A x \in Threads \ {th} : /\ stack'[x] = stack[x]
                                   /\ \A ops : IsAny(x, ops)' <=> IsAny(x, ops),
         asleep' \subseteq asleep \cup {th}, th \in asleep' => IsAny(th, {"wait", "timed"})',
         \A w \in Workers : pool[w] = "up" => pool'[w] = "up"
  PROVE  \A x \in asleep' : \/ IsAny(x, {"wait", "timed"})'
                            \/ x \in Workers /\ stack'[x] = <<>> /\ pool'[x] = "up"
BY DEF TypeOK

LEMMA TypeStep == ASSUME TypeOK, Next PROVE TypeOK'
<1>1. ASSUME NEW th \in Threads, NEW t \in Tasks, NEW c, Submit(th, c, t) PROVE TypeOK'
  BY <1>1, PushFacts DEF TypeOK, Submit, IsAny
<1>2. ASSUME NEW th \in Threads, NEW t \in Tasks, NEW c, WaitCall(th, c, t) PROVE TypeOK'
  <2>1. th \notin asleep /\ Start(th, "wait", t) BY <1>2, CodeFacts DEF WaitCall
  <2> QED BY <1>2, <2>1, StartFacts, SleepersKept DEF TypeOK, WaitCall, Ops
<1>3. ASSUME NEW th \in Threads, NEW t \in Tasks, NEW c, TimedCall(th, c, t) PROVE TypeOK'
  <2>1. th \notin asleep /\ Start(th, "timed", t) BY <1>3, CodeFacts DEF TimedCall
  <2>2. asleep' = asleep /\ pool' = pool BY <1>3 DEF TimedCall
  <2>3. \A x \in asleep' : \/ IsAny(x, {"wait", "timed"})'
                           \/ x \in Workers /\ stack'[x] = <<>> /\ pool'[x] = "up"
    BY <2>1, <2>2, StartFacts, SleepersKept DEF Ops
  <2>4. stack' \in [Threads -> Seq(Activity)] BY <2>1, StartFacts DEF Ops
  <2> QED BY <1>3, <2>3, <2>4 DEF TypeOK, TimedCall
<1>4. ASSUME NEW th \in Threads, NEW t \in Tasks, NEW c, Cancel(th, c, t) PROVE TypeOK'
  <2>1. th \notin asleep /\ Start(th, "cancel", t) BY <1>4, CodeFacts DEF Cancel
  <2>2. asleep' = asleep /\ pool' = pool BY <1>4 DEF Cancel
  <2>3. \A x \in asleep' : \/ IsAny(x, {"wait", "timed"})'
                           \/ x \in Workers /\ stack'[x] = <<>> /\ pool'[x] = "up"
    BY <2>1, <2>2, StartFacts, SleepersKept DEF Ops
  <2>4. stack' \in [Threads -> Seq(Activity)] BY <2>1, StartFacts DEF Ops
  <2> QED BY <1>4, <2>3, <2>4 DEF TypeOK, Cancel
<1>5. ASSUME NEW th \in Threads, NEW t \in Tasks, WaitCheck(th, t) PROVE TypeOK'
  <2>1. th \notin asleep /\ stack[th] # <<>> BY <1>5 DEF WaitCheck, Is, Awake
  <2>2. CASE End(th) BY <1>5, <2>1, <2>2, EndFacts, SleepersKept DEF TypeOK, WaitCheck
  <2>3. CASE Become(th, "poll", t)
    <3>1. stack' \in [Threads -> Seq(Activity)] BY <2>1, <2>3, BecomeFacts DEF Ops
    <3>2. asleep' = asleep /\ pool' = pool BY <1>5 DEF WaitCheck
    <3>3. \A x \in asleep' : \/ IsAny(x, {"wait", "timed"})'
                             \/ x \in Workers /\ stack'[x] = <<>> /\ pool'[x] = "up"
      <4>1. \A x \in Threads \ {th} : /\ stack'[x] = stack[x]
                                      /\ \A ops : IsAny(x, ops)' <=> IsAny(x, ops)
        BY <2>1, <2>3, BecomeFacts DEF Ops
      <4>2. /\ asleep' \subseteq asleep \cup {th} /\ th \notin asleep'
            /\ \A w \in Workers : pool[w] = "up" => pool'[w] = "up"
        BY <2>1, <3>2
      <4> QED BY <4>1, <4>2, SleepersKept
    <3> QED BY <1>5, <3>1, <3>3 DEF TypeOK, WaitCheck
  <2> QED BY <1>5, <2>2, <2>3 DEF WaitCheck
<1>6. ASSUME NEW th \in Threads, NEW t \in Tasks, WaitPop(th, t) PROVE TypeOK'
  <2>1. th \notin asleep
    <3>1. Is(th, "poll", t) BY <1>6 DEF WaitPop
    <3> QED BY <3>1, OneTop DEF TypeOK
  <2>2. Head(queue) \in Tasks /\ queue' \in Seq(Tasks) BY <1>6, DispatchFacts DEF WaitPop
  <2> QED BY <1>6, <2>1, <2>2, WaitPopFacts, SleepersKept DEF TypeOK, WaitPop, Dispatch
<1>7. ASSUME NEW th \in Threads, NEW t \in Tasks, WaitSleep(th, t) PROVE TypeOK'
  <2>1. th \notin asleep /\ stack[th] # <<>> BY <1>7, OneTop DEF WaitSleep, TypeOK
  <2>2. CASE End(th) /\ UNCHANGED asleep
    BY <1>7, <2>1, <2>2, EndFacts, SleepersKept DEF TypeOK, WaitSleep
  <2>3. CASE Become(th, "wait", t) /\ asleep' = asleep \cup {th}
    <3>1. stack' \in [Threads -> Seq(Activity)] BY <2>1, <2>3, BecomeFacts DEF Ops
    <3>2. asleep' = asleep \cup {th} /\ pool' = pool BY <1>7, <2>3 DEF WaitSleep
    <3>3. IsAny(th, {"wait", "timed"})' BY <2>1, <2>3, BecomeFacts DEF Ops
    <3>4. \A x \in asleep' : \/ IsAny(x, {"wait", "timed"})'
                             \/ x \in Workers /\ stack'[x] = <<>> /\ pool'[x] = "up"
      <4>1. \A x \in Threads \ {th} : /\ stack'[x] = stack[x]
                                      /\ \A ops : IsAny(x, ops)' <=> IsAny(x, ops)
        BY <2>1, <2>3, BecomeFacts DEF Ops
      <4>2. /\ asleep' \subseteq asleep \cup {th}
            /\ \A w \in Workers : pool[w] = "up" => pool'[w] = "up"
        BY <3>2
      <4> QED BY <3>3, <4>1, <4>2, SleepersKept
    <3> QED BY <1>7, <3>1, <3>2, <3>4 DEF TypeOK, WaitSleep
  <2> QED BY <1>7, <2>2, <2>3 DEF WaitSleep
<1>8. ASSUME NEW th \in Threads, NEW t \in Tasks, TimedSleep(th, t) PROVE TypeOK'
  <2>1. Is(th, "timed", t) /\ stack' = stack BY <1>8 DEF TimedSleep
  <2>2. IsAny(th, {"wait", "timed"}) BY <2>1, OneTop
  <2>3. IsAny(th, {"wait", "timed"})' BY <2>1, <2>2 DEF IsAny
  <2> QED BY <1>8, <2>3, SleepersKept DEF TypeOK, TimedSleep, IsAny
<1>9. ASSUME NEW th \in Threads, NEW t \in Tasks, TimedReturn(th, t) PROVE TypeOK'
  <2>1. End(th) /\ stack[th] # <<>> BY <1>9, OneTop DEF TimedReturn
  <2> QED BY <1>9, <2>1, EndFacts, SleepersKept DEF TypeOK, TimedReturn
<1>10. ASSUME NEW th \in Threads, NEW t \in Tasks, CancelBroadcast(th, t) PROVE TypeOK'
  <2>1. End(th) /\ stack[th] # <<>> BY <1>10, OneTop DEF CancelBroadcast
  <2> QED BY <1>10, <2>1, EndFacts DEF TypeOK, CancelBroadcast
<1>11. ASSUME NEW th \in Threads, NEW t \in Tasks, Suspend(th, t) PROVE TypeOK'
  <2>1. End(th) /\ stack[th] # <<>> /\ th \notin asleep BY <1>11, OneTop DEF Suspend, TypeOK
  <2> QED BY <1>11, <2>1, EndFacts, SleepersKept DEF TypeOK, Suspend
<1>12. ASSUME NEW th \in Threads, NEW t \in Tasks, Requeue(th, t) PROVE TypeOK'
  <2>1. End(th) /\ stack[th] # <<>> /\ th \notin asleep BY <1>12, OneTop DEF Requeue, TypeOK
  <2>2. stack' \in [Threads -> Seq(Activity)] BY <2>1, EndFacts
  <2>3. /\ queue' \in Seq(Tasks) /\ asleep' \subseteq asleep
        /\ pool' \in [Workers -> {"unborn", "up", "exited"}]
        /\ \A w \in Workers : pool[w] = "up" => pool'[w] = "up"
    BY <1>12, PushFacts DEF Requeue
  <2>4. \A x \in asleep' : \/ IsAny(x, {"wait", "timed"})'
                           \/ x \in Workers /\ stack'[x] = <<>> /\ pool'[x] = "up"
    <3>1. th \notin asleep' BY <2>1, <2>3
    <3> QED BY <2>1, <2>3, <3>1, EndFacts, SleepersKept
  <2> QED BY <1>12, <2>2, <2>3, <2>4 DEF TypeOK, Requeue
<1>13. ASSUME NEW th \in Threads, NEW t \in Tasks, Finish(th, t) PROVE TypeOK'
  <2>1. Become(th, "signal", t) /\ stack[th] # <<>> /\ th \notin asleep
    BY <1>13, OneTop DEF Finish, TypeOK
  <2>2. stack' \in [Threads -> Seq(Activity)] BY <2>1, BecomeFacts DEF Ops
  <2>3. asleep' = asleep /\ pool' = pool BY <1>13 DEF Finish
  <2>4. \A x \in asleep' : \/ IsAny(x, {"wait", "timed"})'
                           \/ x \in Workers /\ stack'[x] = <<>> /\ pool'[x] = "up"
    BY <2>1, <2>3, BecomeFacts, SleepersKept DEF Ops
  <2> QED BY <1>13, <2>2, <2>4 DEF TypeOK, Finish
<1>14. ASSUME NEW th \in Threads, NEW t \in Tasks, SignalDone(th, t) PROVE TypeOK'
  <2>1. End(th) /\ stack[th] # <<>> BY <1>14, OneTop DEF SignalDone
  <2>2. stack' \in [Threads -> Seq(Activity)] BY <2>1, EndFacts
  <2>3. /\ queue' \in Seq(Tasks)
        /\ life' \in [Tasks -> {"new", "queued", "running", "parked", "done"}]
    <3>1. CASE UNCHANGED <<queue, life>> BY <3>1 DEF TypeOK
    <3>2. ASSUME NEW j \in Tasks, queue' = Append(queue, j), life' = [life EXCEPT ![j] = "queued"]
          PROVE  /\ queue' \in Seq(Tasks)
                 /\ life' \in [Tasks -> {"new", "queued", "running", "parked", "done"}]
      BY <3>2 DEF TypeOK
    <3> QED BY <1>14, <3>1, <3>2 DEF SignalDone
  <2> QED BY <1>14, <2>2, <2>3 DEF TypeOK, SignalDone
<1>15. ASSUME NEW w \in Workers, WorkerPop(w) PROVE TypeOK'
  <2>1. Head(queue) \in Tasks /\ queue' \in Seq(Tasks) BY <1>15, DispatchFacts DEF WorkerPop
  <2>2. w \in Threads /\ w \notin asleep /\ Start(w, "run", Head(queue))
    BY <1>15 DEF WorkerPop, AtLoop, Awake, Threads
  <2>3. asleep' = asleep /\ pool' = pool BY <1>15 DEF WorkerPop, Dispatch
  <2>4. stack' \in [Threads -> Seq(Activity)] BY <2>1, <2>2, StartFacts DEF Ops
  <2>5. \A x \in Threads \ {w} : /\ stack'[x] = stack[x]
                                 /\ \A ops : IsAny(x, ops)' <=> IsAny(x, ops)
    BY <2>1, <2>2, StartFacts DEF Ops
  <2>6. \A x \in asleep' : \/ IsAny(x, {"wait", "timed"})'
                           \/ x \in Workers /\ stack'[x] = <<>> /\ pool'[x] = "up"
    BY <2>2, <2>3, <2>5, SleepersKept
  <2> QED BY <1>15, <2>1, <2>4, <2>6 DEF TypeOK, WorkerPop, Dispatch
<1>16. ASSUME NEW w \in Workers, WorkerSleep(w) PROVE TypeOK'
  BY <1>16 DEF TypeOK, WorkerSleep, AtLoop, Threads, IsAny
<1>17. ASSUME NEW w \in Workers, WorkerExit(w) PROVE TypeOK'
  BY <1>17 DEF TypeOK, WorkerExit, AtLoop, Awake, IsAny
<1>18. ASSUME NEW t \in Tasks, Wake(t) PROVE TypeOK'
  BY <1>18, PushFacts DEF TypeOK, Wake, IsAny
<1>19. ASSUME NEW th \in Threads, SpuriousWake(th) PROVE TypeOK'
  BY <1>19 DEF TypeOK, SpuriousWake, IsAny
<1>20. CASE Shutdown BY <1>20 DEF TypeOK, Shutdown
<1>21. CASE JoinWorkers BY <1>21 DEF TypeOK, JoinWorkers, IsAny
<1> QED
  BY <1>1, <1>2, <1>3, <1>4, <1>5, <1>6, <1>7, <1>8, <1>9, <1>10, <1>11, <1>12, <1>13, <1>14,
     <1>15, <1>16, <1>17, <1>18, <1>19, <1>20, <1>21 DEF Next

-----------------------------------------------------------------------------
(* Completions and cancellations.  Three ways a step leaves nobody asleep  *)
(* on what has happened: nobody's stack changes; one thread moves that     *)
(* owes no broadcast and does not sleep on what has happened; or nobody is *)
(* asleep.                                                                 *)
LEMMA SameStacks ==
  ASSUME TypeOK, NoSleepOnDone, stack' = stack, done' = done, cancelled' = cancelled,
         \A x \in asleep' \ asleep : stack[x] = <<>>
  PROVE  NoSleepOnDone'
BY DEF NoSleepOnDone, Is

LEMMA OneMoves ==
  ASSUME TypeOK, NoSleepOnDone, NEW th \in Threads,
         \A x \in Threads \ {th} : \A o, u : Is(x, o, u)' <=> Is(x, o, u),
         \A u : ~Is(th, "signal", u) /\ ~Is(th, "cancel", u),
         asleep' \subseteq asleep \cup {th}, done' = done, cancelled' = cancelled,
         th \in asleep' => \A u : /\ Is(th, "wait", u)' => u \notin done
                                  /\ Is(th, "timed", u)' => u \notin done \cup cancelled
  PROVE  NoSleepOnDone'
BY DEF NoSleepOnDone, TypeOK

LEMMA CallMoves ==
  ASSUME TypeOK, NoSleepOnDone, NEW th \in Threads, NEW c, Code(th, c),
         NEW op \in Ops, NEW t \in Tasks, Start(th, op, t), asleep' = asleep,
         done' = done, cancelled' = cancelled
  PROVE  NoSleepOnDone'
<1>1. th \notin asleep' /\ \A u : ~Is(th, "signal", u) /\ ~Is(th, "cancel", u) BY CodeFacts
<1>2. \A x \in Threads \ {th} : \A o, u : Is(x, o, u)' <=> Is(x, o, u) BY StartFacts
<1> QED BY <1>1, <1>2, OneMoves

LEMMA NoSleepStep == ASSUME TypeOK, NoSleepOnDone, Next PROVE NoSleepOnDone'
<1>1. ASSUME NEW th \in Threads, NEW t \in Tasks, NEW c, Submit(th, c, t) PROVE NoSleepOnDone'
  <2>1. asleep' \subseteq asleep BY <1>1, PushFacts DEF Submit
  <2> QED BY <1>1, <2>1, SameStacks DEF Submit
<1>2. ASSUME NEW th \in Threads, NEW t \in Tasks, NEW c, WaitCall(th, c, t) PROVE NoSleepOnDone'
  BY <1>2, CallMoves DEF WaitCall, Ops
<1>3. ASSUME NEW th \in Threads, NEW t \in Tasks, NEW c, TimedCall(th, c, t) PROVE NoSleepOnDone'
  BY <1>3, CallMoves DEF TimedCall, Ops
<1>4. ASSUME NEW th \in Threads, NEW t \in Tasks, NEW c, Cancel(th, c, t) PROVE NoSleepOnDone'
  <2>1. Start(th, "cancel", t) /\ "cancel" \in Ops BY <1>4 DEF Cancel, Ops
  <2>2. th \notin asleep /\ \A o, u : Is(th, o, u) => o = "run" BY <1>4, CodeFacts DEF Cancel
  <2>3. Is(th, "cancel", t)' /\ \A x \in Threads \ {th} : \A o, u : Is(x, o, u)' <=> Is(x, o, u)
    BY <2>1, StartFacts
  <2>4. asleep' = asleep /\ done' = done /\ cancelled' = cancelled \cup {t} BY <1>4 DEF Cancel
  <2>5. \A u : ~Is(th, "signal", u) /\ ~Is(th, "cancel", u) BY <2>2
  <2> SUFFICES ASSUME NEW x \in asleep', NEW u \in Tasks
               PROVE  /\ (Is(x, "wait", u)' \/ Is(x, "timed", u)') /\ u \in done' =>
                           \E y \in Threads : Is(y, "signal", u)'
                      /\ Is(x, "timed", u)' /\ u \in cancelled' =>
                           \E y \in Threads : Is(y, "cancel", u)'
    BY DEF NoSleepOnDone
  <2>6. x \in asleep /\ x \in Threads \ {th} BY <2>2, <2>4 DEF TypeOK
  <2>7. \A o : Is(x, o, u)' <=> Is(x, o, u) BY <2>3, <2>6
  <2>8. (Is(x, "wait", u)' \/ Is(x, "timed", u)') /\ u \in done' =>
          \E y \in Threads : Is(y, "signal", u)'
    BY <2>3, <2>4, <2>5, <2>6, <2>7 DEF NoSleepOnDone
  <2>9. Is(x, "timed", u)' /\ u \in cancelled' => \E y \in Threads : Is(y, "cancel", u)'
    BY <2>3, <2>4, <2>5, <2>6, <2>7 DEF NoSleepOnDone
  <2> QED BY <2>8, <2>9
<1>5. ASSUME NEW th \in Threads, NEW t \in Tasks, WaitCheck(th, t) PROVE NoSleepOnDone'
  <2>1. /\ th \notin asleep /\ stack[th] # <<>>
        /\ \A u : ~Is(th, "signal", u) /\ ~Is(th, "cancel", u)
    BY <1>5, OneTop DEF WaitCheck, Awake
  <2>2. \A x \in Threads \ {th} : \A o, u : Is(x, o, u)' <=> Is(x, o, u)
    <3>1. CASE End(th) BY <2>1, <3>1, EndFacts
    <3>2. CASE Become(th, "poll", t) BY <2>1, <3>2, BecomeFacts DEF Ops
    <3> QED BY <1>5, <3>1, <3>2 DEF WaitCheck
  <2>3. asleep' = asleep /\ done' = done /\ cancelled' = cancelled BY <1>5 DEF WaitCheck
  <2> QED BY <2>1, <2>2, <2>3, OneMoves
<1>6. ASSUME NEW th \in Threads, NEW t \in Tasks, WaitPop(th, t) PROVE NoSleepOnDone'
  <2>1. Is(th, "poll", t) BY <1>6 DEF WaitPop
  <2>2. th \notin asleep BY <2>1, OneTop DEF TypeOK
  <2>3. \A u : ~Is(th, "signal", u) /\ ~Is(th, "cancel", u) BY <2>1, OneTop
  <2>4. \A x \in Threads \ {th} : \A o, u : Is(x, o, u)' <=> Is(x, o, u) BY <1>6, WaitPopFacts
  <2>5. asleep' = asleep /\ done' = done /\ cancelled' = cancelled
    BY <1>6 DEF WaitPop, Dispatch
  <2> QED BY <2>2, <2>3, <2>4, <2>5, OneMoves
<1>7. ASSUME NEW th \in Threads, NEW t \in Tasks, WaitSleep(th, t) PROVE NoSleepOnDone'
  <2>1. Is(th, "poll", t) /\ done' = done /\ cancelled' = cancelled BY <1>7 DEF WaitSleep
  <2>2. stack[th] # <<>> /\ \A u : ~Is(th, "signal", u) /\ ~Is(th, "cancel", u) BY <2>1, OneTop
  <2>3. th \notin asleep BY <2>1, OneTop DEF TypeOK
  <2>4. CASE End(th) /\ UNCHANGED asleep
    <3>1. \A x \in Threads \ {th} : \A o, u : Is(x, o, u)' <=> Is(x, o, u)
      BY <2>2, <2>4, EndFacts
    <3> QED BY <2>1, <2>2, <2>3, <2>4, <3>1, OneMoves
  <2>5. CASE t \notin done /\ Become(th, "wait", t) /\ asleep' = asleep \cup {th}
    <3>1. /\ \A x \in Threads \ {th} : \A o, u : Is(x, o, u)' <=> Is(x, o, u)
          /\ \A o, u : Is(th, o, u)' <=> o = "wait" /\ u = t
      BY <2>2, <2>5, BecomeFacts DEF Ops
    <3> QED BY <2>1, <2>2, <2>5, <3>1, OneMoves
  <2> QED BY <1>7, <2>4, <2>5 DEF WaitSleep
<1>8. ASSUME NEW th \in Threads, NEW t \in Tasks, TimedSleep(th, t) PROVE NoSleepOnDone'
  <2>1. Is(th, "timed", t) /\ t \notin done \cup cancelled BY <1>8 DEF TimedSleep
  <2>2. /\ stack' = stack /\ asleep' = asleep \cup {th}
        /\ done' = done /\ cancelled' = cancelled
    BY <1>8 DEF TimedSleep
  <2>3. \A o, u : Is(th, o, u) <=> o = "timed" /\ u = t BY <2>1, OneTop
  <2>4. \A x, o, u : Is(x, o, u)' <=> Is(x, o, u) BY <2>2 DEF Is
  <2> QED BY <2>1, <2>2, <2>3, <2>4, OneMoves
<1>9. ASSUME NEW th \in Threads, NEW t \in Tasks, TimedReturn(th, t) PROVE NoSleepOnDone'
  <2>1. Is(th, "timed", t) /\ End(th) BY <1>9 DEF TimedReturn
  <2>2. /\ stack[th] # <<>>
        /\ \A u : ~Is(th, "signal", u) /\ ~Is(th, "cancel", u)
    BY <2>1, OneTop
  <2>3. \A x \in Threads \ {th} : \A o, u : Is(x, o, u)' <=> Is(x, o, u) BY <2>1, <2>2, EndFacts
  <2>4. asleep' = asleep \ {th} /\ done' = done /\ cancelled' = cancelled BY <1>9 DEF TimedReturn
  <2> QED BY <2>2, <2>3, <2>4, OneMoves
<1>10. ASSUME NEW th \in Threads, NEW t \in Tasks, CancelBroadcast(th, t) PROVE NoSleepOnDone'
  BY <1>10 DEF CancelBroadcast, NoSleepOnDone
<1>11. ASSUME NEW th \in Threads, NEW t \in Tasks, Suspend(th, t) \/ Requeue(th, t)
       PROVE  NoSleepOnDone'
  <2>1. Is(th, "run", t) /\ End(th) BY <1>11 DEF Suspend, Requeue
  <2>2. stack[th] # <<>> /\ \A u : ~Is(th, "signal", u) /\ ~Is(th, "cancel", u) BY <2>1, OneTop
  <2>3. th \notin asleep BY <2>1, OneTop DEF TypeOK
  <2>4. \A x \in Threads \ {th} : \A o, u : Is(x, o, u)' <=> Is(x, o, u) BY <2>1, <2>2, EndFacts
  <2>5. asleep' \subseteq asleep /\ done' = done /\ cancelled' = cancelled
    BY <1>11, PushFacts DEF Suspend, Requeue
  <2> QED BY <2>2, <2>3, <2>4, <2>5, OneMoves
<1>12. ASSUME NEW th \in Threads, NEW t \in Tasks, Finish(th, t) PROVE NoSleepOnDone'
  <2>1. Is(th, "run", t) /\ Become(th, "signal", t) BY <1>12 DEF Finish
  <2>2. stack[th] # <<>> /\ \A o, u : Is(th, o, u) <=> o = "run" /\ u = t BY <2>1, OneTop
  <2>3. th \notin asleep BY <2>1, OneTop DEF TypeOK
  <2>4. Is(th, "signal", t)' /\ \A x \in Threads \ {th} : \A o, u : Is(x, o, u)' <=> Is(x, o, u)
    BY <2>1, <2>2, BecomeFacts DEF Ops
  <2>5. asleep' = asleep /\ done' = done \cup {t} /\ cancelled' = cancelled BY <1>12 DEF Finish
  <2>6. \A u : ~Is(th, "signal", u) /\ ~Is(th, "cancel", u) BY <2>2
  <2> SUFFICES ASSUME NEW x \in asleep', NEW u \in Tasks
               PROVE  /\ (Is(x, "wait", u)' \/ Is(x, "timed", u)') /\ u \in done' =>
                           \E y \in Threads : Is(y, "signal", u)'
                      /\ Is(x, "timed", u)' /\ u \in cancelled' =>
                           \E y \in Threads : Is(y, "cancel", u)'
    BY DEF NoSleepOnDone
  <2>7. x \in asleep /\ x \in Threads \ {th} BY <2>3, <2>5 DEF TypeOK
  <2>8. \A o : Is(x, o, u)' <=> Is(x, o, u) BY <2>4, <2>7
  <2>9. (Is(x, "wait", u)' \/ Is(x, "timed", u)') /\ u \in done' =>
          \E y \in Threads : Is(y, "signal", u)'
    BY <2>4, <2>5, <2>6, <2>7, <2>8 DEF NoSleepOnDone
  <2>10. Is(x, "timed", u)' /\ u \in cancelled' => \E y \in Threads : Is(y, "cancel", u)'
    BY <2>4, <2>5, <2>6, <2>7, <2>8 DEF NoSleepOnDone
  <2> QED BY <2>9, <2>10
<1>13. ASSUME NEW th \in Threads, NEW t \in Tasks, SignalDone(th, t) PROVE NoSleepOnDone'
  BY <1>13 DEF SignalDone, NoSleepOnDone
<1>14. ASSUME NEW w \in Workers, WorkerPop(w) PROVE NoSleepOnDone'
  <2>1. Head(queue) \in Tasks BY <1>14, DispatchFacts DEF WorkerPop
  <2>2. w \in Threads /\ w \notin asleep /\ Start(w, "run", Head(queue)) /\ stack[w] = <<>>
    BY <1>14 DEF WorkerPop, AtLoop, Awake, Threads
  <2>3. \A x \in Threads \ {w} : \A o, u : Is(x, o, u)' <=> Is(x, o, u)
    BY <2>1, <2>2, StartFacts DEF Ops
  <2>4. asleep' = asleep /\ done' = done /\ cancelled' = cancelled BY <1>14 DEF WorkerPop, Dispatch
  <2>5. \A o, u : ~Is(w, o, u) BY <2>2 DEF Is
  <2> QED BY <2>2, <2>3, <2>4, <2>5, OneMoves
<1>15. ASSUME NEW w \in Workers, WorkerSleep(w) \/ WorkerExit(w) PROVE NoSleepOnDone'
  BY <1>15, SameStacks DEF WorkerSleep, WorkerExit, AtLoop
<1>16. ASSUME NEW t \in Tasks, Wake(t) PROVE NoSleepOnDone'
  <2>1. asleep' \subseteq asleep BY <1>16, PushFacts DEF Wake
  <2> QED BY <1>16, <2>1, SameStacks DEF Wake
<1>17. ASSUME NEW th \in Threads, SpuriousWake(th) PROVE NoSleepOnDone'
  BY <1>17, SameStacks DEF SpuriousWake
<1>18. CASE Shutdown \/ JoinWorkers BY <1>18, SameStacks DEF Shutdown, JoinWorkers
<1> QED
  BY <1>1, <1>2, <1>3, <1>4, <1>5, <1>6, <1>7, <1>8, <1>9, <1>10, <1>11, <1>12, <1>13, <1>14,
     <1>15, <1>16, <1>17, <1>18 DEF Next

-----------------------------------------------------------------------------
(* Shutdown.  Whatever runs on a thread, or in main while it runs, keeps   *)
(* Leaving, whether it pushes or not.                                      *)
Live(th) == stack[th] # <<>> \/ (th = Main /\ main = "running")
SomeStarted == \E t \in Tasks : life[t] # "new"

LEMMA LiveMoves ==
  ASSUME TypeOK, Leaving, NEW th \in Threads, Live(th), SomeStarted',
         \A x \in Threads \ {th} : stack'[x] = stack[x],
         \A w \in Workers : /\ pool'[w] # "unborn"
                            /\ pool'[w] = IF pool[w] = "unborn" THEN "up" ELSE pool[w],
         main' = main, shutdown' = shutdown
  PROVE  Leaving'
<1>1. Main \in Threads /\ Main \notin Workers /\ Workers \subseteq Threads
  BY RunQueueAssumption DEF Threads
<1>2. shutdown => th # Main /\ th \in Workers BY DEF Leaving, Live, Threads
<1>3. shutdown' => stack'[Main] = <<>> BY <1>1, <1>2 DEF Leaving
<1>4. \A w \in Workers : stack'[w] # <<>> => pool'[w] = "up" BY <1>1 DEF Leaving, Live
<1>5. \E w \in Workers : pool'[w] = "up"
  <2>1. CASE shutdown BY <1>2, <1>4, <2>1 DEF Leaving, Live
  <2>2. CASE ~shutdown
    <3>1. PICK w \in Workers : TRUE BY RunQueueAssumption
    <3>2. pool[w] # "exited" /\ pool[w] \in {"unborn", "up", "exited"} BY <2>2 DEF Leaving, TypeOK
    <3> QED BY <3>1, <3>2
  <2> QED BY <2>1, <2>2 DEF TypeOK
<1>6. main' = "stopped" => \A w \in Workers : pool'[w] # "up"
  BY <1>1, <1>2 DEF Leaving, Live
<1>7. ~shutdown' => \A w \in Workers : pool'[w] # "exited" BY DEF Leaving
<1> QED BY <1>3, <1>4, <1>5, <1>6, <1>7 DEF Leaving, SomeStarted

(* The same for the steps that leave the pool and the lives of the tasks.  *)
LEMMA LiveStays ==
  ASSUME TypeOK, Leaving, NEW th \in Threads, Live(th), SomeStarted, SomeStarted',
         \A x \in Threads \ {th} : stack'[x] = stack[x],
         pool' = pool, main' = main, shutdown' = shutdown
  PROVE  Leaving'
<1>1. \A w \in Workers : pool[w] # "unborn" BY DEF Leaving, SomeStarted
<1> QED BY <1>1, LiveMoves

LEMMA StillStarted ==
  ASSUME TypeOK, SomeStarted, NEW u, NEW v, v # "new",
         life' = life \/ life' = [life EXCEPT ![u] = v]
  PROVE  SomeStarted'
BY DEF SomeStarted, TypeOK

LEMMA LeavingStep == ASSUME TypeOK, Leaving, Next PROVE Leaving'
<1>1. ASSUME NEW th \in Threads, NEW t \in Tasks, NEW c, Submit(th, c, t) PROVE Leaving'
  <2>1. Live(th) BY <1>1, OneTop DEF Submit, Code, Live
  <2>2. /\ \A w \in Workers : pool'[w] = IF pool[w] = "unborn" THEN "up" ELSE pool[w]
        /\ pool' \in [Workers -> {"unborn", "up", "exited"}]
    BY <1>1, PushFacts DEF Submit
  <2>3. SomeStarted' BY <1>1 DEF Submit, SomeStarted, TypeOK
  <2> QED BY <1>1, <2>1, <2>2, <2>3, LiveMoves DEF Submit
<1>2. ASSUME NEW th \in Threads, NEW t \in Tasks, NEW c, NEW op \in Ops,
             Code(th, c), life[t] # "new", Start(th, op, t),
             life' = life, pool' = pool, main' = main, shutdown' = shutdown
      PROVE  Leaving'
  <2>1. Live(th) BY <1>2, OneTop DEF Code, Live
  <2>2. SomeStarted /\ SomeStarted' BY <1>2 DEF SomeStarted
  <2>3. \A x \in Threads \ {th} : stack'[x] = stack[x] BY <1>2, StartFacts
  <2> QED BY <1>2, <2>1, <2>2, <2>3, LiveStays
<1>3. ASSUME NEW th \in Threads, stack[th] # <<>>, SomeStarted => SomeStarted',
             \A x \in Threads \ {th} : stack'[x] = stack[x],
             pool' = pool, main' = main, shutdown' = shutdown
      PROVE  Leaving'
  <2>1. Live(th) BY <1>3 DEF Live
  <2>2. SomeStarted BY <1>3 DEF Leaving, SomeStarted
  <2> QED BY <1>3, <2>1, <2>2, LiveStays
<1>4. ASSUME NEW th \in Threads, NEW t \in Tasks, NEW c,
             WaitCall(th, c, t) \/ TimedCall(th, c, t) \/ Cancel(th, c, t)
      PROVE  Leaving'
  BY <1>2, <1>4 DEF WaitCall, TimedCall, Cancel, Ops
<1>5. ASSUME NEW th \in Threads, NEW t \in Tasks,
             WaitCheck(th, t) \/ WaitSleep(th, t) \/ TimedReturn(th, t) \/ CancelBroadcast(th, t)
      PROVE  Leaving'
  <2>1. stack[th] # <<>>
    BY <1>5, OneTop DEF WaitCheck, WaitSleep, TimedReturn, CancelBroadcast
  <2>2. End(th) \/ Become(th, "poll", t) \/ Become(th, "wait", t)
    BY <1>5 DEF WaitCheck, WaitSleep, TimedReturn, CancelBroadcast
  <2>3. \A x \in Threads \ {th} : stack'[x] = stack[x]
    BY <2>1, <2>2, EndFacts, BecomeFacts DEF Ops
  <2>4. life' = life /\ pool' = pool /\ main' = main /\ shutdown' = shutdown
    BY <1>5 DEF WaitCheck, WaitSleep, TimedReturn, CancelBroadcast
  <2>5. SomeStarted => SomeStarted' BY <2>4 DEF SomeStarted
  <2> QED BY <1>3, <2>1, <2>3, <2>4, <2>5
<1>6. ASSUME NEW th \in Threads, NEW t \in Tasks, WaitPop(th, t) PROVE Leaving'
  <2>1. stack[th] # <<>> BY <1>6, OneTop DEF WaitPop
  <2>2. \A x \in Threads \ {th} : stack'[x] = stack[x] BY <1>6, WaitPopFacts
  <2>3. "running" # "new" /\ life' = [life EXCEPT ![Head(queue)] = "running"]
        /\ pool' = pool /\ main' = main /\ shutdown' = shutdown
    BY <1>6 DEF WaitPop, Dispatch
  <2>4. SomeStarted => SomeStarted' BY <2>3, StillStarted
  <2> QED BY <1>3, <2>1, <2>2, <2>3, <2>4
<1>7. ASSUME NEW th \in Threads, NEW t \in Tasks, TimedSleep(th, t) PROVE Leaving'
  BY <1>7 DEF TimedSleep, Leaving
<1>8. ASSUME NEW th \in Threads, NEW t \in Tasks, Suspend(th, t) \/ Finish(th, t) PROVE Leaving'
  <2>1. stack[th] # <<>> BY <1>8, OneTop DEF Suspend, Finish
  <2>2. End(th) \/ Become(th, "signal", t) BY <1>8 DEF Suspend, Finish
  <2>3. \A x \in Threads \ {th} : stack'[x] = stack[x]
    BY <2>1, <2>2, EndFacts, BecomeFacts DEF Ops
  <2>4. PICK v \in {"parked", "done"} : life' = [life EXCEPT ![t] = v] BY <1>8 DEF Suspend, Finish
  <2>5. pool' = pool /\ main' = main /\ shutdown' = shutdown BY <1>8 DEF Suspend, Finish
  <2>6. SomeStarted => SomeStarted' BY <2>4, StillStarted
  <2> QED BY <1>3, <2>1, <2>3, <2>5, <2>6
<1>9. ASSUME NEW th \in Threads, NEW t \in Tasks, Requeue(th, t) PROVE Leaving'
  <2>1. stack[th] # <<>> /\ End(th) BY <1>9, OneTop DEF Requeue
  <2>2. Live(th) BY <2>1 DEF Live
  <2>3. \A x \in Threads \ {th} : stack'[x] = stack[x] BY <2>1, EndFacts
  <2>4. \A w \in Workers : pool'[w] = IF pool[w] = "unborn" THEN "up" ELSE pool[w]
    BY <1>9, PushFacts DEF Requeue
  <2>5. SomeStarted' BY <1>9 DEF Requeue, SomeStarted, TypeOK
  <2>6. main' = main /\ shutdown' = shutdown BY <1>9 DEF Requeue
  <2> QED BY <2>2, <2>3, <2>4, <2>5, <2>6, LiveMoves
<1>10. ASSUME NEW th \in Threads, NEW t \in Tasks, SignalDone(th, t) PROVE Leaving'
  <2>1. stack[th] # <<>> /\ End(th) BY <1>10, OneTop DEF SignalDone
  <2>2. \A x \in Threads \ {th} : stack'[x] = stack[x] BY <2>1, EndFacts
  <2>3. pool' = pool /\ main' = main /\ shutdown' = shutdown BY <1>10 DEF SignalDone
  <2>4. SomeStarted => SomeStarted'
    <3>1. CASE life' = life BY <3>1 DEF SomeStarted
    <3>2. CASE \E j \in Tasks : life' = [life EXCEPT ![j] = "queued"] BY <3>2, StillStarted
    <3> QED BY <1>10, <3>1, <3>2 DEF SignalDone
  <2> QED BY <1>3, <2>1, <2>2, <2>3, <2>4
<1>11. ASSUME NEW w \in Workers, WorkerPop(w) PROVE Leaving'
  <2>1. Head(queue) \in Tasks /\ w \in Threads /\ pool[w] = "up" /\ w # Main
    BY <1>11, DispatchFacts, RunQueueAssumption DEF WorkerPop, AtLoop, Threads
  <2>2. SomeStarted BY <1>11 DEF WorkerPop, Dispatch, Leaving, SomeStarted
  <2>3. \A x \in Threads \ {w} : stack'[x] = stack[x]
    BY <1>11, <2>1, StartFacts DEF WorkerPop, Ops
  <2>4. /\ life' = [life EXCEPT ![Head(queue)] = "running"] /\ "running" # "new"
        /\ pool' = pool /\ main' = main /\ shutdown' = shutdown
    BY <1>11 DEF WorkerPop, Dispatch
  <2>5. SomeStarted' BY <2>2, <2>4, StillStarted
  <2> QED BY <2>1, <2>2, <2>3, <2>4, <2>5, RunQueueAssumption DEF Leaving, SomeStarted, Threads
<1>12. ASSUME NEW w \in Workers, WorkerSleep(w) PROVE Leaving'
  BY <1>12 DEF WorkerSleep, Leaving
<1>13. ASSUME NEW w \in Workers, WorkerExit(w) PROVE Leaving'
  BY <1>13 DEF WorkerExit, AtLoop, Leaving, TypeOK
<1>14. ASSUME NEW t \in Tasks, Wake(t) PROVE Leaving'
  <2>1. \A w \in Workers : pool'[w] = IF pool[w] = "unborn" THEN "up" ELSE pool[w]
    BY <1>14, PushFacts DEF Wake
  <2>2. SomeStarted /\ SomeStarted' BY <1>14 DEF Wake, SomeStarted, TypeOK
  <2>3. \A w \in Workers : pool'[w] = "up"
    BY <1>14, <2>1, <2>2 DEF Wake, Leaving, SomeStarted, TypeOK
  <2> QED BY <1>14, <2>2, <2>3, RunQueueAssumption DEF Wake, Leaving, SomeStarted
<1>15. ASSUME NEW th \in Threads, SpuriousWake(th) PROVE Leaving'
  BY <1>15 DEF SpuriousWake, Leaving
<1>16. CASE Shutdown
  <2>1. /\ stack[Main] = <<>> /\ shutdown' = TRUE /\ main' = "joining"
        /\ UNCHANGED <<queue, life, stack, pool>>
    BY <1>16, RunQueueAssumption DEF Shutdown, Code
  <2> QED BY <2>1 DEF Leaving
<1>17. CASE JoinWorkers BY <1>17 DEF JoinWorkers, Leaving
<1> QED
  BY <1>1, <1>4, <1>5, <1>6, <1>7, <1>8, <1>9, <1>10, <1>11, <1>12, <1>13, <1>14, <1>15, <1>16,
     <1>17 DEF Next

-----------------------------------------------------------------------------
LEMMA InitInv == ASSUME Init PROVE IInv
<1>1. TypeOK BY EmptySeq DEF Init, TypeOK, Threads
<1>2. NoSleepOnDone BY DEF Init, NoSleepOnDone
<1>3. Leaving BY RunQueueAssumption DEF Init, Leaving, Threads
<1> QED BY <1>1, <1>2, <1>3 DEF IInv

LEMMA StepInv == ASSUME IInv, [Next]_vars PROVE IInv'
<1>1. CASE Next BY <1>1, TypeStep, NoSleepStep, LeavingStep DEF IInv
<1>2. CASE UNCHANGED vars
  BY <1>2 DEF IInv, vars, TypeOK, NoSleepOnDone, Leaving, Is, IsAny
<1> QED BY <1>1, <1>2

THEOREM InductiveInvariant == Spec => []IInv
<1>1. Init => IInv BY InitInv
<1>2. IInv /\ [Next]_vars => IInv' BY StepInv
<1> QED BY <1>1, <1>2, PTL DEF Spec

(* Every reachable state has the types of TypeOK, and only waits and idle  *)
(* workers sleep.                                                          *)
THEOREM TypeCorrect == Spec => []TypeOK
<1>1. IInv => TypeOK BY DEF IInv
<1> QED BY <1>1, InductiveInvariant, PTL

(* A thread asleep on a task that is done, or on a cancelled one when it   *)
(* looks, is owed a broadcast.                                             *)
THEOREM NoSleepOnDoneHolds == Spec => []NoSleepOnDone
<1>1. IInv => NoSleepOnDone BY DEF IInv
<1> QED BY <1>1, InductiveInvariant, PTL

(* yoop_runtime_shutdown returns with the queue empty and nothing running. *)
THEOREM ShutdownDrainsHolds == Spec => []ShutdownDrains
<1>1. IInv => ShutdownDrains BY DEF IInv, Leaving, ShutdownDrains
<1> QED BY <1>1, InductiveInvariant, PTL

-----------------------------------------------------------------------------
(* Waits and steps.  Where they are on the stacks, after each kind of move *)
(* of a stack.                                                             *)
Place(x, i, th, n) == x = th /\ i = n

LEMMA StartPlaces ==
  ASSUME TypeOK, NEW th \in Threads, NEW op \in Ops, NEW t \in Tasks, Start(th, op, t)
  PROVE  \A x \in Threads : \A i, u :
           /\ Runs(x, i, u)' <=> \/ Runs(x, i, u)
                                 \/ Place(x, i, th, Len(stack[th]) + 1) /\ op = "run" /\ u = t
           /\ Waits(x, i, u)' <=> \/ Waits(x, i, u)
                                  \/ Place(x, i, th, Len(stack[th]) + 1) /\ op \in WaitOps /\ u = t
<1> DEFINE n == Len(stack[th])
<1>1. stack[th] \in Seq(Activity) /\ n \in Nat BY EmptySeq DEF TypeOK
<1>2. /\ Len(stack'[th]) = n + 1 /\ stack'[th][n + 1] = Doing(op, t)
      /\ \A i \in 1..n : stack'[th][i] = stack[th][i]
  BY <1>1, DoingType, AppendFacts DEF Start, TypeOK
<1>3. \A x \in Threads \ {th} : stack'[x] = stack[x] BY StartFacts
<1> HIDE DEF n
<1> SUFFICES ASSUME NEW x \in Threads, NEW i, NEW u
             PROVE  /\ Runs(x, i, u)' <=> Runs(x, i, u) \/ (Place(x, i, th, n + 1) /\ op = "run" /\ u = t)
                    /\ Waits(x, i, u)' <=> Waits(x, i, u)
                                           \/ (Place(x, i, th, n + 1) /\ op \in WaitOps /\ u = t)
  BY DEF n
<1>4. CASE x # th BY <1>3, <1>4 DEF Runs, Waits, Place
<1>5. CASE x = th
  <2>1. CASE i \in 1..n BY <1>1, <1>2, <1>5, <2>1 DEF Runs, Waits, Place, n
  <2>2. CASE i = n + 1 BY <1>1, <1>2, <1>5, <2>2 DEF Runs, Waits, Place, n, Doing
  <2>3. CASE i \notin 1..n + 1 BY <1>1, <1>2, <1>5, <2>3 DEF Runs, Waits, Place, n
  <2> QED BY <1>1, <2>1, <2>2, <2>3
<1> QED BY <1>4, <1>5

LEMMA BecomePlaces ==
  ASSUME TypeOK, NEW th \in Threads, NEW op \in Ops, NEW t \in Tasks, Become(th, op, t),
         stack[th] # <<>>
  PROVE  \A x \in Threads : \A i, u :
           /\ Runs(x, i, u)' <=> \/ Runs(x, i, u) /\ ~Place(x, i, th, Len(stack[th]))
                                 \/ Place(x, i, th, Len(stack[th])) /\ op = "run" /\ u = t
           /\ Waits(x, i, u)' <=> \/ Waits(x, i, u) /\ ~Place(x, i, th, Len(stack[th]))
                                  \/ Place(x, i, th, Len(stack[th])) /\ op \in WaitOps /\ u = t
<1> DEFINE n == Len(stack[th])
<1>1. /\ Below(th) \in Seq(Activity) /\ Len(Below(th)) = n - 1 /\ n \in Nat \ {0}
      /\ \A i \in 1..Len(Below(th)) : Below(th)[i] = stack[th][i]
  BY FrontFacts DEF TypeOK, Below
<1>2. /\ stack'[th] = Append(Below(th), Doing(op, t))
      /\ \A x \in Threads \ {th} : stack'[x] = stack[x]
  BY BecomeFacts DEF Become, TypeOK
<1>3. /\ Len(stack'[th]) = n /\ stack'[th][n] = Doing(op, t)
      /\ \A i \in 1..n - 1 : stack'[th][i] = stack[th][i]
  <2>1. LET s == Below(th) IN
          /\ Len(Append(s, Doing(op, t))) = Len(s) + 1
          /\ Append(s, Doing(op, t))[Len(s) + 1] = Doing(op, t)
          /\ \A i \in 1..Len(s) : Append(s, Doing(op, t))[i] = s[i]
    BY <1>1, DoingType, AppendFacts
  <2> QED BY <1>1, <1>2, <2>1
<1> HIDE DEF n
<1> SUFFICES ASSUME NEW x \in Threads, NEW i, NEW u
             PROVE  /\ Runs(x, i, u)' <=> \/ Runs(x, i, u) /\ ~Place(x, i, th, n)
                                          \/ Place(x, i, th, n) /\ op = "run" /\ u = t
                    /\ Waits(x, i, u)' <=> \/ Waits(x, i, u) /\ ~Place(x, i, th, n)
                                           \/ Place(x, i, th, n) /\ op \in WaitOps /\ u = t
  BY DEF n
<1>4. CASE x # th BY <1>2, <1>4 DEF Runs, Waits, Place
<1>5. CASE x = th
  <2>1. CASE i \in 1..n - 1 BY <1>1, <1>3, <1>5, <2>1 DEF Runs, Waits, Place, n
  <2>2. CASE i = n BY <1>1, <1>3, <1>5, <2>2 DEF Runs, Waits, Place, Doing
  <2>3. CASE i \notin 1..n BY <1>1, <1>3, <1>5, <2>3 DEF Runs, Waits, Place, n
  <2> QED BY <1>1, <2>1, <2>2, <2>3
<1> QED BY <1>4, <1>5

LEMMA EndPlaces ==
  ASSUME TypeOK, NEW th \in Threads, End(th), stack[th] # <<>>
  PROVE  \A x \in Threads : \A i, u :
           /\ Runs(x, i, u)' <=> Runs(x, i, u) /\ ~Place(x, i, th, Len(stack[th]))
           /\ Waits(x, i, u)' <=> Waits(x, i, u) /\ ~Place(x, i, th, Len(stack[th]))
<1> DEFINE n == Len(stack[th])
<1>1. /\ Len(Below(th)) = n - 1 /\ n \in Nat \ {0}
      /\ \A i \in 1..Len(Below(th)) : Below(th)[i] = stack[th][i]
  BY FrontFacts DEF TypeOK, Below
<1>2. /\ stack'[th] = Below(th)
      /\ \A x \in Threads \ {th} : stack'[x] = stack[x]
  BY EndFacts DEF End, TypeOK
<1>3. Len(stack'[th]) = n - 1 /\ \A i \in 1..n - 1 : stack'[th][i] = stack[th][i]
  BY <1>1, <1>2
<1> HIDE DEF n
<1> SUFFICES ASSUME NEW x \in Threads, NEW i, NEW u
             PROVE  /\ Runs(x, i, u)' <=> Runs(x, i, u) /\ ~Place(x, i, th, n)
                    /\ Waits(x, i, u)' <=> Waits(x, i, u) /\ ~Place(x, i, th, n)
  BY DEF n
<1>4. CASE x # th BY <1>2, <1>4 DEF Runs, Waits, Place
<1>5. CASE x = th
  <2>1. CASE i \in 1..n - 1 BY <1>1, <1>3, <1>5, <2>1 DEF Runs, Waits, Place, n
  <2>2. CASE i \notin 1..n - 1 BY <1>1, <1>3, <1>5, <2>2 DEF Runs, Waits, Place, n
  <2> QED BY <2>1, <2>2
<1> QED BY <1>4, <1>5

LEMMA WaitPopPlaces ==
  ASSUME TypeOK, NEW th \in Threads, NEW t \in Tasks, WaitPop(th, t)
  PROVE  \A x \in Threads : \A i, u :
           /\ Runs(x, i, u)' <=> \/ Runs(x, i, u)
                                 \/ Place(x, i, th, Len(stack[th]) + 1) /\ u = Head(queue)
           /\ Waits(x, i, u)' <=> Waits(x, i, u)
<1> DEFINE n == Len(stack[th])
<1>1. Is(th, "poll", t) /\ stack[th] \in Seq(Activity) /\ stack[th] # <<>>
  BY OneTop DEF WaitPop, TypeOK
<1>2. n \in Nat \ {0} BY <1>1, EmptySeq
<1>3. /\ Len(stack'[th]) = n + 1 /\ stack'[th][n] = Doing("wait", t)
      /\ stack'[th][n + 1] = Doing("run", Head(queue))
      /\ \A i \in 1..n - 1 : stack'[th][i] = stack[th][i]
      /\ \A x \in Threads \ {th} : stack'[x] = stack[x]
  BY WaitPopFacts
<1>4. stack[th][n] = Doing("poll", t) BY <1>1 DEF Is
<1> SUFFICES ASSUME NEW x \in Threads, NEW i, NEW u
             PROVE  /\ Runs(x, i, u)' <=> \/ Runs(x, i, u)
                                          \/ Place(x, i, th, n + 1) /\ u = Head(queue)
                    /\ Waits(x, i, u)' <=> Waits(x, i, u)
  OBVIOUS
<1> HIDE DEF n
<1>5. CASE x # th BY <1>3, <1>5 DEF Runs, Waits, Place
<1>6. CASE x = th
  <2>1. CASE i \in 1..n - 1 BY <1>2, <1>3, <1>6, <2>1 DEF Runs, Waits, Place, n
  <2>2. CASE i = n BY <1>2, <1>3, <1>4, <1>6, <2>2 DEF Runs, Waits, Place, n, Doing, WaitOps
  <2>3. CASE i = n + 1 BY <1>2, <1>3, <1>6, <2>3 DEF Runs, Waits, Place, n, Doing, WaitOps
  <2>4. CASE i \notin 1..n + 1 BY <1>2, <1>3, <1>6, <2>4 DEF Runs, Waits, Place, n
  <2> QED BY <1>2, <2>1, <2>2, <2>3, <2>4
<1> QED BY <1>5, <1>6

(* A wait is right above the step that called it, or first of all on main. *)
Above ==
  \A th \in Threads, i \in Nat, t \in Tasks :
    Waits(th, i, t) => \/ i = 1 /\ th = Main /\ Parent[t] = Main
                       \/ i > 1 /\ Runs(th, i - 1, Parent[t])

(* A task is in one place only: a step, or a place of the queue, or        *)
(* neither; and it is spawned by a step that is not over.                  *)
Lives ==
  /\ \A th \in Threads, i \in Nat, t \in Tasks : Runs(th, i, t) => life[t] = "running"
  /\ \A th, x \in Threads, i, j \in Nat, t \in Tasks :
       Runs(th, i, t) /\ Runs(x, j, t) => th = x /\ i = j
  /\ \A k \in 1..Len(queue) : life[queue[k]] = "queued"
  /\ \A k, m \in 1..Len(queue) : queue[k] = queue[m] => k = m
  /\ \A t \in Tasks : life[t] = "parked" => t \in Suspends

(* While the tasks that spawn do not suspend: the spawner of a task is     *)
(* running or done, and on a stack that has both, it is the older one.     *)
Committed == \A t \in Tasks : Parent[t] \notin Suspends

Older ==
  /\ \A t \in Tasks : life[t] # "new" /\ Parent[t] \in Tasks =>
                        life[Parent[t]] \in {"running", "done"}
  /\ \A th \in Threads, i, j \in Nat, t \in Tasks :
       Runs(th, i, t) /\ Runs(th, j, Parent[t]) => j < i

(* Also while they do not: nothing goes round in circles, where a task     *)
(* depends on its children that are not over and on the steps above its    *)
(* own.  A task is new to the relation when it is spawned, woken or        *)
(* dispatched, and nothing depends on from there.                          *)
Depends(t, u) ==
  \/ Parent[u] = t /\ life[u] \notin {"new", "done"}
  \/ \E th \in Threads, i, j \in Nat : i < j /\ Runs(th, i, t) /\ Runs(th, j, u)

Acyclic == \A S \in SUBSET Tasks : S # {} => \E t \in S : \A u \in S : ~Depends(t, u)

Nested == Above /\ Lives /\ (Committed => Older /\ Acyclic)

RunsSame == \A x \in Threads, i \in Nat : \A u : Runs(x, i, u)' <=> Runs(x, i, u)
WaitsLess == \A x \in Threads, i \in Nat : \A u : Waits(x, i, u)' => Waits(x, i, u)

LEMMA AboveStays == ASSUME Above, RunsSame, WaitsLess PROVE Above'
<1> SUFFICES ASSUME NEW th \in Threads, NEW i \in Nat, NEW t \in Tasks, Waits(th, i, t)'
             PROVE  \/ i = 1 /\ th = Main /\ Parent[t] = Main
                    \/ i > 1 /\ Runs(th, i - 1, Parent[t])'
  BY DEF Above
<1>1. CASE i = 1 BY <1>1 DEF Above, WaitsLess
<1>2. CASE i > 1 /\ Runs(th, i - 1, Parent[t])
  <2>1. i - 1 \in Nat BY <1>2
  <2> QED BY <1>2, <2>1 DEF RunsSame
<1> QED BY <1>1, <1>2 DEF Above, WaitsLess

(* The relation loses pairs, or gains some that lead to a task that leads  *)
(* nowhere.                                                                *)
LEMMA AcyclicLess ==
  ASSUME Acyclic, \A t, u \in Tasks : Depends(t, u)' => Depends(t, u) PROVE Acyclic'
BY DEF Acyclic

LEMMA AcyclicGrows ==
  ASSUME Acyclic, NEW n \in Tasks, \A u \in Tasks : ~Depends(n, u)',
         \A t, u \in Tasks : Depends(t, u)' => Depends(t, u) \/ u = n
  PROVE  Acyclic'
<1> SUFFICES ASSUME NEW S \in SUBSET Tasks, S # {}
             PROVE  \E t \in S : \A u \in S : ~Depends(t, u)'
  BY DEF Acyclic
<1>1. CASE n \in S BY <1>1
<1>2. CASE n \notin S BY <1>2 DEF Acyclic
<1> QED BY <1>1, <1>2

LEMMA DependsSame ==
  ASSUME RunsSame, \A u \in Tasks : life'[u] \notin {"new", "done"} => life[u] \notin {"new", "done"}
  PROVE  \A t, u \in Tasks : Depends(t, u)' => Depends(t, u)
BY DEF Depends, RunsSame

(* Nobody starts or ends a step and no task moves.                         *)
LEMMA Quiet ==
  ASSUME TypeOK, Nested, RunsSame, WaitsLess, life' = life, queue' = queue
  PROVE  Nested'
<1>1. Lives' BY DEF Nested, Lives, RunsSame
<1>2. Committed => Older' BY DEF Nested, Older, RunsSame
<1>3. Committed => Acyclic' BY DependsSame, AcyclicLess DEF Nested
<1> QED BY <1>1, <1>2, <1>3, AboveStays DEF Nested

(* A step, or main, waits.                                                 *)
LEMMA Called ==
  ASSUME TypeOK, Nested, NEW th \in Threads, NEW c, NEW t \in Tasks, NEW op \in Ops \ {"run"},
         Code(th, c), Start(th, op, t), op \in WaitOps => Parent[t] = c,
         life' = life, queue' = queue
  PROVE  Nested'
<1> DEFINE n == Len(stack[th])
<1>1. n \in Nat /\ stack[th] \in Seq(Activity) BY EmptySeq DEF TypeOK
<1>2. \A x \in Threads : \A i, u :
        /\ Runs(x, i, u)' <=> Runs(x, i, u)
        /\ Waits(x, i, u)' <=> \/ Waits(x, i, u)
                               \/ Place(x, i, th, n + 1) /\ op \in WaitOps /\ u = t
  BY StartPlaces
<1>3. op \in WaitOps => \/ n > 0 /\ Runs(th, n, Parent[t])
                        \/ n = 0 /\ th = Main /\ Parent[t] = Main
  <2>1. CASE c \in Tasks /\ Is(th, "run", c) BY <1>1, <2>1, EmptySeq DEF Is, Runs
  <2>2. CASE c = Main /\ th = Main /\ stack[th] = <<>> BY <1>1, <2>2, EmptySeq
  <2> QED BY <2>1, <2>2 DEF Code
<1> HIDE DEF n
<1>4. Above'
  <2> SUFFICES ASSUME NEW x \in Threads, NEW i \in Nat, NEW u \in Tasks, Waits(x, i, u)'
               PROVE  \/ i = 1 /\ x = Main /\ Parent[u] = Main
                      \/ i > 1 /\ Runs(x, i - 1, Parent[u])'
    BY DEF Above
  <2>1. CASE Waits(x, i, u) BY <1>2, <2>1 DEF Nested, Above
  <2>2. CASE x = th /\ i = n + 1 /\ op \in WaitOps /\ u = t BY <1>1, <1>2, <1>3, <2>2
  <2> QED BY <1>2, <2>1, <2>2 DEF Place
<1>5. Lives' BY <1>2 DEF Nested, Lives
<1>6. Committed => Older' BY <1>2 DEF Nested, Older
<1>7. Committed => Acyclic' BY <1>2, DependsSame, AcyclicLess DEF Nested, RunsSame
<1> QED BY <1>4, <1>5, <1>6, <1>7 DEF Nested

(* A task that is spawned, or woken, goes on the queue.                    *)
LEMMA Woken ==
  ASSUME TypeOK, Nested, RunsSame, WaitsLess, NEW t \in Tasks,
         life' = [life EXCEPT ![t] = "queued"], queue' = Append(queue, t),
         \/ life[t] = "parked"
         \/ life[t] = "new" /\ (Parent[t] \in Tasks => life[Parent[t]] = "running")
  PROVE  Nested'
<1>1. /\ queue \in Seq(Tasks) /\ Len(queue) \in Nat /\ Len(queue') = Len(queue) + 1
      /\ queue'[Len(queue) + 1] = t /\ \A k \in 1..Len(queue) : queue'[k] = queue[k]
  BY EmptySeq DEF TypeOK
<1>2. \A k \in 1..Len(queue) : queue[k] \in Tasks /\ queue[k] # t
  <2> TAKE k \in 1..Len(queue)
  <2>1. queue[k] \in Tasks BY <1>1, ElementOfSeq
  <2> QED BY <2>1 DEF Nested, Lives
<1> DEFINE n == Len(queue)
<1>3. \A k \in 1..n + 1 : k \in 1..n \/ k = n + 1 BY <1>1
<1>4. \A x \in Threads, i \in Nat : ~Runs(x, i, t) BY DEF Nested, Lives
<1>5. Lives'
  <2>1. \A x \in Threads, i \in Nat, u \in Tasks : Runs(x, i, u)' => life'[u] = "running"
    BY <1>4 DEF Nested, Lives, RunsSame, TypeOK
  <2>2. \A x, y \in Threads, i, j \in Nat, u \in Tasks :
          Runs(x, i, u)' /\ Runs(y, j, u)' => x = y /\ i = j
    BY DEF Nested, Lives, RunsSame
  <2>3. \A k \in 1..Len(queue') : life'[queue'[k]] = "queued"
    BY <1>1, <1>2, <1>3 DEF Nested, Lives, TypeOK
  <2>4. \A k, m \in 1..Len(queue') : queue'[k] = queue'[m] => k = m
    BY <1>1, <1>2, <1>3 DEF Nested, Lives
  <2>5. \A u \in Tasks : life'[u] = "parked" => u \in Suspends BY DEF Nested, Lives, TypeOK
  <2> QED BY <2>1, <2>2, <2>3, <2>4, <2>5 DEF Lives
<1>6. ASSUME Committed PROVE Older'
  <2>0. Older BY <1>6 DEF Nested
  <2>1. \A x \in Threads, i, j \in Nat, u \in Tasks :
          Runs(x, i, u)' /\ Runs(x, j, Parent[u])' => j < i
    BY <2>0 DEF Nested, Older, RunsSame
  <2>2. ASSUME NEW u \in Tasks, life'[u] # "new", Parent[u] \in Tasks
        PROVE  life'[Parent[u]] \in {"running", "done"}
    <3>1. CASE u = t
      <4>1. life[t] # "parked" => Parent[t] # t /\ life[Parent[t]] = "running" BY <2>2, <3>1
      <4>2. life[t] = "parked" => life[Parent[t]] \in {"running", "done"} /\ Parent[t] # t
        BY <2>2, <3>1, <2>0 DEF Nested, Older
      <4> QED BY <2>2, <3>1, <4>1, <4>2 DEF TypeOK
    <3>2. CASE u # t
      <4>1. life[u] # "new" BY <2>2, <3>2 DEF TypeOK
      <4>2. life[Parent[u]] \in {"running", "done"} BY <2>2, <4>1, <2>0 DEF Nested, Older
      <4>3. Parent[u] # t BY <4>2
      <4> QED BY <2>2, <4>2, <4>3 DEF TypeOK
    <3> QED BY <3>1, <3>2
  <2> QED BY <2>1, <2>2 DEF Older
<1>7. ASSUME Committed PROVE Acyclic'
  <2>1. \A u \in Tasks : ~Depends(t, u)'
    <3> SUFFICES ASSUME NEW u \in Tasks, Depends(t, u)' PROVE FALSE OBVIOUS
    <3>1. ~ \E x \in Threads, i, j \in Nat : i < j /\ Runs(x, i, t)' /\ Runs(x, j, u)'
      BY <1>4 DEF RunsSame
    <3>2. Parent[u] = t /\ life'[u] # "new" BY <3>1 DEF Depends
    <3> QED BY <1>6, <1>7, <3>2 DEF Older, TypeOK
  <2>2. \A s, u \in Tasks : Depends(s, u)' => Depends(s, u) \/ u = t
    BY DEF Depends, RunsSame, TypeOK
  <2> QED BY <1>7, <2>1, <2>2, AcyclicGrows DEF Nested
<1> QED BY <1>5, <1>6, <1>7, AboveStays DEF Nested

(* The head of the queue starts, on top of a stack.                        *)
LEMMA Taken ==
  ASSUME TypeOK, Nested, NEW th \in Threads, NEW n \in Nat, Dispatch(th),
         \A x \in Threads : \A i, u :
           /\ Runs(x, i, u)' <=> Runs(x, i, u) \/ (Place(x, i, th, n + 1) /\ u = Head(queue))
           /\ Waits(x, i, u)' <=> Waits(x, i, u),
         \A i, u : Runs(th, i, u) => i \in 1..n
  PROVE  Nested'
<1> DEFINE h == Head(queue)
<1>1. /\ queue \in Seq(Tasks) /\ queue # <<>> /\ Len(queue) \in Nat \ {0}
      /\ h \in Tasks /\ h = queue[1] /\ Len(queue') = Len(queue) - 1
      /\ \A k \in 1..Len(queue') : queue'[k] = queue[k + 1]
  BY EmptySeq, HeadTailProperties DEF TypeOK, Dispatch
<1>2. life[h] = "queued" /\ life' = [life EXCEPT ![h] = "running"]
  BY <1>1 DEF Nested, Lives, Dispatch
<1>3. \A k \in 1..Len(queue') : queue'[k] # h /\ k + 1 \in 1..Len(queue)
  BY <1>1 DEF Nested, Lives
<1>4. \A x \in Threads, i \in Nat : ~Runs(x, i, h) BY <1>1, <1>2 DEF Nested, Lives
<1>5. \A u \in Tasks : life'[u] = IF u = h THEN "running" ELSE life[u] BY <1>1, <1>2 DEF TypeOK
<1> HIDE DEF h
<1>6. \A x \in Threads : \A i, u : Runs(x, i, u)' <=> Runs(x, i, u) \/ (x = th /\ i = n + 1 /\ u = h)
  BY DEF Place, h
<1>7. Above'
  <2> SUFFICES ASSUME NEW x \in Threads, NEW i \in Nat, NEW u \in Tasks, Waits(x, i, u)'
               PROVE  \/ i = 1 /\ x = Main /\ Parent[u] = Main
                      \/ i > 1 /\ Runs(x, i - 1, Parent[u])'
    BY DEF Above
  <2> QED BY <1>6 DEF Nested, Above
<1>8. Lives'
  <2>1. \A x \in Threads, i \in Nat, u \in Tasks : Runs(x, i, u)' => life'[u] = "running"
    BY <1>5, <1>6 DEF Nested, Lives
  <2>2. \A x, y \in Threads, i, j \in Nat, u \in Tasks :
          Runs(x, i, u)' /\ Runs(y, j, u)' => x = y /\ i = j
    <3>1. \A x, y \in Threads, i, j \in Nat, u \in Tasks :
            Runs(x, i, u) /\ Runs(y, j, u) => x = y /\ i = j
      BY DEF Nested, Lives
    <3> QED BY <1>4, <1>6, <3>1
  <2>3. \A k \in 1..Len(queue') : queue'[k] \in Tasks
    BY <1>1, <1>3, ElementOfSeq
  <2>4. \A k \in 1..Len(queue') : life'[queue'[k]] = "queued"
    BY <1>1, <1>3, <1>5, <2>3 DEF Nested, Lives
  <2>5. \A k, m \in 1..Len(queue') : queue'[k] = queue'[m] => k = m
    <3> TAKE k, m \in 1..Len(queue')
    <3> HAVE queue'[k] = queue'[m]
    <3>1. queue[k + 1] = queue[m + 1] /\ k + 1 \in 1..Len(queue) /\ m + 1 \in 1..Len(queue)
      BY <1>1, <1>3
    <3>2. k + 1 = m + 1 BY <3>1 DEF Nested, Lives
    <3> QED BY <1>1, <3>2
  <2>6. \A u \in Tasks : life'[u] = "parked" => u \in Suspends BY <1>5 DEF Nested, Lives
  <2> QED BY <2>1, <2>2, <2>4, <2>5, <2>6 DEF Lives
<1>9. ASSUME Committed PROVE Older'
  <2>0. Older BY <1>9 DEF Nested
  <2>1. \A u \in Tasks : life'[u] # "new" /\ Parent[u] \in Tasks =>
                           life'[Parent[u]] \in {"running", "done"}
    BY <1>2, <1>5, <2>0 DEF Nested, Older
  <2>2. ASSUME NEW x \in Threads, NEW i \in Nat, NEW j \in Nat, NEW u \in Tasks,
               Runs(x, i, u)', Runs(x, j, Parent[u])'
        PROVE  j < i
    <3>1. CASE Runs(x, i, u) /\ Runs(x, j, Parent[u]) BY <3>1, <2>0 DEF Nested, Older
    <3>2. CASE x = th /\ i = n + 1 /\ u = h
      <4>1. Parent[h] # h BY <1>1, <1>2, <2>0 DEF Nested, Older
      <4>2. Runs(th, j, Parent[u]) BY <1>6, <2>2, <3>2, <4>1
      <4> QED BY <3>2, <4>2
    <3>3. CASE Runs(x, i, u) /\ x = th /\ j = n + 1 /\ Parent[u] = h
      <4>1. life[u] = "running" BY <3>3 DEF Nested, Lives
      <4> QED BY <1>1, <1>2, <3>3, <4>1, <2>0 DEF Nested, Older
    <3> QED BY <1>6, <2>2, <3>1, <3>2, <3>3
  <2> QED BY <2>1, <2>2 DEF Older
<1>10. ASSUME Committed PROVE Acyclic'
  <2>0. Older BY <1>10 DEF Nested
  <2> PICK g \in Tasks : g = h BY <1>1
  <2>1. \A u \in Tasks : ~Depends(g, u)'
    <3> SUFFICES ASSUME NEW u \in Tasks, Depends(g, u)' PROVE FALSE OBVIOUS
    <3>1. CASE Parent[u] = g /\ life'[u] # "new"
      <4>1. life[u] # "new" BY <1>2, <1>5, <3>1
      <4> QED BY <1>2, <2>0, <3>1, <4>1 DEF Older
    <3>2. ASSUME NEW x \in Threads, NEW i \in Nat, NEW j \in Nat, i < j, Runs(x, i, g)', Runs(x, j, u)'
          PROVE  FALSE
      <4>1. x = th /\ i = n + 1 BY <1>4, <1>6, <3>2
      <4>2. Runs(th, j, u) \/ j = n + 1 BY <1>6, <3>2, <4>1
      <4> QED BY <3>2, <4>1, <4>2
    <3> QED BY <3>1, <3>2 DEF Depends
  <2>2. ASSUME NEW s \in Tasks, NEW u \in Tasks, Depends(s, u)', u # g PROVE Depends(s, u)
    <3>1. CASE Parent[u] = s /\ life'[u] \notin {"new", "done"}
      BY <1>5, <2>2, <3>1 DEF Depends
    <3>2. ASSUME NEW x \in Threads, NEW i \in Nat, NEW j \in Nat, i < j, Runs(x, i, s)', Runs(x, j, u)'
          PROVE  Depends(s, u)
      <4>1. Runs(x, j, u) BY <1>6, <2>2, <3>2
      <4>2. Runs(x, i, s)
        <5>1. CASE x = th /\ i = n + 1 BY <3>2, <4>1, <5>1
        <5> QED BY <1>6, <3>2, <5>1
      <4> QED BY <3>2, <4>1, <4>2 DEF Depends
    <3> QED BY <2>2, <3>1, <3>2 DEF Depends
  <2> QED BY <1>10, <2>1, <2>2, AcyclicGrows DEF Nested
<1> QED BY <1>7, <1>8, <1>9, <1>10 DEF Nested

(* The step on top of a stack ends: its task parks, is done, or is back on *)
(* the queue.                                                              *)
LEMMA Left ==
  ASSUME TypeOK, Nested, NEW th \in Threads, NEW t \in Tasks, Is(th, "run", t),
         \A x \in Threads : \A i, u :
           /\ Runs(x, i, u)' <=> Runs(x, i, u) /\ ~Place(x, i, th, Len(stack[th]))
           /\ Waits(x, i, u)' <=> Waits(x, i, u) /\ ~Place(x, i, th, Len(stack[th])),
         NEW v, life' = [life EXCEPT ![t] = v],
         \/ v = "done" /\ queue' = queue
         \/ v = "parked" /\ t \in Suspends /\ queue' = queue
         \/ v = "queued" /\ t \in Suspends /\ queue' = Append(queue, t)
  PROVE  Nested'
<1> DEFINE n == Len(stack[th])
<1>1. n \in Nat \ {0} /\ Runs(th, n, t) BY EmptySeq DEF TypeOK, Is, Runs
<1>2. life[t] = "running" BY <1>1 DEF Nested, Lives
<1>3. \A x \in Threads, i \in Nat : ~Runs(x, i, t)' BY <1>1 DEF Nested, Lives, Place
<1>4. \A x \in Threads : \A i, u : Waits(x, i, u) => i \in 1..Len(stack[x]) BY DEF Waits
<1>5. \A u \in Tasks : life'[u] = IF u = t THEN v ELSE life[u] BY DEF TypeOK
<1> HIDE DEF n
<1>6. Above'
  <2> SUFFICES ASSUME NEW x \in Threads, NEW i \in Nat, NEW u \in Tasks, Waits(x, i, u)'
               PROVE  \/ i = 1 /\ x = Main /\ Parent[u] = Main
                      \/ i > 1 /\ Runs(x, i - 1, Parent[u])'
    BY DEF Above
  <2>1. Waits(x, i, u) /\ (x = th => i < n) BY <1>1, <1>4 DEF Place, n
  <2>2. CASE i = 1 /\ x = Main /\ Parent[u] = Main BY <2>2
  <2>3. CASE i > 1 /\ Runs(x, i - 1, Parent[u])
    <3>1. ~Place(x, i - 1, th, n) BY <1>1, <2>1 DEF Place
    <3> QED BY <2>3, <3>1 DEF n
  <2> QED BY <2>1, <2>2, <2>3 DEF Nested, Above
<1>7. /\ queue \in Seq(Tasks) /\ Len(queue) \in Nat
      /\ \A k \in 1..Len(queue) : queue[k] \in Tasks /\ queue[k] # t /\ life'[queue[k]] = "queued"
  <2>1. queue \in Seq(Tasks) /\ Len(queue) \in Nat BY EmptySeq DEF TypeOK
  <2>2. \A k \in 1..Len(queue) : queue[k] \in Tasks BY <2>1, ElementOfSeq
  <2> QED BY <1>2, <1>5, <2>1, <2>2 DEF Nested, Lives
<1>8. /\ \A k \in 1..Len(queue') : life'[queue'[k]] = "queued"
      /\ \A k, m \in 1..Len(queue') : queue'[k] = queue'[m] => k = m
  <2>1. CASE queue' = queue BY <1>7, <2>1 DEF Nested, Lives
  <2>2. CASE v = "queued" /\ queue' = Append(queue, t)
    <3>1. /\ Len(queue') = Len(queue) + 1 /\ queue'[Len(queue) + 1] = t
          /\ \A k \in 1..Len(queue) : queue'[k] = queue[k]
      BY <1>7, <2>2
    <3>2. \A k \in 1..Len(queue') : k \in 1..Len(queue) \/ k = Len(queue) + 1 BY <1>7, <3>1
    <3> QED BY <1>5, <1>7, <2>2, <3>1, <3>2 DEF Nested, Lives
  <2> QED BY <2>1, <2>2
<1>9. Lives'
  <2>1. \A x \in Threads, i \in Nat, u \in Tasks : Runs(x, i, u)' => life'[u] = "running"
    BY <1>3, <1>5 DEF Nested, Lives
  <2>2. \A x, y \in Threads, i, j \in Nat, u \in Tasks :
          Runs(x, i, u)' /\ Runs(y, j, u)' => x = y /\ i = j
    BY DEF Nested, Lives
  <2>3. \A u \in Tasks : life'[u] = "parked" => u \in Suspends BY <1>5 DEF Nested, Lives
  <2> QED BY <1>8, <2>1, <2>2, <2>3 DEF Lives
<1>10. ASSUME Committed PROVE Older'
  <2>0. Older BY <1>10 DEF Nested
  <2>1. \A x \in Threads, i, j \in Nat, u \in Tasks :
          Runs(x, i, u)' /\ Runs(x, j, Parent[u])' => j < i
    BY <2>0 DEF Nested, Older
  <2>2. ASSUME NEW u \in Tasks, life'[u] # "new", Parent[u] \in Tasks
        PROVE  life'[Parent[u]] \in {"running", "done"}
    <3>1. life[u] # "new" BY <1>2, <1>5, <2>2
    <3>2. life[Parent[u]] \in {"running", "done"} BY <2>2, <3>1, <2>0 DEF Nested, Older
    <3>3. Parent[u] = t => v = "done" BY <1>10 DEF Committed
    <3> QED BY <1>5, <2>2, <3>2, <3>3
  <2> QED BY <2>1, <2>2 DEF Older
<1>11. ASSUME Committed PROVE Acyclic'
  <2>1. \A u \in Tasks : life'[u] \notin {"new", "done"} => life[u] \notin {"new", "done"}
    BY <1>2, <1>5
  <2>2. \A s, u \in Tasks : Depends(s, u)' => Depends(s, u) BY <2>1 DEF Depends
  <2> QED BY <1>11, <2>2, AcyclicLess DEF Nested
<1> QED BY <1>6, <1>9, <1>10, <1>11 DEF Nested

LEMMA TopPlace ==
  ASSUME TypeOK, NEW th \in Threads, NEW op, NEW t, Is(th, op, t)
  PROVE  /\ op # "run" => \A i, u : Runs(th, i, u) => i # Len(stack[th])
         /\ op \in WaitOps => Waits(th, Len(stack[th]), t)
<1>1. Len(stack[th]) \in 1..Len(stack[th]) BY EmptySeq DEF TypeOK, Is
<1> QED BY <1>1 DEF Is, Runs, Waits, Doing

LEMMA StackQuiet == ASSUME stack' = stack PROVE RunsSame /\ WaitsLess
BY DEF RunsSame, WaitsLess, Runs, Waits

LEMMA EndQuiet ==
  ASSUME TypeOK, NEW th \in Threads, NEW op, NEW t, Is(th, op, t), op # "run", End(th)
  PROVE  RunsSame /\ WaitsLess
BY OneTop, EndPlaces, TopPlace DEF RunsSame, WaitsLess, Place

LEMMA BecomeQuiet ==
  ASSUME TypeOK, NEW th \in Threads, NEW t \in Tasks, NEW o \in WaitOps, Is(th, o, t),
         NEW op \in WaitOps, Become(th, op, t)
  PROVE  RunsSame /\ WaitsLess
<1>1. stack[th] # <<>> /\ op \in Ops /\ op # "run" /\ o # "run" BY OneTop DEF WaitOps, Ops
<1>2. /\ \A i, u : Runs(th, i, u) => i # Len(stack[th])
      /\ Waits(th, Len(stack[th]), t)
  BY <1>1, TopPlace
<1> QED BY <1>1, <1>2, BecomePlaces DEF RunsSame, WaitsLess, Place

LEMMA NestedStep == ASSUME TypeOK, Nested, Next PROVE Nested'
<1>1. ASSUME NEW th \in Threads, NEW t \in Tasks, NEW c, Submit(th, c, t) PROVE Nested'
  <2>1. RunsSame /\ WaitsLess BY <1>1, StackQuiet DEF Submit
  <2>2. Parent[t] \in Tasks => life[Parent[t]] = "running"
    <3> SUFFICES ASSUME Parent[t] \in Tasks PROVE life[Parent[t]] = "running" OBVIOUS
    <3>1. Is(th, "run", Parent[t]) BY <1>1, RunQueueAssumption DEF Submit, Code
    <3>2. Len(stack[th]) \in Nat /\ Runs(th, Len(stack[th]), Parent[t])
      BY <3>1, EmptySeq DEF TypeOK, Is, Runs
    <3> QED BY <3>2 DEF Nested, Lives
  <2>3. /\ life[t] = "new" /\ life' = [life EXCEPT ![t] = "queued"] /\ queue' = Append(queue, t)
    BY <1>1 DEF Submit, Push
  <2> QED BY <2>1, <2>2, <2>3, Woken
<1>2. ASSUME NEW th \in Threads, NEW t \in Tasks, NEW c, WaitCall(th, c, t) PROVE Nested'
  BY <1>2, Called DEF WaitCall, Ops, WaitOps
<1>3. ASSUME NEW th \in Threads, NEW t \in Tasks, NEW c, TimedCall(th, c, t) PROVE Nested'
  BY <1>3, Called DEF TimedCall, Ops, WaitOps
<1>4. ASSUME NEW th \in Threads, NEW t \in Tasks, NEW c, Cancel(th, c, t) PROVE Nested'
  <2>1. "cancel" \in Ops \ {"run"} /\ "cancel" \notin WaitOps BY DEF Ops, WaitOps
  <2> QED BY <1>4, <2>1, Called DEF Cancel
<1>5. ASSUME NEW th \in Threads, NEW t \in Tasks, WaitCheck(th, t) PROVE Nested'
  <2>1. Is(th, "wait", t) /\ life' = life /\ queue' = queue BY <1>5 DEF WaitCheck
  <2>2. CASE End(th) BY <2>1, <2>2, EndQuiet, Quiet
  <2>3. CASE Become(th, "poll", t) BY <2>1, <2>3, BecomeQuiet, Quiet DEF WaitOps
  <2> QED BY <1>5, <2>2, <2>3 DEF WaitCheck
<1>6. ASSUME NEW th \in Threads, NEW t \in Tasks, WaitPop(th, t) PROVE Nested'
  <2>1. Len(stack[th]) \in Nat BY EmptySeq DEF TypeOK
  <2>2. \A i, u : Runs(th, i, u) => i \in 1..Len(stack[th]) BY DEF Runs
  <2>3. Dispatch(th) BY <1>6 DEF WaitPop
  <2> QED BY <1>6, <2>1, <2>2, <2>3, WaitPopPlaces, Taken
<1>7. ASSUME NEW th \in Threads, NEW t \in Tasks, WaitSleep(th, t) PROVE Nested'
  <2>1. Is(th, "poll", t) /\ life' = life /\ queue' = queue BY <1>7 DEF WaitSleep
  <2>2. CASE End(th) BY <2>1, <2>2, EndQuiet, Quiet
  <2>3. CASE Become(th, "wait", t) BY <2>1, <2>3, BecomeQuiet, Quiet DEF WaitOps
  <2> QED BY <1>7, <2>2, <2>3 DEF WaitSleep
<1>8. ASSUME NEW th \in Threads, NEW t \in Tasks, TimedSleep(th, t) PROVE Nested'
  BY <1>8, StackQuiet, Quiet DEF TimedSleep
<1>9. ASSUME NEW th \in Threads, NEW t \in Tasks, TimedReturn(th, t) PROVE Nested'
  <2>1. Is(th, "timed", t) /\ End(th) /\ life' = life /\ queue' = queue BY <1>9 DEF TimedReturn
  <2> QED BY <2>1, EndQuiet, Quiet
<1>10. ASSUME NEW th \in Threads, NEW t \in Tasks, CancelBroadcast(th, t) PROVE Nested'
  <2>1. Is(th, "cancel", t) /\ End(th) /\ life' = life /\ queue' = queue
    BY <1>10 DEF CancelBroadcast
  <2> QED BY <2>1, EndQuiet, Quiet
<1>11. ASSUME NEW th \in Threads, NEW t \in Tasks, Suspend(th, t) PROVE Nested'
  <2>1. /\ Is(th, "run", t) /\ End(th) /\ t \in Suspends /\ queue' = queue
        /\ life' = [life EXCEPT ![t] = "parked"]
    BY <1>11 DEF Suspend
  <2> QED BY <2>1, OneTop, EndPlaces, Left
<1>12. ASSUME NEW th \in Threads, NEW t \in Tasks, Requeue(th, t) PROVE Nested'
  <2>1. /\ Is(th, "run", t) /\ End(th) /\ t \in Suspends /\ queue' = Append(queue, t)
        /\ life' = [life EXCEPT ![t] = "queued"]
    BY <1>12 DEF Requeue, Push
  <2> QED BY <2>1, OneTop, EndPlaces, Left
<1>13. ASSUME NEW th \in Threads, NEW t \in Tasks, Finish(th, t) PROVE Nested'
  <2>1. /\ Is(th, "run", t) /\ Become(th, "signal", t) /\ queue' = queue
        /\ life' = [life EXCEPT ![t] = "done"] /\ stack[th] # <<>>
    BY <1>13, OneTop DEF Finish
  <2>2. "signal" \in Ops /\ "signal" \notin WaitOps BY DEF Ops, WaitOps
  <2>3. \A x \in Threads : \A i, u :
          /\ Runs(x, i, u)' <=> Runs(x, i, u) /\ ~Place(x, i, th, Len(stack[th]))
          /\ Waits(x, i, u)' <=> Waits(x, i, u) /\ ~Place(x, i, th, Len(stack[th]))
    BY <2>1, <2>2, BecomePlaces
  <2> QED BY <2>1, <2>3, Left
<1>14. ASSUME NEW th \in Threads, NEW t \in Tasks, SignalDone(th, t) PROVE Nested'
  <2>1. Is(th, "signal", t) /\ End(th) BY <1>14 DEF SignalDone
  <2>2. RunsSame /\ WaitsLess BY <2>1, EndQuiet
  <2>3. CASE UNCHANGED <<queue, life>> BY <2>2, <2>3, Quiet
  <2>4. ASSUME NEW j \in Tasks, life[j] = "parked", queue' = Append(queue, j),
               life' = [life EXCEPT ![j] = "queued"]
        PROVE  Nested'
    BY <2>2, <2>4, Woken
  <2> QED BY <1>14, <2>3, <2>4 DEF SignalDone
<1>15. ASSUME NEW w \in Workers, WorkerPop(w) PROVE Nested'
  <2>1. w \in Threads /\ Head(queue) \in Tasks /\ Dispatch(w) /\ Start(w, "run", Head(queue))
    BY <1>15, DispatchFacts DEF WorkerPop, Threads
  <2>2. Len(stack[w]) \in Nat BY <2>1, EmptySeq DEF TypeOK
  <2>3. \A i, u : Runs(w, i, u) => i \in 1..Len(stack[w]) BY DEF Runs
  <2>4. \A x \in Threads : \A i, u :
          /\ Runs(x, i, u)' <=> \/ Runs(x, i, u)
                                \/ Place(x, i, w, Len(stack[w]) + 1) /\ u = Head(queue)
          /\ Waits(x, i, u)' <=> Waits(x, i, u)
    BY <2>1, StartPlaces DEF Ops, WaitOps
  <2> QED BY <2>1, <2>2, <2>3, <2>4, Taken
<1>16. ASSUME NEW w \in Workers, WorkerSleep(w) \/ WorkerExit(w) PROVE Nested'
  BY <1>16, StackQuiet, Quiet DEF WorkerSleep, WorkerExit
<1>17. ASSUME NEW t \in Tasks, Wake(t) PROVE Nested'
  BY <1>17, StackQuiet, Woken DEF Wake, Push
<1>18. ASSUME NEW th \in Threads, SpuriousWake(th) PROVE Nested'
  BY <1>18, StackQuiet, Quiet DEF SpuriousWake
<1>19. CASE Shutdown \/ JoinWorkers BY <1>19, StackQuiet, Quiet DEF Shutdown, JoinWorkers
<1> QED
  BY <1>1, <1>2, <1>3, <1>4, <1>5, <1>6, <1>7, <1>8, <1>9, <1>10, <1>11, <1>12, <1>13, <1>14,
     <1>15, <1>16, <1>17, <1>18, <1>19 DEF Next

(* Tasks that hold each other up, together with those that spawned them,   *)
(* would depend on each other.                                             *)
LEMMA NoneIsBuried == ASSUME TypeOK, Nested, Committed PROVE NoBuriedWait
<1> SUFFICES ASSUME NEW S \in SUBSET Tasks, S # {}, \A t \in S : \E u \in S : HeldUpBy(t, u)
             PROVE  FALSE
  BY DEF NoBuriedWait
<1> DEFINE R == S \cup {c \in Tasks : \E u \in S : Parent[u] = c}
<1>1. \A th \in Threads : Len(stack[th]) \in Nat /\ \A i \in 1..Len(stack[th]) :
        i \in Nat /\ stack[th][i].task \in Tasks
  <2> TAKE th \in Threads
  <2>1. stack[th] \in Seq(Activity) /\ Len(stack[th]) \in Nat BY EmptySeq DEF TypeOK
  <2>2. \A i \in 1..Len(stack[th]) : stack[th][i] \in Activity BY <2>1, ElementOfSeq
  <2> QED BY <2>1, <2>2 DEF Activity
<1>2. ASSUME NEW u \in S PROVE life[u] = "running"
  <2>1. PICK th \in Threads : \E i \in 1..Len(stack[th]) : stack[th][i] = Doing("run", u)
    BY DEF HeldUpBy
  <2>2. PICK i \in 1..Len(stack[th]) : stack[th][i] = Doing("run", u) BY <2>1
  <2>3. Runs(th, i, u) /\ i \in Nat BY <1>1, <2>2 DEF Runs
  <2> QED BY <2>3 DEF Nested, Lives
<1>3. ASSUME NEW u \in S PROVE Depends(Parent[u], u)
  BY <1>2 DEF Depends
<1>4. ASSUME NEW t \in S PROVE \E u \in R : Depends(t, u)
  <2>1. PICK u \in S : HeldUpBy(t, u) OBVIOUS
  <2>2. PICK th \in Threads :
          \E i, j \in 1..Len(stack[th]) :
            /\ i < j /\ stack[th][i] = Doing("run", t)
            /\ stack[th][j] \in {Doing("run", u), Doing("wait", u), Doing("poll", u)}
    BY <2>1 DEF HeldUpBy
  <2>3. PICK i, j \in 1..Len(stack[th]) :
          /\ i < j /\ stack[th][i] = Doing("run", t)
          /\ stack[th][j] \in {Doing("run", u), Doing("wait", u), Doing("poll", u)}
    BY <2>2
  <2>4. Runs(th, i, t) /\ i \in Nat /\ j \in Nat BY <1>1, <2>3 DEF Runs
  <2>5. CASE stack[th][j] = Doing("run", u)
    <3>1. Runs(th, j, u) BY <2>5 DEF Runs
    <3> QED BY <2>3, <2>4, <3>1 DEF Depends
  <2>6. CASE stack[th][j] # Doing("run", u)
    <3>1. Waits(th, j, u) BY <2>3, <2>6 DEF Waits, WaitOps, Doing
    <3>2. j > 1 /\ i \in 1..Len(stack[th]) BY <1>1, <2>3
    <3>3. Runs(th, j - 1, Parent[u]) BY <2>4, <3>1, <3>2 DEF Nested, Above
    <3>4. CASE i = j - 1
      <4>1. Parent[u] = t BY <2>3, <3>3, <3>4 DEF Runs, Doing
      <4> QED BY <1>3, <4>1
    <3>5. CASE i # j - 1
      <4>1. j - 1 \in 1..Len(stack[th]) /\ i < j - 1 /\ j - 1 \in Nat BY <1>1, <2>3, <3>2, <3>5
      <4>2. Parent[u] \in Tasks BY <1>1, <3>3, <4>1 DEF Runs, Doing
      <4>3. Depends(t, Parent[u]) BY <2>4, <3>3, <4>1 DEF Depends
      <4> QED BY <4>2, <4>3
    <3> QED BY <3>4, <3>5
  <2> QED BY <2>5, <2>6
<1>5. \A c \in R : \E u \in R : Depends(c, u) BY <1>3, <1>4
<1>6. R \in SUBSET Tasks /\ R # {} OBVIOUS
<1> HIDE DEF R
<1> QED BY <1>5, <1>6 DEF Nested, Acyclic

LEMMA NestedInvariant == Spec => [](TypeOK /\ Nested)
<1>1. Init => TypeOK /\ Nested
  <2> SUFFICES ASSUME Init PROVE TypeOK /\ Nested OBVIOUS
  <2>1. TypeOK BY EmptySeq DEF Init, TypeOK, Threads
  <2>2. Len(queue) = 0 /\ \A th \in Threads : Len(stack[th]) = 0 BY EmptySeq DEF Init
  <2>3. \A th \in Threads : \A i, t : ~Runs(th, i, t) /\ ~Waits(th, i, t) BY <2>2 DEF Runs, Waits
  <2>4. Above /\ Older BY <2>3 DEF Above, Older, Init
  <2>6. \A t, u \in Tasks : ~Depends(t, u) BY <2>3 DEF Depends, Init
  <2>7. Acyclic BY <2>6 DEF Acyclic
  <2>5. Lives BY <2>2, <2>3 DEF Lives, Init
  <2> QED BY <2>1, <2>4, <2>5, <2>7 DEF Nested
<1>2. TypeOK /\ Nested /\ [Next]_vars => (TypeOK /\ Nested)'
  <2>1. CASE Next BY <2>1, TypeStep, NestedStep
  <2>2. ASSUME TypeOK, Nested, UNCHANGED vars PROVE (TypeOK /\ Nested)'
    <3>1. TypeOK' BY <2>2 DEF vars, TypeOK, IsAny
    <3>2. stack' = stack /\ life' = life /\ queue' = queue BY <2>2 DEF vars
    <3> QED BY <2>2, <3>1, <3>2, StackQuiet, Quiet
  <2> QED BY <2>1, <2>2
<1> QED BY <1>1, <1>2, PTL DEF Spec

(* A task is in one place: its step is on one stack, once, and then it is  *)
(* running; or it is queued, once; whoever dispatches on top of what.      *)
THEOREM InOnePlace == Spec => []Lives
<1>1. Nested => Lives BY DEF Nested
<1> QED BY <1>1, NestedInvariant, PTL

(* No task is held up by itself, nor several by each other through waits   *)
(* and the steps dispatched in them, on however many threads, as long as   *)
(* no task that waits for its children ever suspends.                      *)
THEOREM NoBuriedWaitHolds == ASSUME Committed PROVE Spec => []NoBuriedWait
<1>1. TypeOK /\ Nested => NoBuriedWait BY NoneIsBuried
<1> QED BY <1>1, NestedInvariant, PTL

-----------------------------------------------------------------------------
(* RunQueue implements TaskLifecycle.                                      *)
LEMMA PhaseValues ==
  /\ PhaseOf["new"] = "new" /\ PhaseOf["queued"] = "ready" /\ PhaseOf["running"] = "running"
  /\ PhaseOf["parked"] = "blocked" /\ PhaseOf["done"] = "done"
BY DEF PhaseOf

LEMMA Moves ==
  ASSUME TypeOK, NEW t \in Tasks, NEW v, life[t] = v, NEW u, life' = [life EXCEPT ![t] = u]
  PROVE  Lifecycle!Move(t, PhaseOf[v], PhaseOf[u])
BY DEF TypeOK, Lifecycle!Move

(* What a step of a task on top of a stack says of the task.               *)
LEMMA TopRuns ==
  ASSUME TypeOK, Nested, NEW th \in Threads, NEW t \in Tasks, Is(th, "run", t)
  PROVE  life[t] = "running"
<1>1. Len(stack[th]) \in Nat /\ Runs(th, Len(stack[th]), t)
  BY EmptySeq DEF TypeOK, Is, Runs
<1> QED BY <1>1 DEF Nested, Lives

LEMMA DispatchMoves ==
  ASSUME TypeOK, Nested, NEW th, Dispatch(th)
  PROVE  \E t \in Tasks : Lifecycle!Dispatch(t)
<1>1. PICK t : t = Head(queue) OBVIOUS
<1>2. t \in Tasks /\ life' = [life EXCEPT ![t] = "running"] BY <1>1, DispatchFacts DEF Dispatch
<1>3. 1 \in 1..Len(queue) /\ t = queue[1]
  BY <1>1, EmptySeq, HeadTailProperties DEF TypeOK, Dispatch
<1>4. life[t] = "queued" BY <1>3 DEF Nested, Lives
<1> QED BY <1>2, <1>4, Moves, PhaseValues DEF Lifecycle!Dispatch

LEMMA LifecycleStep ==
  TypeOK /\ Nested /\ [Next]_vars => [Lifecycle!Next]_([t \in Tasks |-> PhaseOf[life[t]]])
<1> SUFFICES ASSUME TypeOK, Nested, [Next]_vars
             PROVE  Lifecycle!Next \/ UNCHANGED [t \in Tasks |-> PhaseOf[life[t]]]
  OBVIOUS
<1> USE DEF Lifecycle!Next
<1>1. ASSUME NEW th \in Threads, NEW t \in Tasks, NEW c, Submit(th, c, t) PROVE Lifecycle!Next
  BY <1>1, Moves, PhaseValues DEF Submit, Lifecycle!Spawn
<1>2. ASSUME NEW th, Dispatch(th) PROVE Lifecycle!Next BY <1>2, DispatchMoves
<1>3. ASSUME NEW th \in Threads, NEW t \in Tasks, Suspend(th, t) PROVE Lifecycle!Next
  BY <1>3, TopRuns, Moves, PhaseValues DEF Suspend, Lifecycle!Block
<1>4. ASSUME NEW th \in Threads, NEW t \in Tasks, Requeue(th, t) PROVE Lifecycle!Next
  BY <1>4, TopRuns, Moves, PhaseValues DEF Requeue, Lifecycle!Yield
<1>5. ASSUME NEW th \in Threads, NEW t \in Tasks, Finish(th, t) PROVE Lifecycle!Next
  BY <1>5, TopRuns, Moves, PhaseValues DEF Finish, Lifecycle!Complete
<1>6. ASSUME NEW j \in Tasks, life[j] = "parked", life' = [life EXCEPT ![j] = "queued"]
      PROVE  Lifecycle!Next
  BY <1>6, Moves, PhaseValues DEF Lifecycle!Wake
<1>7. ASSUME NEW th, NEW t \in Tasks, SignalDone(th, t)
      PROVE  Lifecycle!Next \/ life' = life
  BY <1>6, <1>7 DEF SignalDone
<1>8. ASSUME NEW t \in Tasks, Wake(t) PROVE Lifecycle!Next BY <1>6, <1>8 DEF Wake
<1>9. ASSUME NEW th, NEW c, NEW t,
             \/ WaitCall(th, c, t) \/ TimedCall(th, c, t) \/ Cancel(th, c, t) \/ WaitCheck(th, t)
             \/ WaitSleep(th, t) \/ TimedSleep(th, t) \/ TimedReturn(th, t)
             \/ CancelBroadcast(th, t) \/ WorkerSleep(th) \/ WorkerExit(th) \/ SpuriousWake(th)
             \/ Shutdown \/ JoinWorkers \/ UNCHANGED vars
      PROVE  life' = life
  BY <1>9 DEF WaitCall, TimedCall, Cancel, WaitCheck, WaitSleep, TimedSleep, TimedReturn,
              CancelBroadcast, WorkerSleep, WorkerExit, SpuriousWake, Shutdown, JoinWorkers, vars
<1>10. Lifecycle!Next \/ life' = life
  BY <1>1, <1>2, <1>3, <1>4, <1>5, <1>7, <1>8, <1>9 DEF Next, WaitPop, WorkerPop
<1> QED BY <1>10

(* Every task lives the life TaskLifecycle promises, nested dispatch,      *)
(* bounded waits, cancellation and shutdown included.                      *)
THEOREM LifecycleImplemented == Spec => ImplementsLifecycle
<1>1. Init => Lifecycle!Init BY PhaseValues DEF Init, Lifecycle!Init
<1> QED BY <1>1, LifecycleStep, NestedInvariant, PTL DEF Spec, ImplementsLifecycle, Lifecycle!Spec

-----------------------------------------------------------------------------
(* Wakeups for work.  A signal goes to one sleeper.  When it goes to main, *)
(* main takes the one task there is; every other one finds a worker awake. *)
NobodyTimed == \A th \in Threads : \A i \in 1..Len(stack[th]) : stack[th][i].op # "timed"

WorkerAwake == \E w \in Workers : pool[w] = "up" /\ Awake(w)

Seen ==
  \/ BroadcastDue
  \/ WorkerAwake
  \/ queue = <<>>
  \/ Len(queue) = 1 /\ Dispatcher(Main)

LEMMA SeenIsEnough == ASSUME Seen PROVE NoSleepOnWork
BY RunQueueAssumption DEF Seen, NoSleepOnWork, WorkerAwake, Dispatcher, Threads

(* The newest activities are those of waits that end: nothing times out.   *)
LEMMA AllAwake == ASSUME Leaving, asleep = {} PROVE Seen
BY DEF Leaving, Seen, WorkerAwake, Awake

LEMMA WorkersStayUp ==
  ASSUME TypeOK, Leaving, NEW w \in Workers, stack[w] # <<>> \/ w \in asleep
  PROVE  pool[w] = "up"
BY DEF TypeOK, Leaving, IsAny

(* One thread moves, is awake before and after, owed no broadcast, and was *)
(* no dispatcher if it is main.                                            *)
LEMMA SeenStays ==
  ASSUME Seen, NEW th \in Threads, queue' = queue, pool' = pool, asleep' = asleep, done' = done,
         ~IsAny(th, {"signal", "cancel"}), ~(th = Main /\ Dispatcher(Main)),
         \A x \in Threads \ {th} : /\ \A o, u : Is(x, o, u)' <=> Is(x, o, u)
                                   /\ \A ops : IsAny(x, ops)' <=> IsAny(x, ops)
  PROVE  Seen'
<1>1. CASE BroadcastDue BY <1>1 DEF BroadcastDue, Seen
<1>2. CASE WorkerAwake BY <1>2 DEF WorkerAwake, Awake, Seen
<1>3. CASE queue = <<>> BY <1>3 DEF Seen
<1>4. CASE Len(queue) = 1 /\ Dispatcher(Main)
  <2>1. Main \in Threads \ {th} BY <1>4 DEF Threads
  <2> QED BY <1>4, <2>1 DEF Seen, Dispatcher, Awake
<1> QED BY <1>1, <1>2, <1>3, <1>4 DEF Seen

LEMMA NoneTimed ==
  ASSUME TypeOK, NobodyTimed, NEW th \in Threads, NEW t PROVE ~Is(th, "timed", t)
<1> SUFFICES ASSUME Is(th, "timed", t) PROVE FALSE OBVIOUS
<1>1. stack[th] \in Seq(Activity) /\ stack[th] # <<>>
           /\ stack[th][Len(stack[th])].op = "timed"
  BY DEF TypeOK, Is, Doing
<1>2. Len(stack[th]) \in 1..Len(stack[th]) BY <1>1, EmptySeq
<1> QED BY <1>1, <1>2 DEF NobodyTimed

LEMMA NobodyTimedStep ==
  ASSUME TypeOK, NobodyTimed, TimedCallers = {}, Next PROVE NobodyTimed'
<1>1. ASSUME NEW th \in Threads, NEW op \in Ops \ {"timed"}, NEW t \in Tasks, Start(th, op, t)
      PROVE  NobodyTimed'
  <2>1. /\ stack[th] \in Seq(Activity) /\ Doing(op, t) \in Activity
        /\ Doing(op, t).op # "timed" /\ Len(stack[th]) \in Nat
    BY <1>1, DoingType, EmptySeq DEF TypeOK
  <2>2. stack' = [stack EXCEPT ![th] = Append(stack[th], Doing(op, t))] BY <1>1 DEF Start
  <2>3. \A i \in 1..Len(stack'[th]) : stack'[th][i].op # "timed"
    BY <2>1, <2>2, AppendFacts DEF NobodyTimed, TypeOK
  <2> QED BY <2>2, <2>3 DEF NobodyTimed, TypeOK
<1>2. ASSUME NEW th \in Threads, stack[th] # <<>> PROVE
        /\ Below(th) \in Seq(Activity) /\ Len(Below(th)) \in Nat
        /\ \A i \in 1..Len(Below(th)) : Below(th)[i].op # "timed"
  BY <1>2, FrontFacts DEF TypeOK, NobodyTimed, Below
<1>3. ASSUME NEW th \in Threads, stack[th] # <<>>, End(th) PROVE NobodyTimed'
  BY <1>2, <1>3 DEF End, NobodyTimed, TypeOK
<1>4. ASSUME NEW th \in Threads, NEW op \in Ops \ {"timed"}, NEW t \in Tasks, stack[th] # <<>>,
             Become(th, op, t)
      PROVE  NobodyTimed'
  <2>1. Doing(op, t) \in Activity /\ Doing(op, t).op # "timed" BY <1>4, DoingType
  <2>2. stack' = [stack EXCEPT ![th] = Append(Below(th), Doing(op, t))] BY <1>4 DEF Become
  <2>3. \A i \in 1..Len(stack'[th]) : stack'[th][i].op # "timed"
    BY <1>2, <1>4, <2>1, <2>2, AppendFacts DEF TypeOK
  <2> QED BY <2>2, <2>3 DEF NobodyTimed, TypeOK
<1>5. ASSUME NEW th \in Threads, NEW t \in Tasks, WaitPop(th, t) PROVE NobodyTimed'
  <2> DEFINE n == Len(stack[th])
  <2>1. n \in Nat /\ Len(stack'[th]) = n + 1 BY <1>5, WaitPopFacts, EmptySeq DEF TypeOK
  <2> HIDE DEF n
  <2>2. \A i \in 1..n + 1 : i \in 1..n - 1 \/ i = n \/ i = n + 1 BY <2>1
  <2>3. \A i \in 1..n - 1 : i \in 1..n BY <2>1
  <2>4. \A i \in 1..Len(stack'[th]) : stack'[th][i].op # "timed"
    <3> TAKE i \in 1..Len(stack'[th])
    <3>1. CASE i \in 1..n - 1
      <4>1. stack'[th][i] = stack[th][i] BY <1>5, <3>1, WaitPopFacts DEF n
      <4> QED BY <2>3, <3>1, <4>1 DEF NobodyTimed, n
    <3>2. CASE i = n
      <4>1. stack'[th][i] = Doing("wait", t) BY <1>5, <3>2, WaitPopFacts DEF n
      <4> QED BY <4>1 DEF Doing
    <3>3. CASE i = n + 1
      <4>1. stack'[th][i] = Doing("run", Head(queue)) BY <1>5, <3>3, WaitPopFacts DEF n
      <4> QED BY <4>1 DEF Doing
    <3> QED BY <2>1, <2>2, <3>1, <3>2, <3>3
  <2> QED BY <1>5, <2>4, WaitPopFacts DEF NobodyTimed
<1>6. ASSUME stack' = stack PROVE NobodyTimed' BY <1>6 DEF NobodyTimed
<1>7. ASSUME NEW th \in Threads, NEW t \in Tasks, NEW c,
             \/ Submit(th, c, t) \/ WaitCall(th, c, t) \/ TimedCall(th, c, t) \/ Cancel(th, c, t)
      PROVE  NobodyTimed'
  BY <1>1, <1>6, <1>7 DEF Submit, WaitCall, TimedCall, Cancel, Ops
<1>8. ASSUME NEW th \in Threads, NEW t \in Tasks,
             \/ WaitCheck(th, t) \/ WaitSleep(th, t) \/ TimedReturn(th, t)
             \/ CancelBroadcast(th, t) \/ Suspend(th, t) \/ Requeue(th, t) \/ Finish(th, t)
             \/ SignalDone(th, t)
      PROVE  NobodyTimed'
  <2>1. stack[th] # <<>>
    BY <1>8, OneTop DEF WaitCheck, WaitSleep, TimedReturn, CancelBroadcast, Suspend, Requeue,
                        Finish, SignalDone
  <2>2. End(th) \/ \E op \in {"poll", "wait", "signal"} : Become(th, op, t)
    BY <1>8 DEF WaitCheck, WaitSleep, TimedReturn, CancelBroadcast, Suspend, Requeue, Finish,
                SignalDone
  <2> QED BY <1>3, <1>4, <2>1, <2>2 DEF Ops
<1>9. ASSUME NEW w \in Workers, WorkerPop(w) PROVE NobodyTimed'
  BY <1>1, <1>9, DispatchFacts DEF WorkerPop, Ops, Threads
<1>10. ASSUME NEW th, NEW t, TimedSleep(th, t) \/ WorkerSleep(th) \/ WorkerExit(th) \/ Wake(t)
                             \/ SpuriousWake(th) \/ Shutdown \/ JoinWorkers
       PROVE  NobodyTimed'
  BY <1>6, <1>10 DEF TimedSleep, WorkerSleep, WorkerExit, Wake, SpuriousWake, Shutdown,
                     JoinWorkers
<1> QED BY <1>5, <1>7, <1>8, <1>9, <1>10 DEF Next

(* A push, by a thread that owes nothing or by nobody.                     *)
LEMMA SeenAfterPush ==
  ASSUME TypeOK, NoSleepOnDone, Leaving, Leaving', Seen, NobodyTimed, NEW t \in Tasks, Push(t),
         done' = done,
         \A x \in Threads : \/ \A o, u : Is(x, o, u) => o = "run"
                            \/ /\ \A o, u : Is(x, o, u)' <=> Is(x, o, u)
                               /\ \A ops : IsAny(x, ops)' <=> IsAny(x, ops)
  PROVE  Seen'
<1>1. /\ queue \in Seq(Tasks) /\ queue' = Append(queue, t) /\ queue' # <<>>
      /\ asleep' \subseteq asleep
      /\ \A w \in Workers : pool'[w] = IF pool[w] = "unborn" THEN "up" ELSE pool[w]
  BY PushFacts DEF Push, TypeOK
<1>2. BroadcastDue => BroadcastDue'
  <2> SUFFICES ASSUME NEW x \in Threads, IsAny(x, {"signal", "cancel"})
               PROVE  IsAny(x, {"signal", "cancel"})'
    BY DEF BroadcastDue
  <2>1. \E o \in {"signal", "cancel"} : \E u : Is(x, o, u)
    <3>1. stack[x][Len(stack[x])] \in Activity BY EmptySeq, ElementOfSeq DEF TypeOK, IsAny
    <3> QED BY <3>1 DEF IsAny, Is, Activity, Doing
  <2> QED BY <2>1
<1>3. WorkerAwake => WorkerAwake' BY <1>1 DEF WorkerAwake, Awake
<1>4. PICK w \in Workers : pool'[w] = "up" BY <1>1 DEF Leaving
<1>5. CASE asleep = {} BY <1>1, <1>4, <1>5 DEF Seen, WorkerAwake, Awake
<1>6. ASSUME NEW y \in asleep, asleep' = asleep \ {y} PROVE Seen'
  <2>1. CASE y \in Workers
    <3>1. pool'[y] = "up" BY <1>1, <1>6, <2>1, WorkersStayUp
    <3> QED BY <1>6, <2>1, <3>1 DEF Seen, WorkerAwake, Awake
  <2>2. CASE y = Main
    <3>1. Main \in Threads /\ Main \notin Workers BY RunQueueAssumption DEF Threads
    <3>2. PICK u \in Tasks : Is(Main, "wait", u)
      <4>1. IsAny(Main, {"wait", "timed"}) BY <1>6, <2>2, <3>1 DEF TypeOK
      <4>2. stack[Main][Len(stack[Main])] \in Activity
        BY <3>1, <4>1, EmptySeq, ElementOfSeq DEF TypeOK, IsAny
      <4>3. \E u \in Tasks : Is(Main, "wait", u) \/ Is(Main, "timed", u)
        BY <4>1, <4>2 DEF IsAny, Is, Activity, Doing
      <4> QED BY <3>1, <4>3, NoneTimed
    <3>3. CASE u \in done
      <4>1. PICK x \in Threads : Is(x, "signal", u)
        BY <1>6, <2>2, <3>2, <3>3 DEF NoSleepOnDone
      <4>2. BroadcastDue BY <4>1, OneTop DEF BroadcastDue
      <4> QED BY <1>2, <4>2 DEF Seen
    <3>4. CASE u \notin done
      <4>1. Dispatcher(Main)' BY <1>6, <2>2, <3>1, <3>2, <3>4 DEF Dispatcher, Awake
      <4>2. ~Dispatcher(Main) BY <1>6, <2>2 DEF Dispatcher, Awake
      <4>3. queue = <<>> => Len(queue') = 1 BY <1>1
      <4> QED BY <1>2, <1>3, <4>1, <4>2, <4>3 DEF Seen
    <3> QED BY <3>3, <3>4
  <2> QED BY <1>6, <2>1, <2>2 DEF TypeOK, Threads
<1> QED BY <1>5, <1>6 DEF Push

LEMMA SeenStep ==
  ASSUME TypeOK, NoSleepOnDone, Leaving, Leaving', Seen, NobodyTimed, TimedCallers = {}, Next
  PROVE  Seen'
<1> DEFINE Others(th) == \A x \in Threads \ {th} : /\ \A o, u : Is(x, o, u)' <=> Is(x, o, u)
                                                   /\ \A ops : IsAny(x, ops)' <=> IsAny(x, ops)
<1>a. Main \in Threads /\ Main \notin Workers /\ Workers \subseteq Threads
  BY RunQueueAssumption DEF Threads
<1>b. ASSUME stack' = stack PROVE /\ \A x, o, u : Is(x, o, u)' <=> Is(x, o, u)
                                  /\ \A x, ops : IsAny(x, ops)' <=> IsAny(x, ops)
  BY <1>b DEF Is, IsAny
<1>c. ASSUME stack' = stack, queue' = queue, done' = done, asleep' \subseteq asleep,
             \A w \in Workers : pool'[w] = pool[w]
      PROVE  Seen'
  BY <1>a, <1>b, <1>c DEF Seen, BroadcastDue, WorkerAwake, Dispatcher, Awake
<1>1. ASSUME NEW th \in Threads, NEW t \in Tasks, NEW c, Submit(th, c, t) PROVE Seen'
  <2>1. Push(t) /\ done' = done /\ stack' = stack BY <1>1 DEF Submit
  <2> QED BY <1>b, <2>1, SeenAfterPush
<1>2. ASSUME NEW th \in Threads, NEW t \in Tasks, NEW c, NEW op \in {"wait", "cancel"},
             Code(th, c), Start(th, op, t),
             queue' = queue, pool' = pool, asleep' = asleep, done' = done
      PROVE  Seen'
  <2>1. Others(th) BY <1>2, StartFacts DEF Ops
  <2>2. ~IsAny(th, {"signal", "cancel"}) /\ ~(th = Main /\ Dispatcher(Main))
    <3>1. CASE Is(th, "run", c) BY <1>a, <3>1, OneTop DEF Dispatcher
    <3>2. CASE stack[th] = <<>> /\ th = Main BY <1>a, <3>2 DEF IsAny, Is, Dispatcher
    <3> QED BY <1>2, <3>1, <3>2 DEF Code
  <2> QED BY <1>2, <2>1, <2>2, SeenStays
<1>3. ASSUME NEW th \in Threads, NEW t \in Tasks, NEW c,
             WaitCall(th, c, t) \/ TimedCall(th, c, t) \/ Cancel(th, c, t)
      PROVE  Seen'
  BY <1>2, <1>3 DEF WaitCall, TimedCall, Cancel
<1>4. ASSUME NEW th \in Threads, NEW t \in Tasks, WaitCheck(th, t) PROVE Seen'
  <2>1. /\ Is(th, "wait", t) /\ Awake(th)
        /\ queue' = queue /\ pool' = pool /\ asleep' = asleep /\ done' = done
    BY <1>4 DEF WaitCheck
  <2>2. /\ stack[th] # <<>> /\ ~IsAny(th, {"signal", "cancel"})
        /\ \A u \in Tasks : Is(th, "wait", u) => u = t
        /\ ~IsAny(th, {"poll"})
    BY <2>1, OneTop
  <2>3. CASE t \in done /\ End(th)
    <3>1. Others(th) BY <2>2, <2>3, EndFacts
    <3>2. ~(th = Main /\ Dispatcher(Main)) BY <1>a, <2>2, <2>3 DEF Dispatcher
    <3> QED BY <2>1, <2>2, <3>1, <3>2, SeenStays
  <2>4. CASE Become(th, "poll", t)
    <3>1. Others(th) /\ IsAny(th, {"poll"})' BY <2>2, <2>4, BecomeFacts DEF Ops
    <3>2. th = Main => Dispatcher(Main)' BY <2>1, <3>1 DEF Dispatcher, Awake
    <3>3. CASE th = Main /\ Dispatcher(Main)
      BY <2>1, <2>2, <3>1, <3>2, <3>3 DEF Seen, BroadcastDue, WorkerAwake, Awake
    <3>4. CASE ~(th = Main /\ Dispatcher(Main)) BY <2>1, <2>2, <3>1, <3>4, SeenStays
    <3> QED BY <3>3, <3>4
  <2> QED BY <1>4, <2>3, <2>4 DEF WaitCheck
<1>5. ASSUME NEW th \in Threads, NEW t \in Tasks, WaitPop(th, t) PROVE Seen'
  <2>1. /\ Is(th, "poll", t) /\ queue # <<>> /\ queue' = Tail(queue)
        /\ pool' = pool /\ asleep' = asleep /\ done' = done
    BY <1>5 DEF WaitPop, Dispatch
  <2>2. stack[th] # <<>> /\ ~IsAny(th, {"signal", "cancel"}) BY <2>1, OneTop
  <2>3. Awake(th)
    <3>1. stack[th] # <<>> /\ ~IsAny(th, {"wait", "timed"}) BY <2>1, OneTop
    <3> QED BY <3>1 DEF TypeOK, Awake
  <2>4. Others(th) BY <1>5, WaitPopFacts
  <2>5. CASE th \in Workers
    <3>1. pool[th] = "up" BY <2>2, <2>5, WorkersStayUp
    <3> QED BY <2>1, <2>3, <2>5, <3>1 DEF Seen, WorkerAwake, Awake
  <2>6. CASE th = Main
    <3>1. CASE BroadcastDue BY <2>2, <2>4, <3>1 DEF BroadcastDue, Seen
    <3>2. CASE WorkerAwake BY <2>1, <3>2 DEF WorkerAwake, Awake, Seen
    <3>3. CASE Len(queue) = 1
      <4>1. Len(queue') = 0 /\ queue' \in Seq(Tasks)
        BY <2>1, <3>3, HeadTailProperties DEF TypeOK
      <4> QED BY <4>1, EmptySeq DEF Seen
    <3> QED BY <2>1, <3>1, <3>2, <3>3 DEF Seen
  <2> QED BY <2>5, <2>6 DEF Threads
<1>6. ASSUME NEW th \in Threads, NEW t \in Tasks, WaitSleep(th, t) PROVE Seen'
  BY <1>6 DEF WaitSleep, Seen
<1>7. ASSUME NEW th \in Threads, NEW t \in Tasks, TimedSleep(th, t) \/ TimedReturn(th, t)
      PROVE  Seen'
  BY <1>7, NoneTimed DEF TimedSleep, TimedReturn
<1>8. ASSUME NEW th \in Threads, NEW t \in Tasks,
             CancelBroadcast(th, t) \/ SignalDone(th, t) \/ Shutdown
      PROVE  Seen'
  BY <1>8 DEF CancelBroadcast, SignalDone, Shutdown, Leaving, Seen, WorkerAwake, Awake
<1>9. ASSUME NEW th \in Threads, NEW t \in Tasks, Suspend(th, t) PROVE Seen'
  <2>1. /\ Is(th, "run", t) /\ End(th)
        /\ queue' = queue /\ pool' = pool /\ asleep' = asleep /\ done' = done
    BY <1>9 DEF Suspend
  <2>2. /\ ~IsAny(th, {"signal", "cancel"}) /\ ~(th = Main /\ Dispatcher(Main))
        /\ stack[th] # <<>>
    BY <1>a, <2>1, OneTop DEF Dispatcher
  <2> QED BY <2>1, <2>2, EndFacts, SeenStays
<1>10. ASSUME NEW th \in Threads, NEW t \in Tasks, Requeue(th, t) PROVE Seen'
  <2>1. Is(th, "run", t) /\ End(th) /\ Push(t) /\ done' = done BY <1>10 DEF Requeue
  <2>2. stack[th] # <<>> /\ \A o, u : Is(th, o, u) => o = "run" BY <2>1, OneTop
  <2> QED BY <2>1, <2>2, EndFacts, SeenAfterPush
<1>11. ASSUME NEW th \in Threads, NEW t \in Tasks, Finish(th, t) PROVE Seen'
  <2>1. Become(th, "signal", t) /\ stack[th] # <<>> BY <1>11, OneTop DEF Finish
  <2>2. IsAny(th, {"signal", "cancel"})' BY <2>1, BecomeFacts DEF Ops
  <2> QED BY <2>2 DEF Seen, BroadcastDue
<1>12. ASSUME NEW w \in Workers, WorkerPop(w) PROVE Seen'
  BY <1>12 DEF WorkerPop, AtLoop, Dispatch, Awake, Seen, WorkerAwake
<1>13. ASSUME NEW w \in Workers, WorkerSleep(w) \/ WorkerExit(w) PROVE Seen'
  BY <1>13 DEF WorkerSleep, WorkerExit, Seen
<1>14. ASSUME NEW t \in Tasks, Wake(t) PROVE Seen'
  <2>1. Push(t) /\ done' = done /\ stack' = stack BY <1>14 DEF Wake
  <2> QED BY <1>b, <2>1, SeenAfterPush
<1>15. ASSUME NEW th \in Threads, SpuriousWake(th) PROVE Seen'
  BY <1>c, <1>15 DEF SpuriousWake
<1>16. CASE JoinWorkers BY <1>c, <1>16 DEF JoinWorkers
<1>17. CASE Shutdown BY <1>17 DEF Shutdown, Leaving, Seen, WorkerAwake, Awake
<1> QED
  BY <1>1, <1>3, <1>4, <1>5, <1>6, <1>7, <1>8, <1>9, <1>10, <1>11, <1>12, <1>13, <1>14, <1>15,
     <1>16, <1>17 DEF Next

(* Where nobody calls waitUntil, a queued task is always seen by somebody  *)
(* (RunQueueTimedLost shows what a caller of waitUntil can miss).          *)
THEOREM NoSleepOnWorkHolds == ASSUME TimedCallers = {} PROVE Spec => []NoSleepOnWork
<1>1. Init => IInv /\ Seen /\ NobodyTimed
  <2> SUFFICES ASSUME Init PROVE IInv /\ Seen /\ NobodyTimed OBVIOUS
  <2>1. IInv BY InitInv
  <2>2. Seen BY DEF Init, Seen
  <2>3. NobodyTimed BY EmptySeq DEF Init, NobodyTimed
  <2> QED BY <2>1, <2>2, <2>3
<1>2. IInv /\ Seen /\ NobodyTimed /\ [Next]_vars => (IInv /\ Seen /\ NobodyTimed)'
  <2> SUFFICES ASSUME IInv, Seen, NobodyTimed, [Next]_vars PROVE (IInv /\ Seen /\ NobodyTimed)'
    OBVIOUS
  <2>1. IInv' BY StepInv
  <2>2. CASE Next BY <2>1, <2>2, SeenStep, NobodyTimedStep DEF IInv
  <2>3. CASE UNCHANGED vars
    BY <2>1, <2>3 DEF vars, Seen, NobodyTimed, BroadcastDue, WorkerAwake, Dispatcher, Awake, Is,
                      IsAny
  <2> QED BY <2>2, <2>3
<1>3. Seen => NoSleepOnWork BY SeenIsEnough
<1> QED BY <1>1, <1>2, <1>3, PTL DEF Spec

=============================================================================
