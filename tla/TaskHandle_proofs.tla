--------------------------- MODULE TaskHandle_proofs ---------------------------
(***************************************************************************)
(* Theorems about TaskHandle for any handles, workers, bindings and        *)
(* allocators, all of them on one condition, NoEarlyReuse: storage is not  *)
(* used for a task while a step of its last one is still on a thread.  A   *)
(* program that uses each storage once meets it.  For one that uses some   *)
(* again (a joined binding in a loop, or the memory of a pooled handle     *)
(* when malloc hands it out once more) it is an assumption: yoop_task_wait *)
(* returns, or the last binding goes, before the step's tail is over       *)
(* (yoop_runtime.c 228-238), nothing in the code holds the next spawn      *)
(* back, and without it FollowsTask fails.                                 *)
(***************************************************************************)
EXTENDS TaskHandle, SequenceTheorems, TLAPS

(***************************************************************************)
(* The strengthening, in parts.                                            *)
(***************************************************************************)
NoEarlyReuse == LateReuse \/ Spawns = 1

Places(th) == 1..Len(stack[th])
In(th, i) == stack[th][i].task[1]

(* A handle has one step at a time, of the task it holds now.              *)
Alone ==
  /\ \A th1, th2 \in Threads : \A i \in Places(th1), k \in Places(th2) :
       In(th1, i) = In(th2, k) => th1 = th2 /\ i = k
  /\ \A th \in Threads : \A i \in Places(th) : stack[th][i].task[2] = gen[In(th, i)]

(* A queued or parked task is unfinished, exists, and has no step.         *)
Suspended ==
  /\ ready \cap parked = {}
  /\ \A t \in ready \cup parked :
       t[2] = gen[t[1]] /\ t[1] \in live /\ state[t[1]] = 0 /\ ~Stepping(t[1])

(* How far a step has come, and what that says of its handle.              *)
Phases ==
  \A th \in Threads : \A i \in Places(th) :
    LET h == In(th, i)
        pc == stack[th][i].pc IN
      /\ pc \in {"body", "store", "park"} => h \in live /\ state[h] = 0
      /\ pc \in {"sync", "release"} => state[h] = 1 /\ (h \in Pooled => h \in live)
      /\ pc = "discard" => state[h] = 1
      /\ pc = "tail" /\ state[h] = 0 => h \in live

(* The worker's reference is outstanding.                                  *)
Owned(h) ==
  \/ \E t \in ready \cup parked : t[1] = h
  \/ \E th \in Threads : \E i \in Places(th) :
       /\ In(th, i) = h
       /\ stack[th][i].pc \in {"tail", "discard"} => state[h] = 0

(* The count is the bindings and the worker.                               *)
Counted ==
  \A h \in Handles :
    /\ h \in Pooled => refs[h] = held[h] + IF Owned(h) THEN 1 ELSE 0
    /\ h \in Pooled => (h \in live <=> refs[h] > 0)
    /\ h \notin Pooled => refs[h] = 0 /\ held[h] \in {0, 1} /\ (h \in live <=> held[h] = 1)

(* Each frame has saved the slot and the allocator of the code below it.   *)
Saved ==
  \A th \in Threads :
    /\ slot[th] = IF stack[th] = <<>> THEN Main ELSE In(th, Len(stack[th]))
    /\ cur[th] = IF stack[th] # <<>> THEN own[In(th, Len(stack[th]))]
                 ELSE IF th = Main THEN own[Main] ELSE Unset
    /\ \A i \in Places(th) :
         /\ stack[th][i].slot = IF i = 1 THEN Main ELSE In(th, i - 1)
         /\ stack[th][i].alloc = IF i > 1 THEN own[In(th, i - 1)]
                                 ELSE IF th = Main THEN own[Main] ELSE Unset

(* The record of a task that is not on a thread is what it installed.      *)
Recorded(h) == IF ctx[h] = NoRecord THEN own[h] = Unset ELSE ctx[h] = own[h]

Remembered ==
  /\ \A t \in ready \cup parked : Recorded(t[1])
  /\ \A th \in Threads : \A i \in Places(th) :
       stack[th][i].pc = "park" => Recorded(In(th, i))

(* What is over has left nothing, and a task's arena is in its record.     *)
Cleared ==
  \A h \in Handles :
    /\ ~Stepping(h) /\ (state[h] = 1 \/ h \notin live) => ctx[h] = NoRecord
    /\ ctx[h] = NoRecord => temp[h] = {}

IInv ==
  /\ TypeOK /\ Alone /\ Suspended /\ Phases /\ Counted
  /\ Saved /\ Remembered /\ Cleared /\ ScratchIsOwn

-----------------------------------------------------------------------------
(* What stacks are made of.                                                *)
LEMMA FrameTyped ==
  ASSUME TypeOK, NEW th \in Threads, NEW i \in Places(th)
  PROVE  /\ stack[th] \in Seq(Frame) /\ Len(stack[th]) \in Nat /\ i \in Nat
         /\ stack[th][i] \in Frame
         /\ stack[th][i].task \in Task /\ stack[th][i].pc \in Steps
         /\ stack[th][i].alloc \in Regions \cup {Unset} /\ stack[th][i].slot \in Codes
         /\ In(th, i) \in Handles
<1>1. stack[th] \in Seq(Frame) BY DEF TypeOK
<1>2. stack[th][i] \in Frame BY <1>1, ElementOfSeq DEF Places
<1> QED BY <1>1, <1>2, LenProperties DEF Places, Frame, Task, In

LEMMA TopTyped ==
  ASSUME TypeOK, NEW th \in Threads, stack[th] # <<>>
  PROVE  /\ Len(stack[th]) \in Places(th) /\ Len(stack[th]) \in Nat \ {0}
         /\ Top(th) \in Frame /\ Top(th).task \in Task
         /\ Top(th).alloc \in Regions \cup {Unset} /\ Top(th).slot \in Codes
         /\ On(th) \in Handles /\ In(th, Len(stack[th])) = On(th)
<1>1. stack[th] \in Seq(Frame) BY DEF TypeOK
<1>2. Len(stack[th]) \in Nat \ {0} BY <1>1, EmptySeq
<1>3. Len(stack[th]) \in Places(th) BY <1>2 DEF Places
<1> QED BY <1>2, <1>3, FrameTyped DEF Top, On, In, Frame

LEMMA PushFacts ==
  ASSUME TypeOK, NEW th \in Threads, NEW f \in Frame,
         stack' = [stack EXCEPT ![th] = Append(stack[th], f)]
  PROVE  /\ stack' \in [Threads -> Seq(Frame)]
         /\ \A x \in Threads \ {th} : stack'[x] = stack[x]
         /\ Len(stack'[th]) = Len(stack[th]) + 1 /\ Len(stack[th]) \in Nat
         /\ stack'[th] # <<>>
         /\ Places(th)' = Places(th) \cup {Len(stack[th]) + 1}
         /\ Len(stack[th]) + 1 \notin Places(th)
         /\ \A i \in Places(th) : stack'[th][i] = stack[th][i]
         /\ stack'[th][Len(stack[th]) + 1] = f
<1>1. stack[th] \in Seq(Frame) /\ Len(stack[th]) \in Nat BY LenProperties DEF TypeOK
<1>2. stack'[th] = Append(stack[th], f) BY DEF TypeOK
<1>3. /\ Append(stack[th], f) \in Seq(Frame)
      /\ Len(Append(stack[th], f)) = Len(stack[th]) + 1
      /\ \A i \in 1..Len(stack[th]) : Append(stack[th], f)[i] = stack[th][i]
      /\ Append(stack[th], f)[Len(stack[th]) + 1] = f
  BY <1>1, AppendProperties
<1>4. stack'[th] # <<>> BY <1>1, <1>2, <1>3, EmptySeq
<1>5. Places(th)' = Places(th) \cup {Len(stack[th]) + 1} /\ Len(stack[th]) + 1 \notin Places(th)
  BY <1>1, <1>2, <1>3 DEF Places
<1>6. stack' \in [Threads -> Seq(Frame)] /\ \A x \in Threads \ {th} : stack'[x] = stack[x]
  BY <1>3 DEF TypeOK
<1> QED BY <1>1, <1>2, <1>3, <1>4, <1>5, <1>6 DEF Places

LEMMA PopFacts ==
  ASSUME TypeOK, NEW th \in Threads, stack[th] # <<>>,
         stack' = [stack EXCEPT ![th] = Below(th)]
  PROVE  /\ stack' \in [Threads -> Seq(Frame)]
         /\ \A x \in Threads \ {th} : stack'[x] = stack[x]
         /\ Len(stack'[th]) = Len(stack[th]) - 1
         /\ (stack'[th] = <<>>) <=> (Len(stack[th]) = 1)
         /\ Places(th)' = Places(th) \ {Len(stack[th])}
         /\ \A i \in Places(th)' : stack'[th][i] = stack[th][i]
<1>1. stack[th] \in Seq(Frame) /\ Len(stack[th]) \in Nat \ {0} BY TopTyped DEF TypeOK
<1>2. stack'[th] = SubSeq(stack[th], 1, Len(stack[th]) - 1) BY DEF TypeOK, Below
<1>3. \A i \in 1..Len(stack[th]) - 1 : stack[th][i] \in Frame BY <1>1, ElementOfSeq
<1>4. /\ stack'[th] \in Seq(Frame)
      /\ Len(stack'[th]) = Len(stack[th]) - 1
      /\ \A i \in 1..Len(stack[th]) - 1 : stack'[th][i] = stack[th][i]
  BY <1>1, <1>2, <1>3, SubSeqProperties
<1>5. (stack'[th] = <<>>) <=> (Len(stack[th]) = 1)
  <2>1. (stack'[th] = <<>>) <=> (Len(stack'[th]) = 0) BY <1>4, EmptySeq
  <2>2. \A m \in Nat \ {0}, k \in Int : k = m - 1 => (k = 0 <=> m = 1) OBVIOUS
  <2>3. Len(stack'[th]) \in Int BY <1>1, <1>4
  <2> QED BY <1>1, <1>4, <2>1, <2>2, <2>3
<1>6. Places(th)' = Places(th) \ {Len(stack[th])} BY <1>1, <1>4 DEF Places
<1>7. stack' \in [Threads -> Seq(Frame)] /\ \A x \in Threads \ {th} : stack'[x] = stack[x]
  BY <1>2, <1>4 DEF TypeOK, Below
<1> QED BY <1>1, <1>4, <1>5, <1>6, <1>7 DEF Places

LEMMA GoToFacts ==
  ASSUME TypeOK, NEW th \in Threads, stack[th] # <<>>, NEW pc \in Steps, GoTo(th, pc)
  PROVE  /\ stack' \in [Threads -> Seq(Frame)]
         /\ \A x \in Threads : /\ Places(x)' = Places(x)
                               /\ Len(stack'[x]) = Len(stack[x])
                               /\ (stack'[x] = <<>>) <=> (stack[x] = <<>>)
         /\ \A x \in Threads : \A i \in Places(x) :
              /\ stack'[x][i].task = stack[x][i].task
              /\ stack'[x][i].slot = stack[x][i].slot
              /\ stack'[x][i].alloc = stack[x][i].alloc
              /\ stack'[x][i].pc =
                   IF x = th /\ i = Len(stack[th]) THEN pc ELSE stack[x][i].pc
<1> DEFINE n == Len(stack[th])
           f == [stack[th][n] EXCEPT !.pc = pc]
<1>1. stack[th] \in Seq(Frame) /\ n \in 1..Len(stack[th]) /\ stack[th][n] \in Frame
  BY TopTyped DEF TypeOK, Top, Places
<1>2. f \in Frame BY <1>1 DEF Frame
<1>3. stack'[th] = [stack[th] EXCEPT ![n] = f] BY DEF GoTo, TypeOK
<1>4. /\ stack'[th] \in Seq(Frame) /\ Len(stack'[th]) = Len(stack[th])
      /\ \A i \in 1..Len(stack[th]) : stack'[th][i] = IF i = n THEN f ELSE stack[th][i]
  BY <1>1, <1>2, <1>3, ExceptSeq
<1>5. stack'[th] # <<>> BY <1>1, <1>4, EmptySeq
<1>6. stack' \in [Threads -> Seq(Frame)] /\ \A x \in Threads \ {th} : stack'[x] = stack[x]
  BY <1>3, <1>4 DEF TypeOK, GoTo
<1>7. /\ f.task = stack[th][n].task /\ f.slot = stack[th][n].slot
      /\ f.alloc = stack[th][n].alloc /\ f.pc = pc
  BY <1>1 DEF Frame
<1> QED BY <1>1, <1>4, <1>5, <1>6, <1>7 DEF Places

-----------------------------------------------------------------------------
(* The parts that a step leaves alone.                                     *)
LEMMA AloneStays == ASSUME Alone, UNCHANGED <<stack, gen>> PROVE Alone'
BY DEF Alone, Places, In

LEMMA SuspendedStays ==
  ASSUME Suspended, UNCHANGED <<ready, parked, gen, live, state, stack>> PROVE Suspended'
BY DEF Suspended, Stepping

LEMMA PhasesStays == ASSUME Phases, UNCHANGED <<stack, live, state>> PROVE Phases'
BY DEF Phases, Places, In

(* Storage given up under no step but one that has done with it.           *)
LEMMA PhasesGivenUp ==
  ASSUME Phases, UNCHANGED <<stack, state>>,
         \A x \in Threads : \A i \in Places(x) : In(x, i) \in live =>
           \/ In(x, i) \in live'
           \/ state[In(x, i)] # 0 /\ (stack[x][i].pc \in {"tail", "discard"} \/ In(x, i) \notin Pooled)
  PROVE  Phases'
<1>1. \A x \in Threads : Places(x)' = Places(x) /\ \A i \in Places(x) : In(x, i)' = In(x, i)
  BY DEF In, Places
<1> SUFFICES ASSUME NEW x \in Threads, NEW i \in Places(x)
    PROVE LET h == In(x, i)
              pc == stack[x][i].pc IN
            /\ pc \in {"body", "store", "park"} => h \in live' /\ state[h] = 0
            /\ pc \in {"sync", "release"} => state[h] = 1 /\ (h \in Pooled => h \in live')
            /\ pc = "discard" => state[h] = 1
            /\ pc = "tail" /\ state[h] = 0 => h \in live'
  BY <1>1 DEF Phases
<1> QED BY DEF Phases

LEMMA OwnedStays ==
  ASSUME UNCHANGED <<ready, parked, stack, state>>, NEW h PROVE Owned(h)' <=> Owned(h)
BY DEF Owned, Places, In

LEMMA CountedStays ==
  ASSUME Counted, UNCHANGED <<refs, held, live, ready, parked, stack, state>> PROVE Counted'
BY OwnedStays DEF Counted

LEMMA SavedStays == ASSUME Saved, UNCHANGED <<stack, slot, cur, own>> PROVE Saved'
BY DEF Saved, Places, In

LEMMA RememberedStays ==
  ASSUME Remembered, UNCHANGED <<ready, parked, stack, ctx, own>> PROVE Remembered'
BY DEF Remembered, Recorded, Places, In

LEMMA ClearedStays ==
  ASSUME Cleared, UNCHANGED <<stack, state, live, ctx, temp>> PROVE Cleared'
BY DEF Cleared, Stepping

LEMMA ScratchStays == ASSUME ScratchIsOwn, UNCHANGED temp PROVE ScratchIsOwn'
BY DEF ScratchIsOwn

(* The code a thread runs is its top frame's, which is alone.              *)
LEMMA CodeIsTop ==
  ASSUME IInv, NEW th \in Threads, NEW c \in Codes, Code(th, c) \/ Waits(th, c)
  PROVE  /\ slot[th] = c /\ cur[th] = own[c]
         /\ c = Main => th = Main /\ stack[th] = <<>>
         /\ c # Main => c \in Handles /\ At(th, "body") /\ On(th) = c
<1>1. CASE c = Main
  <2>1. th = Main /\ stack[th] = <<>>
    BY <1>1, TaskHandleAssumption DEF Code, Waits
  <2> QED BY <1>1, <2>1 DEF IInv, Saved
<1>2. CASE c # Main
  <2>1. c \in Handles /\ At(th, "body") /\ On(th) = c
    BY <1>2 DEF Code, Waits, Codes
  <2>2. stack[th] # <<>> /\ In(th, Len(stack[th])) = c
    BY <2>1, TopTyped DEF At, IInv
  <2> QED BY <1>2, <2>1, <2>2 DEF IInv, Saved
<1> QED BY <1>1, <1>2

-----------------------------------------------------------------------------
USE DEF memory, context

LEMMA CopyKeeps ==
  ASSUME IInv, NEW th \in Threads, NEW h \in Handles, Copy(th, h) PROVE IInv'
<1>1. /\ UNCHANGED <<gen, live, state, ready, parked, stack, waiting, ctx, temp, cur, slot, own>>
      /\ h \in Pooled /\ held[h] \in 1..MaxHeld - 1
      /\ held' = [held EXCEPT ![h] = @ + 1] /\ refs' = [refs EXCEPT ![h] = @ + 1]
  BY DEF Copy
<1>2. TypeOK' BY <1>1, TaskHandleAssumption DEF IInv, TypeOK
<1>3. Alone' BY <1>1, AloneStays DEF IInv
<1>4. Suspended' BY <1>1, SuspendedStays DEF IInv
<1>5. Phases' BY <1>1, PhasesStays DEF IInv
<1>6. Counted'
  <2>1. \A g \in Handles : Owned(g)' <=> Owned(g) BY <1>1, OwnedStays
  <2>2. held[h] \in Nat /\ held[h] >= 1 /\ refs[h] \in Int BY <1>1 DEF IInv, TypeOK
  <2> QED BY <1>1, <2>1, <2>2 DEF IInv, TypeOK, Counted
<1>7. Saved' BY <1>1, SavedStays DEF IInv
<1>8. Remembered' BY <1>1, RememberedStays DEF IInv
<1>9. Cleared' /\ ScratchIsOwn' BY <1>1, ClearedStays, ScratchStays DEF IInv
<1> QED BY <1>2, <1>3, <1>4, <1>5, <1>6, <1>7, <1>8, <1>9 DEF IInv

(* Giving up a reference: bindings and the worker may do it.               *)
LEMMA ReleaseFacts ==
  ASSUME IInv, NEW h \in Handles, refs[h] > 0, Release(h)
  PROVE  /\ h \in Pooled /\ h \in live
         /\ refs' = [refs EXCEPT ![h] = @ - 1]
         /\ live' = IF refs[h] = 1 THEN live \ {h} ELSE live
         /\ \A g \in Handles \ {h} : ctx'[g] = ctx[g] /\ temp'[g] = temp[g]
         /\ \A x \in Threads : temp'[x] = temp[x]
         /\ ctx' \in [Handles -> Regions \cup {Unset, NoRecord}]
         /\ temp' \in [Handles \cup Threads -> SUBSET Codes]
         /\ refs[h] # 1 => UNCHANGED <<ctx, temp>>
         /\ refs[h] = 1 => ctx'[h] = NoRecord /\ temp'[h] = {}
         /\ temp'[h] = temp[h] \/ temp'[h] = {}
<1>1. h \in Pooled /\ h \in live BY DEF IInv, Counted
<1>2. TypeOK BY DEF IInv
<1>3. h \notin Threads BY TaskHandleAssumption DEF Threads
<1>4. CASE refs[h] = 1
  <2>1. /\ live' = live \ {h} /\ ctx' = [ctx EXCEPT ![h] = NoRecord]
        /\ temp' = [temp EXCEPT ![h] = {}] /\ refs' = [refs EXCEPT ![h] = @ - 1]
    BY <1>4 DEF Release
  <2>2. \A x \in (Handles \cup Threads) \ {h} : temp'[x] = temp[x]
    BY <1>2, <2>1 DEF TypeOK
  <2>3. temp' \in [Handles \cup Threads -> SUBSET Codes] /\ temp'[h] = {}
    BY <1>2, <2>1 DEF TypeOK
  <2>4. /\ \A g \in Handles \ {h} : ctx'[g] = ctx[g]
        /\ ctx' \in [Handles -> Regions \cup {Unset, NoRecord}] /\ ctx'[h] = NoRecord
    BY <1>2, <2>1 DEF TypeOK
  <2> QED BY <1>1, <1>3, <1>4, <2>1, <2>2, <2>3, <2>4
<1>5. CASE refs[h] # 1
  <2>1. UNCHANGED <<live, ctx, temp>> /\ refs' = [refs EXCEPT ![h] = @ - 1]
    BY <1>5 DEF Release
  <2>2. /\ ctx \in [Handles -> Regions \cup {Unset, NoRecord}]
        /\ temp \in [Handles \cup Threads -> SUBSET Codes]
    BY <1>2 DEF TypeOK
  <2> QED BY <1>1, <1>5, <2>1, <2>2
<1> QED BY <1>4, <1>5

(* Parts that a step moving on within itself leaves alone.                 *)
LEMMA GoToStepping ==
  ASSUME IInv, NEW th \in Threads, stack[th] # <<>>, NEW pc \in Steps, GoTo(th, pc)
  PROVE  /\ \A g : Stepping(g)' <=> Stepping(g)
         /\ \A x \in Threads : Places(x)' = Places(x)
         /\ \A x \in Threads : \A i \in Places(x) : In(x, i)' = In(x, i)
<1>1. /\ \A x \in Threads : Places(x)' = Places(x)
      /\ \A x \in Threads : \A i \in Places(x) : stack'[x][i].task = stack[x][i].task
  BY GoToFacts DEF IInv
<1> QED BY <1>1 DEF Stepping, Places, In

LEMMA AloneMovesOn ==
  ASSUME IInv, NEW th \in Threads, stack[th] # <<>>, NEW pc \in Steps, GoTo(th, pc),
         UNCHANGED gen
  PROVE  Alone'
<1>1. /\ \A x \in Threads : Places(x)' = Places(x)
      /\ \A x \in Threads : \A i \in Places(x) :
           In(x, i)' = In(x, i) /\ stack'[x][i].task = stack[x][i].task
  BY GoToFacts, GoToStepping DEF IInv
<1> QED BY <1>1 DEF IInv, Alone

LEMMA SavedMovesOn ==
  ASSUME IInv, NEW th \in Threads, stack[th] # <<>>, NEW pc \in Steps, GoTo(th, pc),
         UNCHANGED <<slot, cur, own>>
  PROVE  Saved'
<1>1. /\ \A x \in Threads : /\ Places(x)' = Places(x) /\ Len(stack'[x]) = Len(stack[x])
                            /\ (stack'[x] = <<>>) <=> (stack[x] = <<>>)
      /\ \A x \in Threads : \A i \in Places(x) :
           /\ In(x, i)' = In(x, i)
           /\ stack'[x][i].slot = stack[x][i].slot /\ stack'[x][i].alloc = stack[x][i].alloc
  BY GoToFacts, GoToStepping DEF IInv
<1>2. \A x \in Threads : stack[x] # <<>> =>
        /\ Len(stack[x]) \in Places(x)
        /\ In(x, Len(stack[x]))' = In(x, Len(stack[x]))
  BY <1>1, TopTyped DEF IInv
<1>3. \A x \in Threads : \A i \in Places(x) : i # 1 => i > 1 /\ i - 1 \in Places(x)
  BY FrameTyped DEF IInv, Places
<1>5. Saved BY DEF IInv
<1> SUFFICES ASSUME NEW x \in Threads
    PROVE /\ slot[x] = IF stack'[x] = <<>> THEN Main ELSE stack'[x][Len(stack'[x])].task[1]
          /\ cur[x] = IF stack'[x] # <<>> THEN own[stack'[x][Len(stack'[x])].task[1]]
                      ELSE IF x = Main THEN own[Main] ELSE Unset
          /\ \A i \in Places(x) :
               /\ stack'[x][i].slot = IF i = 1 THEN Main ELSE stack'[x][i - 1].task[1]
               /\ stack'[x][i].alloc = IF i > 1 THEN own[stack'[x][i - 1].task[1]]
                                       ELSE IF x = Main THEN own[Main] ELSE Unset
  BY <1>1 DEF Saved, In
<1>6. stack[x] # <<>> => stack'[x][Len(stack'[x])].task[1] = In(x, Len(stack[x]))
  BY <1>1, <1>2 DEF In
<1>7. \A i \in Places(x) : i # 1 => stack'[x][i - 1].task[1] = In(x, i - 1)
  BY <1>1, <1>3 DEF In
<1>8. \A i \in Places(x) : i > 1 => i # 1
  BY FrameTyped DEF IInv
<1> QED BY <1>1, <1>5, <1>6, <1>7, <1>8 DEF Saved

-----------------------------------------------------------------------------
(* A binding's scope ends.                                                 *)
LEMMA DropKeeps ==
  ASSUME IInv, NEW th \in Threads, NEW h \in Handles, Drop(th, h) PROVE IInv'
<1> USE DEF IInv
<1>1. /\ UNCHANGED <<gen, state, ready, parked, stack, waiting, cur, slot, own>>
      /\ h \in Pooled /\ held[h] > 0 /\ Release(h)
      /\ held' = [held EXCEPT ![h] = @ - 1]
  BY DEF Drop
<1>2. held[h] \in Nat \ {0} /\ refs[h] \in Int /\ refs[h] > 0
      /\ (refs[h] = 1 => ~Owned(h) /\ held[h] = 1)
  BY <1>1 DEF TypeOK, Counted
<1>3. /\ refs' = [refs EXCEPT ![h] = @ - 1]
      /\ live' = IF refs[h] = 1 THEN live \ {h} ELSE live
      /\ \A g \in Handles \ {h} : ctx'[g] = ctx[g] /\ temp'[g] = temp[g]
      /\ \A x \in Threads : temp'[x] = temp[x]
      /\ ctx' \in [Handles -> Regions \cup {Unset, NoRecord}]
      /\ temp' \in [Handles \cup Threads -> SUBSET Codes]
      /\ refs[h] # 1 => UNCHANGED <<ctx, temp>>
      /\ refs[h] = 1 => ctx'[h] = NoRecord /\ temp'[h] = {}
      /\ temp'[h] = temp[h] \/ temp'[h] = {}
  BY <1>1, <1>2, ReleaseFacts
<1>4. TypeOK'
  <2>1. held' \in [Handles -> 0..MaxHeld] /\ refs' \in [Handles -> Int]
    BY <1>1, <1>2, <1>3, TaskHandleAssumption DEF TypeOK
  <2> QED BY <1>1, <1>3, <2>1 DEF TypeOK
<1>5. Alone' BY <1>1, AloneStays
<1>6. Suspended'
  <2>1. \A t \in ready \cup parked : t[1] \in live'
    BY <1>2, <1>3 DEF Suspended, Owned
  <2> QED BY <1>1, <2>1 DEF Suspended, Stepping
<1>7. Phases'
  <2>1. \A x \in Threads : \A i \in Places(x) :
          In(x, i) = h /\ refs[h] = 1 => stack[x][i].pc \in {"tail", "discard"} /\ state[h] # 0
    BY <1>2 DEF Owned
  <2>2. \A x \in Threads : \A i \in Places(x) : In(x, i) \in live =>
          In(x, i) \in live' \/ (state[In(x, i)] # 0 /\ stack[x][i].pc \in {"tail", "discard"})
    BY <1>3, <2>1
  <2> QED BY <1>1, <2>2, PhasesGivenUp
<1>8. Counted'
  <2>1. \A g \in Handles : Owned(g)' <=> Owned(g) BY <1>1, OwnedStays
  <2>2. \A g \in Handles \ {h} : held'[g] = held[g] /\ refs'[g] = refs[g] /\ (g \in live' <=> g \in live)
    BY <1>1, <1>3 DEF TypeOK
  <2>3. held'[h] = held[h] - 1 /\ refs'[h] = refs[h] - 1
    BY <1>1, <1>3 DEF TypeOK
  <2>4. refs[h] = held[h] + IF Owned(h) THEN 1 ELSE 0 BY <1>1 DEF Counted
  <2>5. h \in live' <=> refs'[h] > 0 BY <1>1, <1>2, <1>3, <2>3 DEF Counted
  <2>6. refs'[h] = held'[h] + IF Owned(h) THEN 1 ELSE 0 BY <1>2, <2>3, <2>4
  <2> QED BY <1>1, <2>1, <2>2, <2>5, <2>6 DEF Counted
<1>9. Saved' BY <1>1, SavedStays
<1>10. Remembered'
  <2>1. \A g \in Handles : Owned(g) => ctx'[g] = ctx[g] BY <1>2, <1>3
  <2>2. \A t \in ready \cup parked : t[1] \in Handles /\ Owned(t[1])
    BY DEF TypeOK, Task, Owned
  <2>3. \A x \in Threads : \A i \in Places(x) :
          stack[x][i].pc = "park" => In(x, i) \in Handles /\ Owned(In(x, i))
    BY FrameTyped DEF Owned
  <2>4. UNCHANGED <<ready, parked, stack, own>> BY <1>1
  <2>5. \A x \in Threads : Places(x)' = Places(x) /\ \A i \in Places(x) : In(x, i)' = In(x, i)
    BY <2>4 DEF Places, In
  <2>6. \A t \in ready \cup parked : Recorded(t[1])'
    BY <2>1, <2>2, <2>4 DEF Remembered, Recorded
  <2>7. \A x \in Threads : \A i \in Places(x) : stack[x][i].pc = "park" => Recorded(In(x, i))'
    BY <2>1, <2>3, <2>4, <2>5 DEF Remembered, Recorded
  <2> QED BY <2>4, <2>5, <2>6, <2>7 DEF Remembered
<1>11. Cleared' BY <1>1, <1>3 DEF Cleared, Stepping
<1>12. ScratchIsOwn'
  <2>1. \A g \in Handles : temp'[g] = temp[g] \/ temp'[g] = {} BY <1>3
  <2> QED BY <1>3, <2>1 DEF ScratchIsOwn, Threads
<1> QED BY <1>4, <1>5, <1>6, <1>7, <1>8, <1>9, <1>10, <1>11, <1>12

(* Entering a wait, and returning from it.                                 *)
LEMMA WaitKeeps ==
  ASSUME IInv, NEW th \in Threads, NEW h \in Handles, Wait(th, h) PROVE IInv'
<1>1. /\ UNCHANGED <<gen, live, state, refs, held, ctx, temp, cur, slot, own, ready, parked, stack>>
      /\ waiting' = [waiting EXCEPT ![Parent[h]] = h]
  BY DEF Wait
<1>2. TypeOK' BY <1>1 DEF IInv, TypeOK, Codes
<1> QED BY <1>1, <1>2, AloneStays, SuspendedStays, PhasesStays, CountedStays, SavedStays,
           RememberedStays, ClearedStays, ScratchStays DEF IInv

LEMMA WaitReturnsKeeps ==
  ASSUME IInv, NEW th \in Threads, NEW c \in Codes, WaitReturns(th, c) PROVE IInv'
<1> USE DEF IInv
<1> DEFINE h == waiting[c]
<1>1. /\ UNCHANGED <<gen, state, refs, ctx, temp, cur, slot, own, ready, parked, stack>>
      /\ h # Main /\ state[h] = 1 /\ waiting' = [waiting EXCEPT ![c] = Main]
      /\ \/ UNCHANGED <<live, held>>
         \/ h \notin Pooled /\ live' = live \ {h} /\ held' = [held EXCEPT ![h] = 0]
  BY DEF WaitReturns, Waits
<1>2. h \in Handles BY <1>1 DEF TypeOK, Codes
<1>3. TypeOK'
  <2>1. waiting' \in [Codes -> Codes] BY <1>1 DEF TypeOK, Codes
  <2>2. 0 \in 0..MaxHeld /\ held \in [Handles -> 0..MaxHeld] /\ live \subseteq Handles
    BY TaskHandleAssumption DEF TypeOK
  <2>3. held' \in [Handles -> 0..MaxHeld] /\ live' \subseteq Handles
    <3>1. CASE UNCHANGED <<live, held>> BY <2>2, <3>1
    <3>2. CASE live' = live \ {h} /\ held' = [held EXCEPT ![h] = 0] BY <2>2, <3>2
    <3> QED BY <1>1, <3>1, <3>2
  <2> QED BY <1>1, <2>1, <2>3 DEF TypeOK
<1>4. Alone' /\ Saved' /\ Remembered' /\ ScratchIsOwn'
  BY <1>1, AloneStays, SavedStays, RememberedStays, ScratchStays
<1>5. Suspended'
  <2>1. \A t \in ready \cup parked : t[1] \in live' BY <1>1 DEF Suspended
  <2> QED BY <1>1, <2>1 DEF Suspended, Stepping
<1>6. Phases'
  <2>1. \A g \in live \ live' : state[g] # 0 /\ g \notin Pooled BY <1>1
  <2> QED BY <1>1, <2>1, PhasesGivenUp
<1>7. Counted'
  <2>1. \A g \in Handles : Owned(g)' <=> Owned(g) BY <1>1, OwnedStays
  <2>2. CASE UNCHANGED <<live, held>> BY <1>1, <2>1, <2>2 DEF Counted
  <2>3. CASE h \notin Pooled /\ live' = live \ {h} /\ held' = [held EXCEPT ![h] = 0]
    <3>1. \A g \in Handles \ {h} : held'[g] = held[g] /\ (g \in live' <=> g \in live)
      BY <1>1, <2>3 DEF TypeOK
    <3>2. held'[h] = 0 /\ h \notin live' BY <1>1, <1>2, <2>3 DEF TypeOK
    <3> QED BY <1>1, <1>2, <2>1, <2>3, <3>1, <3>2 DEF Counted
  <2> QED BY <1>1, <2>2, <2>3
<1>8. Cleared' BY <1>1 DEF Cleared, Stepping
<1> QED BY <1>3, <1>4, <1>5, <1>6, <1>7, <1>8

-----------------------------------------------------------------------------
(* What a thread's code does to its own context.                           *)
LEMMA InstallKeeps ==
  ASSUME IInv, NEW th \in Threads, NEW c \in Codes, NEW r \in Regions, Install(th, c, r)
  PROVE  IInv'
<1> USE DEF IInv
<1>1. /\ UNCHANGED <<gen, live, state, refs, held, ctx, temp, slot, ready, parked, stack, waiting>>
      /\ Code(th, c) /\ cur' = [cur EXCEPT ![th] = r] /\ own' = [own EXCEPT ![c] = r]
  BY DEF Install
<1>2. /\ c = Main => th = Main /\ stack[th] = <<>>
      /\ c # Main => c \in Handles /\ stack[th] # <<>> /\ Top(th).pc = "body" /\ On(th) = c
  BY <1>1, CodeIsTop DEF At
<1>3. TypeOK' BY <1>1 DEF TypeOK
<1>4. Alone' /\ Suspended' /\ Phases' /\ Counted' /\ Cleared' /\ ScratchIsOwn'
  BY <1>1, AloneStays, SuspendedStays, PhasesStays, CountedStays, ClearedStays, ScratchStays
<1>5. c # Main => Len(stack[th]) \in Places(th) /\ In(th, Len(stack[th])) = c
                  /\ stack[th][Len(stack[th])].pc = "body"
  BY <1>2, TopTyped DEF Top
<1>6. \A x \in Threads : \A i \in Places(x) :
        In(x, i) = c => x = th /\ i = Len(stack[th]) /\ stack[x][i].pc = "body"
  <2> SUFFICES ASSUME NEW x \in Threads, NEW i \in Places(x), In(x, i) = c
      PROVE x = th /\ i = Len(stack[th]) /\ stack[x][i].pc = "body"
    OBVIOUS
  <2>1. c # Main BY FrameTyped, TaskHandleAssumption
  <2> QED BY <1>5, <2>1 DEF Alone
<1>7. Saved'
  <2> SUFFICES ASSUME NEW x \in Threads
      PROVE /\ slot[x] = IF stack[x] = <<>> THEN Main ELSE In(x, Len(stack[x]))
            /\ cur'[x] = IF stack[x] # <<>> THEN own'[In(x, Len(stack[x]))]
                         ELSE IF x = Main THEN own'[Main] ELSE Unset
            /\ \A i \in Places(x) :
                 /\ stack[x][i].slot = IF i = 1 THEN Main ELSE In(x, i - 1)
                 /\ stack[x][i].alloc = IF i > 1 THEN own'[In(x, i - 1)]
                                        ELSE IF x = Main THEN own'[Main] ELSE Unset
    BY <1>1 DEF Saved, In, Places
  <2>1. cur'[x] = IF stack[x] # <<>> THEN own'[In(x, Len(stack[x]))]
                  ELSE IF x = Main THEN own'[Main] ELSE Unset
    <3>1. CASE x = th
      <4>1. cur'[x] = r /\ own'[c] = r BY <1>1, <3>1 DEF TypeOK
      <4> QED BY <1>2, <1>5, <3>1, <4>1
    <3>2. CASE x # th
      <4>1. cur'[x] = cur[x] BY <1>1, <3>2 DEF TypeOK
      <4>2. stack[x] # <<>> => In(x, Len(stack[x])) # c /\ In(x, Len(stack[x])) \in Handles
        BY <1>6, <3>2, TopTyped
      <4>3. stack[x] # <<>> => own'[In(x, Len(stack[x]))] = own[In(x, Len(stack[x]))]
        BY <1>1, <4>2 DEF TypeOK, Codes
      <4>4. x = Main => own'[Main] = own[Main] BY <1>1, <1>2, <3>2 DEF TypeOK, Codes
      <4> QED BY <4>1, <4>3, <4>4 DEF Saved
    <3> QED BY <3>1, <3>2
  <2>2. ASSUME NEW i \in Places(x)
        PROVE  stack[x][i].alloc = IF i > 1 THEN own'[In(x, i - 1)]
                                   ELSE IF x = Main THEN own'[Main] ELSE Unset
    <3>1. i \in Nat /\ stack[x] \in Seq(Frame) /\ Len(stack[x]) \in Nat /\ i <= Len(stack[x]) /\ i >= 1
      BY FrameTyped DEF Places
    <3>2. i > 1 => i - 1 \in Places(x) /\ i - 1 # Len(stack[x])
      BY <3>1 DEF Places
    <3>3. i > 1 => In(x, i - 1) # c /\ In(x, i - 1) \in Handles
      BY <1>6, <3>2, FrameTyped
    <3>4. i > 1 => own'[In(x, i - 1)] = own[In(x, i - 1)] BY <1>1, <3>3 DEF TypeOK, Codes
    <3>5. stack[x] # <<>> BY <3>1, EmptySeq
    <3>6. x = Main => own'[Main] = own[Main] BY <1>1, <1>2, <3>5 DEF TypeOK, Codes
    <3> QED BY <3>4, <3>6 DEF Saved
  <2> QED BY <2>1, <2>2 DEF Saved
<1>8. Remembered'
  <2>1. \A g \in Handles : g # c => (Recorded(g)' <=> Recorded(g))
    BY <1>1 DEF Recorded, TypeOK, Codes
  <2>2. \A t \in ready \cup parked : t[1] \in Handles /\ t[1] # c
    <3>1. \A t \in ready \cup parked : t[1] \in Handles /\ ~Stepping(t[1])
      BY DEF TypeOK, Task, Suspended
    <3>2. c # Main => Stepping(c) BY <1>5 DEF Stepping, In, Places
    <3> QED BY <3>1, <3>2, TaskHandleAssumption
  <2>3. \A x \in Threads : \A i \in Places(x) :
          stack[x][i].pc = "park" => In(x, i) \in Handles /\ In(x, i) # c
    BY <1>6, FrameTyped
  <2>4. UNCHANGED <<ready, parked, stack>> BY <1>1
  <2>5. \A x \in Threads : Places(x)' = Places(x) /\ \A i \in Places(x) : In(x, i)' = In(x, i)
    BY <2>4 DEF Places, In
  <2>6. \A t \in ready \cup parked : Recorded(t[1])' BY <2>1, <2>2 DEF Remembered
  <2>7. \A x \in Threads : \A i \in Places(x) : stack[x][i].pc = "park" => Recorded(In(x, i))'
    BY <2>1, <2>3, <2>5 DEF Remembered, Recorded
  <2> QED BY <2>4, <2>5, <2>6, <2>7 DEF Remembered
<1> QED BY <1>3, <1>4, <1>7, <1>8

LEMMA TempUseKeeps ==
  ASSUME IInv, NEW th \in Threads, NEW c \in Codes, TempUse(th, c) PROVE IInv'
<1> USE DEF IInv
<1> DEFINE x == Scratch(th)
<1>1. /\ UNCHANGED <<gen, live, state, refs, held, cur, slot, own, ready, parked, stack, waiting>>
      /\ Code(th, c) /\ temp' = [temp EXCEPT ![x] = @ \cup {c}]
      /\ ctx' = IF slot[th] # Main /\ ctx[slot[th]] = NoRecord
                THEN [ctx EXCEPT ![slot[th]] = Unset] ELSE ctx
  BY DEF TempUse
<1>2. /\ slot[th] = c
      /\ c = Main => th = Main
      /\ c # Main => c \in Handles /\ stack[th] # <<>> /\ Top(th).pc = "body" /\ On(th) = c
  BY <1>1, CodeIsTop DEF At
<1>3. c # Main => Len(stack[th]) \in Places(th) /\ In(th, Len(stack[th])) = c
                  /\ stack[th][Len(stack[th])].pc = "body" /\ Stepping(c)
  BY <1>2, TopTyped DEF Top, Stepping, In, Places
<1>4. x = IF c = Main THEN Main ELSE c
  BY <1>2 DEF Scratch
<1>5. /\ temp' \in [Handles \cup Threads -> SUBSET Codes]
      /\ \A y \in (Handles \cup Threads) \ {x} : temp'[y] = temp[y]
      /\ temp'[x] = temp[x] \cup {c}
  <2>1. x \in Handles \cup Threads BY <1>2, <1>4 DEF Threads
  <2> QED BY <1>1, <2>1 DEF TypeOK
<1>6. /\ ctx' \in [Handles -> Regions \cup {Unset, NoRecord}]
      /\ \A g \in Handles : g # c => ctx'[g] = ctx[g]
  BY <1>1, <1>2 DEF TypeOK
<1>7. TypeOK' BY <1>1, <1>5, <1>6 DEF TypeOK
<1>8. Alone' /\ Suspended' /\ Phases' /\ Counted' /\ Saved'
  BY <1>1, AloneStays, SuspendedStays, PhasesStays, CountedStays, SavedStays
<1>9. Remembered'
  <2>1. UNCHANGED <<ready, parked, stack, own>> BY <1>1
  <2>2. \A y \in Threads : Places(y)' = Places(y) /\ \A i \in Places(y) : In(y, i)' = In(y, i)
    BY <2>1 DEF Places, In
  <2>3. \A g \in Handles : g # c => (Recorded(g)' <=> Recorded(g))
    BY <1>6, <2>1 DEF Recorded
  <2>4. \A t \in ready \cup parked : t[1] \in Handles /\ t[1] # c
    <3>1. \A t \in ready \cup parked : t[1] \in Handles /\ ~Stepping(t[1])
      BY DEF TypeOK, Task, Suspended
    <3> QED BY <1>3, <3>1, TaskHandleAssumption
  <2>5. \A y \in Threads : \A i \in Places(y) :
          stack[y][i].pc = "park" => In(y, i) \in Handles /\ In(y, i) # c
    <3> SUFFICES ASSUME NEW y \in Threads, NEW i \in Places(y), In(y, i) = c
        PROVE stack[y][i].pc # "park"
      BY FrameTyped
    <3>1. c # Main BY FrameTyped, TaskHandleAssumption
    <3>2. y = th /\ i = Len(stack[th]) BY <1>3, <3>1 DEF Alone
    <3> QED BY <1>3, <3>1, <3>2
  <2>6. \A t \in ready \cup parked : Recorded(t[1])' BY <2>3, <2>4 DEF Remembered
  <2>7. \A y \in Threads : \A i \in Places(y) : stack[y][i].pc = "park" => Recorded(In(y, i))'
    BY <2>2, <2>3, <2>5 DEF Remembered, Recorded
  <2> QED BY <2>1, <2>2, <2>6, <2>7 DEF Remembered
<1>10. Cleared'
  <2>1. \A g \in Handles : ~Stepping(g) => g # c
    BY <1>3, TaskHandleAssumption
  <2>2. \A g \in Handles : ctx'[g] = NoRecord => g # c /\ g # x
    BY <1>1, <1>2, <1>4, TaskHandleAssumption DEF TypeOK
  <2> QED BY <1>1, <1>5, <1>6, <2>1, <2>2 DEF Cleared, Stepping
<1>11. ScratchIsOwn'
  <2>1. \A w \in Workers : w # x BY <1>2, <1>4, TaskHandleAssumption
  <2>2. \A g \in Handles : g = x => g = c BY <1>4, TaskHandleAssumption
  <2>3. Main = x => Main = c BY <1>2, <1>4, TaskHandleAssumption
  <2> QED BY <1>5, <2>1, <2>2, <2>3 DEF ScratchIsOwn, Threads
<1> QED BY <1>7, <1>8, <1>9, <1>10, <1>11

LEMMA TempResetKeeps ==
  ASSUME IInv, NEW th \in Threads, NEW c \in Codes, TempReset(th, c) PROVE IInv'
<1> USE DEF IInv
<1>1. /\ UNCHANGED <<gen, live, state, refs, held, ctx, cur, slot, own, ready, parked, stack, waiting>>
      /\ temp' = [temp EXCEPT ![Scratch(th)] = {}]
  BY DEF TempReset
<1>2. /\ temp' \in [Handles \cup Threads -> SUBSET Codes]
      /\ \A y \in Handles \cup Threads : temp'[y] = temp[y] \/ temp'[y] = {}
  BY <1>1 DEF TypeOK
<1>3. TypeOK' BY <1>1, <1>2 DEF TypeOK
<1>4. Alone' /\ Suspended' /\ Phases' /\ Counted' /\ Saved' /\ Remembered'
  BY <1>1, AloneStays, SuspendedStays, PhasesStays, CountedStays, SavedStays, RememberedStays
<1>5. Cleared' BY <1>1, <1>2 DEF Cleared, Stepping
<1>6. ScratchIsOwn' BY <1>2 DEF ScratchIsOwn, Threads
<1> QED BY <1>3, <1>4, <1>5, <1>6

-----------------------------------------------------------------------------
(* A step moves on: the body suspends or ends, the state byte, the sync    *)
(* pair, the tail of a finished task.                                      *)
LEMMA MovesOnKeeps ==
  ASSUME IInv, NEW th \in Threads, stack[th] # <<>>, NEW pc \in Steps, GoTo(th, pc),
         UNCHANGED <<gen, live, refs, held, ctx, temp, cur, slot, own, ready, parked, waiting>>,
         state' = state \/ (Top(th).pc = "store" /\ pc = "sync"
                            /\ state' = [state EXCEPT ![On(th)] = 1]),
         Top(th).pc = "body" => pc \in {"tail", "store"},
         Top(th).pc # "body" =>
           pc \in {"sync", "release", "discard"} /\ Top(th).pc \in {"store", "sync", "tail"},
         pc = "discard" <=> Top(th).pc = "tail", pc = "discard" => state[On(th)] # 0,
         Top(th).pc = "store" => state' = [state EXCEPT ![On(th)] = 1],
         pc = "sync" => Top(th).pc = "store"
  PROVE  IInv'
<1> USE DEF IInv
<1> DEFINE n == Len(stack[th])
           h == On(th)
<1>1. /\ \A g : Stepping(g)' <=> Stepping(g)
      /\ \A x \in Threads : Places(x)' = Places(x)
      /\ \A x \in Threads : \A i \in Places(x) : In(x, i)' = In(x, i)
  BY GoToStepping
<1>2. /\ stack' \in [Threads -> Seq(Frame)]
      /\ \A x \in Threads : \A i \in Places(x) :
           stack'[x][i].pc = IF x = th /\ i = n THEN pc ELSE stack[x][i].pc
  BY GoToFacts
<1>3. h \in Handles /\ n \in Places(th) /\ In(th, n) = h /\ stack[th][n].pc = Top(th).pc
  BY TopTyped DEF Top
<1>4. \A x \in Threads : \A i \in Places(x) : In(x, i) = h => x = th /\ i = n
  BY <1>3 DEF Alone
<1>5. state' \in [Handles -> {0, 1}] /\ \A g \in Handles : g # h => state'[g] = state[g]
  BY <1>3 DEF TypeOK
<1>6. Stepping(h) BY <1>3 DEF Stepping, In, Places
<1>7. TypeOK' BY <1>2, <1>5 DEF TypeOK
<1>8. Alone' /\ Saved' BY AloneMovesOn, SavedMovesOn
<1>9. Suspended'
  <2>1. \A t \in ready \cup parked : t[1] \in Handles /\ t[1] # h
    BY <1>6 DEF Suspended, TypeOK, Task
  <2> QED BY <1>1, <1>5, <2>1 DEF Suspended
<1>10. Phases'
  <2> SUFFICES ASSUME NEW x \in Threads, NEW i \in Places(x)
      PROVE LET g == In(x, i)
                p == stack'[x][i].pc IN
              /\ p \in {"body", "store", "park"} => g \in live /\ state'[g] = 0
              /\ p \in {"sync", "release"} => state'[g] = 1 /\ (g \in Pooled => g \in live)
              /\ p = "discard" => state'[g] = 1
              /\ p = "tail" /\ state'[g] = 0 => g \in live
    BY <1>1 DEF Phases
  <2>1. CASE x = th /\ i = n
    <3>1. stack'[x][i].pc = pc /\ In(x, i) = h BY <1>2, <1>3, <2>1
    <3>2. /\ Top(th).pc \in {"body", "store"} => h \in live /\ state[h] = 0
          /\ Top(th).pc = "sync" => state[h] = 1 /\ (h \in Pooled => h \in live)
      BY <1>3 DEF Phases
    <3>3. Top(th).pc = "store" => state'[h] = 1 BY <1>3 DEF TypeOK
    <3>5. state[h] # 0 => state[h] = 1 BY <1>3 DEF TypeOK
    <3>4. Top(th).pc # "store" => state'[h] = state[h] OBVIOUS
    <3> QED BY <3>1, <3>2, <3>3, <3>4, <3>5
  <2>2. CASE ~(x = th /\ i = n)
    <3>1. In(x, i) # h /\ In(x, i) \in Handles BY <1>4, <2>2, FrameTyped
    <3>2. stack'[x][i].pc = stack[x][i].pc /\ state'[In(x, i)] = state[In(x, i)]
      BY <1>2, <1>5, <2>2, <3>1
    <3> QED BY <3>2 DEF Phases
  <2> QED BY <2>1, <2>2
<1>11. Counted'
  <2>1. \A g \in Handles : Owned(g)' <=> Owned(g)
    <3> SUFFICES ASSUME NEW g \in Handles PROVE Owned(g)' <=> Owned(g)
      OBVIOUS
    <3>1. CASE g = h /\ Top(th).pc # "tail"
      <4>1. Top(th).pc \notin {"tail", "discard"} BY <3>1
      <4>2. Owned(h) BY <1>3, <4>1 DEF Owned
      <4>3. pc \in {"tail", "discard"} => state'[h] = 0 BY <1>3, <3>1 DEF Phases
      <4>4. stack'[th][n].pc = pc BY <1>2, <1>3
      <4>5. Owned(g)' BY <1>1, <1>3, <3>1, <4>3, <4>4 DEF Owned
      <4> QED BY <3>1, <4>2, <4>5
    <3>2. CASE g # h
      <4>1. \A x \in Threads : \A i \in Places(x) : In(x, i) = g => stack'[x][i].pc = stack[x][i].pc
        BY <1>2, <1>3, <3>2
      <4> QED BY <1>1, <1>5, <3>2, <4>1 DEF Owned
    <3>3. CASE g = h /\ Top(th).pc = "tail"
      <4>1. pc = "discard" /\ state' = state /\ state[h] # 0 BY <3>3
      <4>2. \A x \in Threads : \A i \in Places(x) : In(x, i) = h =>
              stack[x][i].pc = "tail" /\ stack'[x][i].pc = "discard"
        BY <1>2, <1>3, <1>4, <3>3, <4>1
      <4> QED BY <1>1, <3>3, <4>1, <4>2 DEF Owned
    <3> QED BY <3>1, <3>2, <3>3
  <2> QED BY <2>1 DEF Counted
<1>12. Remembered'
  <2>1. \A g : Recorded(g)' <=> Recorded(g) BY DEF Recorded
  <2>2. \A x \in Threads : \A i \in Places(x) : stack'[x][i].pc = "park" => stack[x][i].pc = "park"
    BY <1>2
  <2>3. \A t \in ready \cup parked : Recorded(t[1])' BY <2>1 DEF Remembered
  <2>4. \A x \in Threads : \A i \in Places(x) : stack'[x][i].pc = "park" => Recorded(In(x, i))'
    BY <1>1, <2>1, <2>2 DEF Remembered, Recorded
  <2> QED BY <1>1, <2>3, <2>4 DEF Remembered
<1>13. Cleared'
  <2>1. \A g \in Handles : ~Stepping(g) => g # h BY <1>6
  <2> QED BY <1>1, <1>5, <2>1 DEF Cleared
<1>14. ScratchIsOwn' BY ScratchStays
<1> QED BY <1>7, <1>8, <1>9, <1>10, <1>11, <1>12, <1>13, <1>14

(* The worker gives up its reference.                                      *)
LEMMA ReleaseOwnKeeps ==
  ASSUME IInv, NEW th \in Threads, ReleaseOwn(th) PROVE IInv'
<1> USE DEF IInv
<1>a. At(th, "release") /\ stack[th] # <<>> /\ Top(th).pc = "release"
  BY DEF ReleaseOwn, At
<1>b. On(th) \in Handles BY <1>a, TopTyped
<1> SUFFICES ASSUME NEW h \in Handles, h = On(th), NEW n, n = Len(stack[th]) PROVE IInv'
  BY <1>b
<1>1. /\ UNCHANGED <<gen, state, held, cur, slot, own, ready, parked, waiting>>
      /\ GoTo(th, "tail")
      /\ IF refs[h] > 0 THEN Release(h) ELSE UNCHANGED <<live, refs, ctx, temp>>
  BY DEF ReleaseOwn
<1>2. "tail" \in Steps BY DEF Steps
<1>3. /\ \A g : Stepping(g)' <=> Stepping(g)
      /\ \A x \in Threads : Places(x)' = Places(x)
      /\ \A x \in Threads : \A i \in Places(x) : In(x, i)' = In(x, i)
  BY <1>1, <1>2, <1>a, GoToStepping
<1>4. /\ stack' \in [Threads -> Seq(Frame)]
      /\ \A x \in Threads : \A i \in Places(x) :
           stack'[x][i].pc = IF x = th /\ i = n THEN "tail" ELSE stack[x][i].pc
  BY <1>1, <1>2, <1>a, GoToFacts
<1>5. n \in Places(th) /\ In(th, n) = h /\ stack[th][n].pc = "release"
  BY <1>a, TopTyped DEF Top
<1>6. \A x \in Threads : \A i \in Places(x) : In(x, i) = h => x = th /\ i = n
  BY <1>5 DEF Alone
<1>7. Stepping(h) BY <1>5 DEF Stepping, In, Places
<1>8. Owned(h) /\ state[h] = 1 BY <1>5 DEF Owned, Phases
<1>9. /\ h \in Pooled => refs[h] = held[h] + 1 /\ refs[h] > 0 /\ h \in live
      /\ h \notin Pooled => refs[h] = 0
      /\ held[h] \in Nat /\ refs[h] \in Int
  BY <1>8 DEF Counted, TypeOK
<1>10. CASE h \notin Pooled
  <2>1. UNCHANGED <<live, refs, ctx, temp>> BY <1>1, <1>9, <1>10
  <2>2. TypeOK' BY <1>1, <1>4, <2>1 DEF TypeOK
  <2>3. h \in Handles /\ ~(h \in Pooled) BY <1>10
  <2> SUFFICES Suspended' /\ Phases' /\ Counted' /\ Remembered' /\ Cleared' /\ ScratchIsOwn'
    BY <1>1, <1>2, <1>a, <2>1, <2>2, AloneMovesOn, SavedMovesOn
  <2>4. Suspended' BY <1>1, <1>3, <2>1 DEF Suspended
  <2>5. Phases'
    <3> SUFFICES ASSUME NEW x \in Threads, NEW i \in Places(x)
        PROVE LET g == In(x, i)
                  p == stack'[x][i].pc IN
                /\ p \in {"body", "store", "park"} => g \in live /\ state[g] = 0
                /\ p \in {"sync", "release"} => state[g] = 1 /\ (g \in Pooled => g \in live)
                /\ p = "discard" => state[g] = 1
                /\ p = "tail" /\ state[g] = 0 => g \in live
      BY <1>1, <1>3, <2>1 DEF Phases
    <3>1. CASE x = th /\ i = n BY <1>4, <1>5, <1>8, <3>1
    <3>2. CASE ~(x = th /\ i = n) BY <1>4, <3>2 DEF Phases
    <3> QED BY <3>1, <3>2
  <2>6. Counted'
    <3>1. \A g \in Handles : g # h => (Owned(g)' <=> Owned(g))
      <4> SUFFICES ASSUME NEW g \in Handles, g # h PROVE Owned(g)' <=> Owned(g)
        OBVIOUS
      <4>1. \A x \in Threads : \A i \in Places(x) : In(x, i) = g => stack'[x][i].pc = stack[x][i].pc
        BY <1>4, <1>5
      <4> QED BY <1>1, <1>3, <4>1 DEF Owned
    <3> QED BY <1>1, <2>1, <2>3, <3>1 DEF Counted
  <2>7. Remembered'
    <3>1. \A g : Recorded(g)' <=> Recorded(g) BY <1>1, <2>1 DEF Recorded
    <3>2. \A x \in Threads : \A i \in Places(x) : stack'[x][i].pc = "park" => stack[x][i].pc = "park"
      BY <1>4
    <3>3. \A t \in ready \cup parked : Recorded(t[1])' BY <3>1 DEF Remembered
    <3>4. \A x \in Threads : \A i \in Places(x) : stack'[x][i].pc = "park" => Recorded(In(x, i))'
      BY <1>1, <1>3, <2>1, <3>2 DEF Remembered, Recorded
    <3> QED BY <1>1, <1>3, <3>3, <3>4 DEF Remembered
  <2>8. Cleared' BY <1>1, <1>3, <2>1 DEF Cleared
  <2>9. ScratchIsOwn' BY <2>1, ScratchStays
  <2> QED BY <2>4, <2>5, <2>6, <2>7, <2>8, <2>9
<1>11. CASE h \in Pooled
  <2>1. /\ refs' = [refs EXCEPT ![h] = @ - 1]
        /\ live' = IF refs[h] = 1 THEN live \ {h} ELSE live
        /\ \A g \in Handles \ {h} : ctx'[g] = ctx[g] /\ temp'[g] = temp[g]
        /\ \A x \in Threads : temp'[x] = temp[x]
        /\ ctx' \in [Handles -> Regions \cup {Unset, NoRecord}]
        /\ temp' \in [Handles \cup Threads -> SUBSET Codes]
        /\ refs[h] # 1 => UNCHANGED <<ctx, temp>>
        /\ refs[h] = 1 => ctx'[h] = NoRecord /\ temp'[h] = {}
        /\ temp'[h] = temp[h] \/ temp'[h] = {}
    BY <1>1, <1>9, <1>11, ReleaseFacts
  <2>2. \A g \in Handles : g # h => (g \in live' <=> g \in live) BY <2>1
  <2>3. TypeOK'
    <3>1. refs' \in [Handles -> Int] BY <1>9, <2>1 DEF TypeOK
    <3> QED BY <1>1, <1>4, <2>1, <3>1 DEF TypeOK
  <2>4. Alone' /\ Saved' BY <1>1, <1>2, <1>a, AloneMovesOn, SavedMovesOn
  <2>5. Suspended'
    <3>1. \A t \in ready \cup parked : t[1] \in Handles /\ t[1] # h
      BY <1>7 DEF Suspended, TypeOK, Task
    <3> QED BY <1>1, <1>3, <2>2, <3>1 DEF Suspended
  <2>6. Phases'
    <3> SUFFICES ASSUME NEW x \in Threads, NEW i \in Places(x)
        PROVE LET g == In(x, i)
                  p == stack'[x][i].pc IN
                /\ p \in {"body", "store", "park"} => g \in live' /\ state[g] = 0
                /\ p \in {"sync", "release"} => state[g] = 1 /\ (g \in Pooled => g \in live')
                /\ p = "discard" => state[g] = 1
                /\ p = "tail" /\ state[g] = 0 => g \in live'
      BY <1>1, <1>3 DEF Phases
    <3>1. CASE x = th /\ i = n BY <1>4, <1>5, <1>8, <3>1
    <3>2. CASE ~(x = th /\ i = n)
      <4>1. In(x, i) # h /\ In(x, i) \in Handles BY <1>6, <3>2, FrameTyped
      <4> QED BY <1>4, <2>2, <3>2, <4>1 DEF Phases
    <3> QED BY <3>1, <3>2
  <2>7. Counted'
    <3>1. \A g \in Handles : g # h => (Owned(g)' <=> Owned(g))
      <4> SUFFICES ASSUME NEW g \in Handles, g # h PROVE Owned(g)' <=> Owned(g)
        OBVIOUS
      <4>1. \A x \in Threads : \A i \in Places(x) : In(x, i) = g => stack'[x][i].pc = stack[x][i].pc
        BY <1>4, <1>5
      <4> QED BY <1>1, <1>3, <4>1 DEF Owned
    <3>2. ~Owned(h)'
      <4>1. \A t \in ready \cup parked : t[1] # h BY <1>7 DEF Suspended
      <4>2. \A x \in Threads : \A i \in Places(x) : In(x, i) = h => stack'[x][i].pc = "tail"
        BY <1>4, <1>6
      <4>3. state[h] # 0 BY <1>8
      <4> QED BY <1>1, <1>3, <4>1, <4>2, <4>3 DEF Owned
    <3>3. \A g \in Handles \ {h} : refs'[g] = refs[g] BY <2>1 DEF TypeOK
    <3>4. refs'[h] = held[h] BY <1>9, <1>11, <2>1 DEF TypeOK
    <3>5. h \in live' <=> refs'[h] > 0 BY <1>9, <1>11, <2>1, <3>4
    <3>6. refs'[h] = held[h] + IF Owned(h)' THEN 1 ELSE 0 BY <1>9, <3>2, <3>4
    <3> QED BY <1>1, <1>11, <2>2, <3>1, <3>3, <3>5, <3>6 DEF Counted
  <2>8. Remembered'
    <3>1. \A g \in Handles : g # h => (Recorded(g)' <=> Recorded(g)) BY <1>1, <2>1 DEF Recorded
    <3>2. \A t \in ready \cup parked : t[1] \in Handles /\ t[1] # h
      BY <1>7 DEF Suspended, TypeOK, Task
    <3>3. \A x \in Threads : \A i \in Places(x) : stack'[x][i].pc = "park" =>
            stack[x][i].pc = "park" /\ In(x, i) \in Handles /\ In(x, i) # h
      BY <1>4, <1>6, FrameTyped
    <3>4. \A t \in ready \cup parked : Recorded(t[1])' BY <3>1, <3>2 DEF Remembered
    <3>5. \A x \in Threads : \A i \in Places(x) : stack'[x][i].pc = "park" => Recorded(In(x, i))'
      BY <1>3, <3>1, <3>3 DEF Remembered, Recorded
    <3> QED BY <1>1, <1>3, <3>4, <3>5 DEF Remembered
  <2>9. Cleared'
    <3>1. \A g \in Handles : ~Stepping(g) => g # h BY <1>7
    <3> QED BY <1>1, <1>3, <2>1, <2>2, <3>1 DEF Cleared
  <2>10. ScratchIsOwn' BY <2>1 DEF ScratchIsOwn, Threads
  <2> QED BY <2>3, <2>4, <2>5, <2>6, <2>7, <2>8, <2>9, <2>10
<1> QED BY <1>10, <1>11

(* The tail records the allocator of a task that suspended.                *)
LEMMA StoreKeeps ==
  ASSUME IInv, NEW th \in Threads, Store(th) PROVE IInv'
<1> USE DEF IInv
<1>a. stack[th] # <<>> /\ Top(th).pc = "tail" BY DEF Store, At
<1>b. On(th) \in Handles BY <1>a, TopTyped
<1> SUFFICES ASSUME NEW h \in Handles, h = On(th), NEW n, n = Len(stack[th]) PROVE IInv'
  BY <1>b
<1>1. /\ UNCHANGED <<gen, live, state, refs, held, temp, cur, slot, own, ready, parked, waiting>>
      /\ GoTo(th, "park") /\ state[h] = 0
      /\ ctx' = IF ctx[h] = NoRecord /\ cur[th] = Unset THEN ctx
                ELSE [ctx EXCEPT ![h] = cur[th]]
  BY DEF Store
<1>2. "park" \in Steps BY DEF Steps
<1>3. /\ \A g : Stepping(g)' <=> Stepping(g)
      /\ \A x \in Threads : Places(x)' = Places(x)
      /\ \A x \in Threads : \A i \in Places(x) : In(x, i)' = In(x, i)
  BY <1>1, <1>2, <1>a, GoToStepping
<1>4. /\ stack' \in [Threads -> Seq(Frame)]
      /\ \A x \in Threads : \A i \in Places(x) :
           stack'[x][i].pc = IF x = th /\ i = n THEN "park" ELSE stack[x][i].pc
  BY <1>1, <1>2, <1>a, GoToFacts
<1>5. n \in Places(th) /\ In(th, n) = h /\ stack[th][n].pc = "tail"
  BY <1>a, TopTyped DEF Top
<1>6. \A x \in Threads : \A i \in Places(x) : In(x, i) = h => x = th /\ i = n
  BY <1>5 DEF Alone
<1>7. Stepping(h) BY <1>5 DEF Stepping, In, Places
<1>8. cur[th] = own[h] /\ cur[th] \in Regions \cup {Unset} /\ own[h] # NoRecord
  <2>1. cur[th] = own[h] BY <1>a, <1>5 DEF Saved
  <2> QED BY <2>1, TaskHandleAssumption DEF TypeOK
<1>9. /\ ctx' \in [Handles -> Regions \cup {Unset, NoRecord}]
      /\ \A g \in Handles : g # h => ctx'[g] = ctx[g]
      /\ IF ctx'[h] = NoRecord THEN own[h] = Unset ELSE ctx'[h] = own[h]
  <2>1. CASE ctx[h] = NoRecord /\ cur[th] = Unset BY <1>1, <1>8, <2>1 DEF TypeOK
  <2>2. CASE ~(ctx[h] = NoRecord /\ cur[th] = Unset)
    <3>1. ctx' = [ctx EXCEPT ![h] = cur[th]] BY <1>1, <2>2
    <3> QED BY <1>8, <3>1 DEF TypeOK
  <2> QED BY <2>1, <2>2
<1>10. TypeOK' BY <1>1, <1>4, <1>9 DEF TypeOK
<1>11. Alone' /\ Saved' BY <1>1, <1>2, <1>a, AloneMovesOn, SavedMovesOn
<1>12. Suspended' BY <1>1, <1>3 DEF Suspended
<1>13. Phases'
  <2> SUFFICES ASSUME NEW x \in Threads, NEW i \in Places(x)
      PROVE LET g == In(x, i)
                p == stack'[x][i].pc IN
              /\ p \in {"body", "store", "park"} => g \in live /\ state[g] = 0
              /\ p \in {"sync", "release"} => state[g] = 1 /\ (g \in Pooled => g \in live)
              /\ p = "discard" => state[g] = 1
              /\ p = "tail" /\ state[g] = 0 => g \in live
    BY <1>1, <1>3 DEF Phases
  <2>1. CASE x = th /\ i = n
    <3>1. h \in live BY <1>1, <1>5 DEF Phases
    <3> QED BY <1>1, <1>4, <1>5, <2>1, <3>1
  <2>2. CASE ~(x = th /\ i = n) BY <1>4, <2>2 DEF Phases
  <2> QED BY <2>1, <2>2
<1>14. Counted'
  <2>1. \A g \in Handles : Owned(g)' <=> Owned(g)
    <3> SUFFICES ASSUME NEW g \in Handles PROVE Owned(g)' <=> Owned(g)
      OBVIOUS
    <3>1. \A x \in Threads : \A i \in Places(x) : In(x, i) = g =>
            ((stack'[x][i].pc \in {"tail", "discard"} => state[g] = 0) <=> (stack[x][i].pc \in {"tail", "discard"} => state[g] = 0))
      BY <1>1, <1>4, <1>5
    <3> QED BY <1>1, <1>3, <3>1 DEF Owned
  <2> QED BY <1>1, <2>1 DEF Counted
<1>15. Remembered'
  <2>1. \A g \in Handles : Recorded(g) => Recorded(g)' BY <1>1, <1>9 DEF Recorded
  <2>2. \A t \in ready \cup parked : t[1] \in Handles BY DEF TypeOK, Task
  <2>3. \A t \in ready \cup parked : Recorded(t[1])' BY <2>1, <2>2 DEF Remembered
  <2>4. ASSUME NEW x \in Threads, NEW i \in Places(x), stack'[x][i].pc = "park"
        PROVE  Recorded(In(x, i))'
    <3>1. CASE x = th /\ i = n
      <4>1. In(x, i)' = h BY <1>3, <1>5, <3>1
      <4> QED BY <1>1, <1>9, <4>1 DEF Recorded
    <3>2. CASE ~(x = th /\ i = n)
      <4>1. stack[x][i].pc = "park" /\ In(x, i) \in Handles BY <1>4, <2>4, <3>2, FrameTyped
      <4>2. In(x, i)' = In(x, i) BY <1>3
      <4> QED BY <2>1, <4>1, <4>2 DEF Remembered, Recorded
    <3> QED BY <3>1, <3>2
  <2> QED BY <1>1, <1>3, <2>3, <2>4 DEF Remembered
<1>16. Cleared'
  <2>1. \A g \in Handles : ~Stepping(g) => g # h BY <1>7
  <2>2. ctx'[h] = NoRecord => ctx[h] = NoRecord
    BY <1>1, <1>8, TaskHandleAssumption DEF TypeOK
  <2> QED BY <1>1, <1>3, <1>9, <2>1, <2>2 DEF Cleared
<1>17. ScratchIsOwn' BY <1>1, ScratchStays
<1> QED BY <1>10, <1>11, <1>12, <1>13, <1>14, <1>15, <1>16, <1>17

-----------------------------------------------------------------------------
(* A step begins on top of what the thread was doing.                      *)
LEMMA BeginStepKeeps ==
  ASSUME IInv, NEW th \in Threads, NEW t \in ready, BeginStep(th, t) PROVE IInv'
<1> USE DEF IInv
<1>a. t \in Task /\ t[1] \in Handles BY DEF TypeOK, Task
<1> SUFFICES ASSUME NEW h \in Handles, h = t[1], NEW n, n = Len(stack[th]),
                    NEW f, f = [task |-> t, pc |-> "body", alloc |-> cur[th], slot |-> slot[th]]
    PROVE IInv'
  BY <1>a
<1>1. /\ UNCHANGED <<gen, live, state, refs, held, ctx, temp, parked, waiting, own>>
      /\ ready' = ready \ {t} /\ stack' = [stack EXCEPT ![th] = Append(stack[th], f)]
      /\ cur' = [cur EXCEPT ![th] = IF ctx[h] = NoRecord THEN Unset ELSE ctx[h]]
      /\ slot' = [slot EXCEPT ![th] = h]
  BY DEF BeginStep, Save
<1>2. f \in Frame /\ f.task = t /\ f.pc = "body" /\ f.alloc = cur[th] /\ f.slot = slot[th]
  BY <1>a DEF Frame, Steps, TypeOK
<1>3. /\ stack' \in [Threads -> Seq(Frame)]
      /\ \A x \in Threads \ {th} : stack'[x] = stack[x]
      /\ Len(stack'[th]) = n + 1 /\ n \in Nat
      /\ stack'[th] # <<>>
      /\ Places(th)' = Places(th) \cup {n + 1}
      /\ n + 1 \notin Places(th)
      /\ \A i \in Places(th) : stack'[th][i] = stack[th][i]
      /\ stack'[th][n + 1] = f
  BY <1>1, <1>2, PushFacts
<1>4. /\ \A x \in Threads \ {th} : Places(x)' = Places(x)
      /\ \A x \in Threads : \A i \in Places(x) : stack'[x][i] = stack[x][i] /\ In(x, i)' = In(x, i)
      /\ In(th, n + 1)' = h
      /\ n + 1 \in Places(th)'
      /\ \A x \in Threads : \A i \in Places(x)' : i \in Places(x) \/ (x = th /\ i = n + 1)
  BY <1>2, <1>3 DEF Places, In
<1>5. t[2] = gen[h] /\ h \in live /\ state[h] = 0 /\ ~Stepping(h) BY DEF Suspended
<1>6. \A x \in Threads : \A i \in Places(x) : In(x, i) # h
  BY <1>5 DEF Stepping, In, Places
<1>7. \A g : Stepping(g)' <=> (Stepping(g) \/ g = h)
  <2>1. \A g : Stepping(g) <=> \E x \in Threads : \E i \in Places(x) : In(x, i) = g
    BY DEF Stepping, Places, In
  <2>2. \A g : Stepping(g)' <=> \E x \in Threads : \E i \in Places(x)' : In(x, i)' = g
    BY DEF Stepping, Places, In
  <2>3. \A x \in Threads : \A i \in Places(x) : i \in Places(x)' BY <1>3, <1>4
  <2> QED BY <1>4, <2>1, <2>2, <2>3
<1>8. \A s \in (ready' \cup parked') : s \in ready \cup parked /\ s[1] \in Handles /\ s[1] # h
  <2> SUFFICES ASSUME NEW s \in ready' \cup parked', s[1] = h PROVE FALSE
    BY <1>1 DEF TypeOK, Task
  <2>1. s \in ready \cup parked /\ s # t BY <1>1 DEF Suspended
  <2>2. s \in Task /\ s[2] = gen[h] BY <2>1 DEF Suspended, TypeOK
  <2> QED BY <1>a, <1>5, <2>1, <2>2 DEF Task
<1>9. TypeOK'
  <2>1. cur' \in [Threads -> Regions \cup {Unset}] /\ slot' \in [Threads -> Codes]
    BY <1>1, <1>a DEF TypeOK, Codes
  <2> QED BY <1>1, <1>3, <2>1 DEF TypeOK
<1>10. Alone'
  <2>1. \A x \in Threads : \A i \in Places(x)' : stack'[x][i].task[2] = gen'[In(x, i)']
    <3> SUFFICES ASSUME NEW x \in Threads, NEW i \in Places(x)'
        PROVE stack'[x][i].task[2] = gen[In(x, i)']
      BY <1>1
    <3>1. CASE i \in Places(x) BY <1>4, <3>1 DEF Alone
    <3>2. CASE i \notin Places(x) BY <1>2, <1>3, <1>4, <1>5, <3>2
    <3> QED BY <3>1, <3>2
  <2>2. ASSUME NEW x \in Threads, NEW y \in Threads, NEW i \in Places(x)', NEW k \in Places(y)',
               In(x, i)' = In(y, k)'
        PROVE  x = y /\ i = k
    <3>1. CASE i \in Places(x) /\ k \in Places(y) BY <1>4, <2>2, <3>1 DEF Alone
    <3>2. CASE i \in Places(x) /\ k \notin Places(y) BY <1>4, <1>6, <2>2, <3>2
    <3>3. CASE i \notin Places(x) /\ k \in Places(y) BY <1>4, <1>6, <2>2, <3>3
    <3>4. CASE i \notin Places(x) /\ k \notin Places(y) BY <1>4, <3>4
    <3> QED BY <3>1, <3>2, <3>3, <3>4
  <2> QED BY <2>1, <2>2 DEF Alone
<1>11. Suspended'
  <2>1. ready' \cap parked' = {} BY <1>1 DEF Suspended
  <2>2. \A s \in ready' \cup parked' : s[2] = gen'[s[1]] /\ s[1] \in live' /\ state'[s[1]] = 0 /\ ~Stepping(s[1])'
    BY <1>1, <1>7, <1>8 DEF Suspended
  <2> QED BY <2>1, <2>2 DEF Suspended
<1>12. Phases'
  <2> SUFFICES ASSUME NEW x \in Threads, NEW i \in Places(x)'
      PROVE LET g == In(x, i)'
                p == stack'[x][i].pc IN
              /\ p \in {"body", "store", "park"} => g \in live /\ state[g] = 0
              /\ p \in {"sync", "release"} => state[g] = 1 /\ (g \in Pooled => g \in live)
              /\ p = "discard" => state[g] = 1
              /\ p = "tail" /\ state[g] = 0 => g \in live
    BY <1>1 DEF Phases
  <2>1. CASE i \in Places(x) BY <1>4, <2>1 DEF Phases
  <2>2. CASE i \notin Places(x) BY <1>2, <1>3, <1>4, <1>5, <2>2
  <2> QED BY <2>1, <2>2
<1>13. Counted'
  <2>1. \A g \in Handles : Owned(g)' <=> Owned(g)
    <3> SUFFICES ASSUME NEW g \in Handles PROVE Owned(g)' <=> Owned(g)
      OBVIOUS
    <3>1. CASE g = h
      <4>1. Owned(g) BY <3>1 DEF Owned
      <4>2. Owned(g)' BY <1>2, <1>3, <1>4, <3>1 DEF Owned
      <4> QED BY <4>1, <4>2
    <3>2. CASE g # h
      <4>1. (\E s \in ready' \cup parked' : s[1] = g) <=> (\E s \in ready \cup parked : s[1] = g)
        BY <1>1, <1>8, <3>2
      <4>2. \A x \in Threads : \A i \in Places(x) : i \in Places(x)' BY <1>3, <1>4
      <4>3. \A x \in Threads : \A i \in Places(x)' : In(x, i)' = g => i \in Places(x)
        BY <1>4, <3>2
      <4>4. \A x \in Threads : \A i \in Places(x) : stack'[x][i] = stack[x][i] /\ In(x, i)' = In(x, i)
        BY <1>4
      <4>5. state' = state BY <1>1
      <4>6. (\E x \in Threads : \E i \in Places(x)' :
               In(x, i)' = g /\ (stack'[x][i].pc \in {"tail", "discard"} => state'[g] = 0))
            <=> (\E x \in Threads : \E i \in Places(x) :
                   In(x, i) = g /\ (stack[x][i].pc \in {"tail", "discard"} => state[g] = 0))
        BY <4>2, <4>3, <4>4, <4>5
      <4> QED BY <4>1, <4>6 DEF Owned
    <3> QED BY <3>1, <3>2
  <2> QED BY <1>1, <2>1 DEF Counted
<1>14. Saved'
  <2> SUFFICES ASSUME NEW x \in Threads
      PROVE /\ slot'[x] = IF stack'[x] = <<>> THEN Main ELSE In(x, Len(stack[x]))'
            /\ cur'[x] = IF stack'[x] # <<>> THEN own'[In(x, Len(stack[x]))']
                         ELSE IF x = Main THEN own'[Main] ELSE Unset
            /\ \A i \in Places(x)' :
                 /\ stack'[x][i].slot = IF i = 1 THEN Main ELSE In(x, i - 1)'
                 /\ stack'[x][i].alloc = IF i > 1 THEN own'[In(x, i - 1)']
                                         ELSE IF x = Main THEN own'[Main] ELSE Unset
    BY DEF Saved
  <2>1. CASE x # th
    <3>1. own' = own /\ slot'[x] = slot[x] /\ cur'[x] = cur[x] /\ stack'[x] = stack[x] /\ Places(x)' = Places(x)
      BY <1>1, <1>3, <1>4, <2>1 DEF TypeOK
    <3>2. /\ In(x, Len(stack[x]))' = In(x, Len(stack[x]))
          /\ \A i \in Places(x)' : In(x, i - 1)' = In(x, i - 1)
      BY <3>1 DEF In
    <3> QED BY <3>1, <3>2 DEF Saved
  <2>2. CASE x = th
    <3>1. slot'[x] = h /\ cur'[x] = own'[h]
      <4>1. Recorded(h) BY DEF Remembered
      <4>2. cur'[x] = own'[h] BY <1>1, <2>2, <4>1 DEF Recorded, TypeOK
      <4> QED BY <1>1, <2>2, <4>2 DEF TypeOK
    <3>2. In(x, Len(stack[x]))' = h BY <1>2, <1>3, <2>2 DEF In
    <3>3. ASSUME NEW i \in Places(x)
          PROVE  /\ stack'[x][i].slot = IF i = 1 THEN Main ELSE In(x, i - 1)'
                 /\ stack'[x][i].alloc = IF i > 1 THEN own'[In(x, i - 1)']
                                         ELSE IF x = Main THEN own'[Main] ELSE Unset
      <4>1. i \in Nat /\ i >= 1 BY FrameTyped DEF Places
      <4>2. i # 1 => i - 1 \in Places(x) BY <1>3, <2>2, <4>1 DEF Places
      <4>3. i # 1 => In(x, i - 1)' = In(x, i - 1) BY <1>4, <4>2
      <4>4. i > 1 => i # 1 BY <4>1
      <4>5. stack'[x][i] = stack[x][i] BY <1>4
      <4>6. /\ stack[x][i].slot = IF i = 1 THEN Main ELSE In(x, i - 1)
            /\ stack[x][i].alloc = IF i > 1 THEN own[In(x, i - 1)]
                                   ELSE IF x = Main THEN own[Main] ELSE Unset
        BY DEF Saved
      <4>7. own' = own BY <1>1
      <4> QED BY <4>3, <4>4, <4>5, <4>6, <4>7
    <3>4. /\ f.slot = IF n + 1 = 1 THEN Main ELSE In(x, n)'
          /\ f.alloc = IF n + 1 > 1 THEN own'[In(x, n)']
                       ELSE IF x = Main THEN own'[Main] ELSE Unset
      <4>1. CASE stack[th] = <<>>
        <5>1. n = 0 BY <4>1, EmptySeq
        <5>2. slot[th] = Main /\ cur[th] = IF th = Main THEN own'[Main] ELSE Unset
          BY <1>1, <4>1 DEF Saved
        <5> QED BY <1>2, <2>2, <5>1, <5>2
      <4>2. CASE stack[th] # <<>>
        <5>1. n \in Places(th) /\ n \in Nat \ {0} BY <4>2, TopTyped
        <5>2. slot[th] = In(th, n) /\ cur[th] = own'[In(th, n)] BY <1>1, <4>2 DEF Saved
        <5>3. In(x, n)' = In(th, n) BY <1>4, <2>2, <5>1
        <5>4. n + 1 # 1 /\ n + 1 > 1 BY <5>1
        <5> QED BY <1>2, <5>2, <5>3, <5>4
      <4> QED BY <4>1, <4>2
    <3>5. (n + 1) - 1 = n BY <1>3
    <3> QED BY <1>3, <2>2, <3>1, <3>2, <3>3, <3>4, <3>5
  <2> QED BY <2>1, <2>2
<1>15. Remembered'
  <2>1. \A g : Recorded(g)' <=> Recorded(g) BY <1>1 DEF Recorded
  <2>2. \A s \in ready' \cup parked' : Recorded(s[1])' BY <1>8, <2>1 DEF Remembered
  <2>3. ASSUME NEW x \in Threads, NEW i \in Places(x)', stack'[x][i].pc = "park"
        PROVE  Recorded(In(x, i))'
    <3>1. i \in Places(x) BY <1>2, <1>3, <1>4, <2>3
    <3>2. stack[x][i].pc = "park" /\ In(x, i)' = In(x, i) BY <1>4, <2>3, <3>1
    <3> QED BY <1>1, <3>1, <3>2 DEF Remembered, Recorded
  <2> QED BY <2>2, <2>3 DEF Remembered
<1>16. Cleared' BY <1>1, <1>7 DEF Cleared
<1>17. ScratchIsOwn' BY <1>1, ScratchStays
<1> QED BY <1>9, <1>10, <1>11, <1>12, <1>13, <1>14, <1>15, <1>16, <1>17

-----------------------------------------------------------------------------
(* A step returns, to the code below it or to the worker's loop.           *)
LEMMA RestoreFacts ==
  ASSUME IInv, NEW th \in Threads, stack[th] # <<>>, Restore(th),
         NEW h, h = On(th), NEW n, n = Len(stack[th])
  PROVE  /\ stack' \in [Threads -> Seq(Frame)]
         /\ n \in Places(th) /\ In(th, n) = h /\ h \in Handles /\ Stepping(h)
         /\ \A x \in Threads : \A i \in Places(x) : In(x, i) = h => x = th /\ i = n
         /\ \A x \in Threads : \A i \in Places(x)' :
              /\ i \in Places(x) /\ stack'[x][i] = stack[x][i] /\ In(x, i)' = In(x, i)
              /\ In(x, i) # h
         /\ \A x \in Threads : \A i \in Places(x) : i \in Places(x)' \/ (x = th /\ i = n)
         /\ \A g : Stepping(g)' <=> (Stepping(g) /\ g # h)
<1> USE DEF IInv
<1>1. stack' = [stack EXCEPT ![th] = Below(th)] BY DEF Restore
<1>2. /\ stack' \in [Threads -> Seq(Frame)]
      /\ \A x \in Threads \ {th} : stack'[x] = stack[x]
      /\ Places(th)' = Places(th) \ {n}
      /\ \A i \in Places(th)' : stack'[th][i] = stack[th][i]
  BY <1>1, PopFacts
<1>3. n \in Places(th) /\ In(th, n) = h /\ h \in Handles BY TopTyped
<1>4. \A x \in Threads : \A i \in Places(x) : In(x, i) = h => x = th /\ i = n
  BY <1>3 DEF Alone
<1>5. \A x \in Threads \ {th} : Places(x)' = Places(x) BY <1>2 DEF Places
<1>6. ASSUME NEW x \in Threads, NEW i \in Places(x)'
      PROVE  /\ i \in Places(x) /\ stack'[x][i] = stack[x][i] /\ In(x, i)' = In(x, i)
             /\ In(x, i) # h
  <2>1. i \in Places(x) /\ ~(x = th /\ i = n) /\ stack'[x][i] = stack[x][i]
    BY <1>2, <1>5
  <2> QED BY <1>4, <2>1 DEF In
<1>7. \A x \in Threads : \A i \in Places(x) : i \in Places(x)' \/ (x = th /\ i = n)
  BY <1>2, <1>5
<1>8. \A g : Stepping(g) <=> \E x \in Threads : \E i \in Places(x) : In(x, i) = g
  BY DEF Stepping, Places, In
<1>9. \A g : Stepping(g)' <=> \E x \in Threads : \E i \in Places(x)' : In(x, i)' = g
  BY DEF Stepping, Places, In
<1>10. \A g : Stepping(g)' <=> (Stepping(g) /\ g # h)
  BY <1>3, <1>6, <1>7, <1>8, <1>9
<1>11. Stepping(h) BY <1>3, <1>8
<1> QED BY <1>2, <1>3, <1>4, <1>6, <1>7, <1>10, <1>11

LEMMA AloneReturns ==
  ASSUME IInv, NEW th \in Threads, stack[th] # <<>>, Restore(th), UNCHANGED gen
  PROVE  Alone'
<1>1. \A x \in Threads : \A i \in Places(x)' :
        i \in Places(x) /\ stack'[x][i] = stack[x][i] /\ In(x, i)' = In(x, i)
  BY RestoreFacts
<1>2. \A x \in Threads : \A i \in Places(x)' : stack'[x][i].task[2] = gen'[In(x, i)']
  BY <1>1 DEF IInv, Alone
<1>3. ASSUME NEW x \in Threads, NEW y \in Threads, NEW i \in Places(x)', NEW k \in Places(y)',
             In(x, i)' = In(y, k)'
      PROVE  x = y /\ i = k
  BY <1>1, <1>3 DEF IInv, Alone
<1> QED BY <1>2, <1>3 DEF Alone

LEMMA SavedReturns ==
  ASSUME IInv, NEW th \in Threads, stack[th] # <<>>, Restore(th), UNCHANGED own
  PROVE  Saved'
<1> USE DEF IInv
<1>1. /\ stack' = [stack EXCEPT ![th] = Below(th)]
      /\ cur' = [cur EXCEPT ![th] = Top(th).alloc] /\ slot' = [slot EXCEPT ![th] = Top(th).slot]
  BY DEF Restore
<1> SUFFICES ASSUME NEW n, n = Len(stack[th]) PROVE Saved'
  OBVIOUS
<1>2. /\ \A x \in Threads \ {th} : stack'[x] = stack[x]
      /\ Len(stack'[th]) = n - 1
      /\ (stack'[th] = <<>>) <=> (n = 1)
      /\ Places(th)' = Places(th) \ {n}
  BY <1>1, PopFacts
<1>3. \A x \in Threads : \A i \in Places(x)' :
        i \in Places(x) /\ stack'[x][i] = stack[x][i] /\ In(x, i)' = In(x, i)
  BY RestoreFacts
<1>4. n \in Places(th) /\ n \in Nat \ {0} /\ Top(th) = stack[th][n] BY TopTyped DEF Top
<1> SUFFICES ASSUME NEW x \in Threads
    PROVE /\ slot'[x] = IF stack'[x] = <<>> THEN Main ELSE In(x, Len(stack[x]))'
          /\ cur'[x] = IF stack'[x] # <<>> THEN own'[In(x, Len(stack[x]))']
                       ELSE IF x = Main THEN own'[Main] ELSE Unset
          /\ \A i \in Places(x)' :
               /\ stack'[x][i].slot = IF i = 1 THEN Main ELSE In(x, i - 1)'
               /\ stack'[x][i].alloc = IF i > 1 THEN own'[In(x, i - 1)']
                                       ELSE IF x = Main THEN own'[Main] ELSE Unset
  BY DEF Saved
<1>5. CASE x # th
  <2>1. slot'[x] = slot[x] /\ cur'[x] = cur[x] /\ stack'[x] = stack[x] /\ Places(x)' = Places(x)
    BY <1>1, <1>2, <1>5 DEF TypeOK, Places
  <2>2. /\ In(x, Len(stack[x]))' = In(x, Len(stack[x]))
        /\ \A i \in Places(x)' : In(x, i - 1)' = In(x, i - 1)
    BY <2>1 DEF In
  <2> QED BY <2>1, <2>2 DEF Saved
<1>6. CASE x = th
  <2>1. slot'[x] = stack[th][n].slot /\ cur'[x] = stack[th][n].alloc
    BY <1>1, <1>4, <1>6 DEF TypeOK
  <2>2. /\ stack[th][n].slot = IF n = 1 THEN Main ELSE In(th, n - 1)
        /\ stack[th][n].alloc = IF n > 1 THEN own[In(th, n - 1)]
                                ELSE IF th = Main THEN own[Main] ELSE Unset
    BY <1>4 DEF Saved
  <2>3. (stack'[x] # <<>>) <=> (n > 1) BY <1>2, <1>4, <1>6
  <2>4. n > 1 => n - 1 \in Places(th)' BY <1>2, <1>4 DEF Places
  <2>5. n > 1 => In(x, Len(stack[x]))' = In(th, n - 1)
    <3>1. In(x, Len(stack[x]))' = stack'[x][n - 1].task[1] BY <1>2, <1>6 DEF In
    <3> QED BY <1>3, <1>6, <2>4, <3>1 DEF In
  <2>6. ASSUME NEW i \in Places(x)'
        PROVE  /\ stack'[x][i].slot = IF i = 1 THEN Main ELSE In(x, i - 1)'
               /\ stack'[x][i].alloc = IF i > 1 THEN own'[In(x, i - 1)']
                                       ELSE IF x = Main THEN own'[Main] ELSE Unset
    <3>1. i \in Places(x) /\ stack'[x][i] = stack[x][i] BY <1>3
    <3>2. i \in Nat /\ i >= 1 /\ i <= n - 1
      BY <1>2, <1>4, <1>6, <3>1 DEF Places
    <3>3. i > 1 => i - 1 \in Places(x)' BY <1>2, <1>4, <1>6, <3>2 DEF Places
    <3>4. i # 1 => In(x, i - 1)' = In(x, i - 1) BY <1>3, <3>2, <3>3
    <3>5. /\ stack[x][i].slot = IF i = 1 THEN Main ELSE In(x, i - 1)
          /\ stack[x][i].alloc = IF i > 1 THEN own[In(x, i - 1)]
                                 ELSE IF x = Main THEN own[Main] ELSE Unset
      BY <3>1 DEF Saved
    <3>6. i > 1 => i # 1 BY <3>2
    <3> QED BY <3>1, <3>4, <3>5, <3>6
  <2>7. (n = 1) <=> ~(n > 1)
    <3>1. \A m \in Nat \ {0} : (m = 1) <=> ~(m > 1) OBVIOUS
    <3> QED BY <1>4, <3>1
  <2> QED BY <1>6, <2>1, <2>2, <2>3, <2>5, <2>6, <2>7
<1> QED BY <1>5, <1>6

(* ... a finished one, which has no record or loses it.                    *)
LEMMA OverKeeps ==
  ASSUME IInv, NEW th \in Threads, NothingToDiscard(th) \/ FreeRecord(th) PROVE IInv'
<1> USE DEF IInv
<1>a. stack[th] # <<>> /\ Top(th).pc \in {"tail", "discard"} /\ Restore(th)
  BY DEF NothingToDiscard, FreeRecord, At
<1>b. Len(stack[th]) \in Places(th) /\ In(th, Len(stack[th])) = On(th) /\ On(th) \in Handles
  BY <1>a, TopTyped
<1>c. state[On(th)] # 0
  <2>1. CASE NothingToDiscard(th) BY <2>1 DEF NothingToDiscard
  <2>2. CASE FreeRecord(th)
    <3>1. stack[th][Len(stack[th])].pc = "discard" BY <2>2 DEF FreeRecord, At, Top
    <3> QED BY <1>b, <3>1 DEF Phases
  <2> QED BY <2>1, <2>2
<1>d. ctx' = [ctx EXCEPT ![On(th)] = NoRecord] /\ temp' = [temp EXCEPT ![On(th)] = {}]
  <2>1. CASE NothingToDiscard(th)
    <3>1. ctx[On(th)] = NoRecord /\ temp[On(th)] = {} /\ UNCHANGED <<ctx, temp>>
      BY <1>b, <2>1 DEF NothingToDiscard, Cleared
    <3> QED BY <3>1 DEF TypeOK
  <2>2. CASE FreeRecord(th) BY <2>2 DEF FreeRecord
  <2> QED BY <2>1, <2>2
<1> SUFFICES ASSUME NEW h, h = On(th), NEW n, n = Len(stack[th]) PROVE IInv'
  OBVIOUS
<1>1. /\ UNCHANGED <<gen, live, state, refs, held, own, ready, parked, waiting>>
      /\ state[h] # 0
      /\ ctx' = [ctx EXCEPT ![h] = NoRecord] /\ temp' = [temp EXCEPT ![h] = {}]
  BY <1>c, <1>d DEF NothingToDiscard, FreeRecord
<1>2. /\ stack' \in [Threads -> Seq(Frame)]
      /\ n \in Places(th) /\ In(th, n) = h /\ h \in Handles /\ Stepping(h)
      /\ \A x \in Threads : \A i \in Places(x)' :
           /\ i \in Places(x) /\ stack'[x][i] = stack[x][i] /\ In(x, i)' = In(x, i)
           /\ In(x, i) # h
      /\ \A x \in Threads : \A i \in Places(x) : i \in Places(x)' \/ (x = th /\ i = n)
      /\ \A g : Stepping(g)' <=> (Stepping(g) /\ g # h)
  BY <1>a, RestoreFacts
<1>3. stack[th][n].pc \in {"tail", "discard"} BY <1>a DEF Top
<1>4. h \notin Threads BY <1>2, TaskHandleAssumption DEF Threads
<1>5. /\ ctx' \in [Handles -> Regions \cup {Unset, NoRecord}] /\ ctx'[h] = NoRecord
      /\ temp' \in [Handles \cup Threads -> SUBSET Codes] /\ temp'[h] = {}
      /\ \A g \in Handles : g # h => ctx'[g] = ctx[g] /\ temp'[g] = temp[g]
      /\ \A x \in Threads : temp'[x] = temp[x]
  BY <1>1, <1>2, <1>4 DEF TypeOK
<1>6. TypeOK'
  <2>1. Top(th).alloc \in Regions \cup {Unset} /\ Top(th).slot \in Codes BY <1>a, TopTyped
  <2>2. cur' \in [Threads -> Regions \cup {Unset}] /\ slot' \in [Threads -> Codes]
    BY <1>a, <2>1 DEF Restore, TypeOK
  <2> QED BY <1>1, <1>2, <1>5, <2>2 DEF TypeOK
<1>7. Alone' /\ Saved' BY <1>a, <1>1, AloneReturns, SavedReturns
<1>8. Suspended' BY <1>1, <1>2 DEF Suspended
<1>9. Phases'
  <2> SUFFICES ASSUME NEW x \in Threads, NEW i \in Places(x)'
      PROVE LET g == In(x, i)'
                p == stack'[x][i].pc IN
              /\ p \in {"body", "store", "park"} => g \in live /\ state[g] = 0
              /\ p \in {"sync", "release"} => state[g] = 1 /\ (g \in Pooled => g \in live)
              /\ p = "discard" => state[g] = 1
              /\ p = "tail" /\ state[g] = 0 => g \in live
    BY <1>1 DEF Phases
  <2> QED BY <1>2 DEF Phases
<1>10. Counted'
  <2>1. \A g \in Handles : Owned(g)' <=> Owned(g)
    <3> SUFFICES ASSUME NEW g \in Handles PROVE Owned(g)' <=> Owned(g)
      OBVIOUS
    <3>1. (\E x \in Threads : \E i \in Places(x)' :
             In(x, i)' = g /\ (stack'[x][i].pc \in {"tail", "discard"} => state'[g] = 0))
          <=> (\E x \in Threads : \E i \in Places(x) :
                 In(x, i) = g /\ (stack[x][i].pc \in {"tail", "discard"} => state[g] = 0))
      <4>1. \A x \in Threads : \A i \in Places(x) :
              In(x, i) = g /\ (stack[x][i].pc \in {"tail", "discard"} => state[g] = 0) => i \in Places(x)'
        BY <1>1, <1>2, <1>3
      <4>2. state' = state BY <1>1
      <4>3. \A x \in Threads : \A i \in Places(x)' :
              i \in Places(x) /\ In(x, i)' = In(x, i) /\ stack'[x][i].pc = stack[x][i].pc
        BY <1>2
      <4> QED BY <4>1, <4>2, <4>3
    <3>2. ready' = ready /\ parked' = parked BY <1>1
    <3> QED BY <3>1, <3>2 DEF Owned
  <2> QED BY <1>1, <2>1 DEF Counted
<1>11. Remembered'
  <2>1. \A g \in Handles : g # h => (Recorded(g)' <=> Recorded(g)) BY <1>1, <1>5 DEF Recorded
  <2>2. \A t \in ready \cup parked : t[1] \in Handles /\ t[1] # h
    BY <1>2 DEF Suspended, TypeOK, Task
  <2>3. \A t \in ready' \cup parked' : Recorded(t[1])' BY <1>1, <2>1, <2>2 DEF Remembered
  <2>4. ASSUME NEW x \in Threads, NEW i \in Places(x)', stack'[x][i].pc = "park"
        PROVE  Recorded(In(x, i))'
    <3>1. i \in Places(x) /\ stack[x][i].pc = "park" /\ In(x, i)' = In(x, i) /\ In(x, i) # h
      BY <1>2, <2>4
    <3>2. In(x, i) \in Handles /\ Recorded(In(x, i)) BY <3>1, FrameTyped DEF Remembered
    <3> QED BY <2>1, <3>1, <3>2 DEF Recorded
  <2> QED BY <2>3, <2>4 DEF Remembered
<1>12. Cleared' BY <1>1, <1>2, <1>5 DEF Cleared
<1>13. ScratchIsOwn' BY <1>5 DEF ScratchIsOwn, Threads
<1> QED BY <1>6, <1>7, <1>8, <1>9, <1>10, <1>11, <1>12, <1>13

(* ... one that suspended.                                                 *)
LEMMA ParkKeeps ==
  ASSUME IInv, NEW th \in Threads, Park(th) PROVE IInv'
<1> USE DEF IInv
<1>a. stack[th] # <<>> /\ Top(th).pc = "park" /\ Restore(th) BY DEF Park, At
<1> SUFFICES ASSUME NEW h, h = On(th), NEW n, n = Len(stack[th]), NEW t, t = Top(th).task PROVE IInv'
  OBVIOUS
<1>1. /\ UNCHANGED <<gen, live, state, refs, held, ctx, temp, own, waiting>>
      /\ \/ parked' = parked \cup {t} /\ ready' = ready
         \/ ready' = ready \cup {t} /\ parked' = parked
  BY DEF Park
<1>2. /\ stack' \in [Threads -> Seq(Frame)]
      /\ n \in Places(th) /\ In(th, n) = h /\ h \in Handles /\ Stepping(h)
      /\ \A x \in Threads : \A i \in Places(x) : In(x, i) = h => x = th /\ i = n
      /\ \A x \in Threads : \A i \in Places(x)' :
           /\ i \in Places(x) /\ stack'[x][i] = stack[x][i] /\ In(x, i)' = In(x, i)
           /\ In(x, i) # h
      /\ \A x \in Threads : \A i \in Places(x) : i \in Places(x)' \/ (x = th /\ i = n)
      /\ \A g : Stepping(g)' <=> (Stepping(g) /\ g # h)
  BY <1>a, RestoreFacts
<1>3. stack[th][n].pc = "park" /\ stack[th][n].task = t BY <1>a DEF Top
<1>4. t \in Task /\ t[1] = h /\ t[2] = gen[h]
  <2>1. t \in Task BY <1>a, TopTyped
  <2> QED BY <1>2, <1>3, <2>1 DEF Alone, In
<1>5. h \in live /\ state[h] = 0 /\ Recorded(h) BY <1>2, <1>3 DEF Phases, Remembered
<1>6. t \notin ready \cup parked BY <1>2, <1>4 DEF Suspended
<1>7. ready' \cup parked' = (ready \cup parked) \cup {t} BY <1>1
<1>8. TypeOK'
  <2>1. Top(th).alloc \in Regions \cup {Unset} /\ Top(th).slot \in Codes BY <1>a, TopTyped
  <2>2. cur' \in [Threads -> Regions \cup {Unset}] /\ slot' \in [Threads -> Codes]
    BY <1>a, <2>1 DEF Restore, TypeOK
  <2>3. ready' \in SUBSET Task /\ parked' \in SUBSET Task BY <1>1, <1>4 DEF TypeOK
  <2> QED BY <1>1, <1>2, <2>2, <2>3 DEF TypeOK
<1>9. Alone' /\ Saved' BY <1>a, <1>1, AloneReturns, SavedReturns
<1>10. Suspended'
  <2>1. ready' \cap parked' = {} BY <1>1, <1>6 DEF Suspended
  <2>2. \A s \in ready' \cup parked' :
          s[2] = gen[s[1]] /\ s[1] \in live /\ state[s[1]] = 0 /\ ~Stepping(s[1])'
    BY <1>2, <1>4, <1>5, <1>7 DEF Suspended
  <2> QED BY <1>1, <2>1, <2>2 DEF Suspended
<1>11. Phases'
  <2> SUFFICES ASSUME NEW x \in Threads, NEW i \in Places(x)'
      PROVE LET g == In(x, i)'
                p == stack'[x][i].pc IN
              /\ p \in {"body", "store", "park"} => g \in live /\ state[g] = 0
              /\ p \in {"sync", "release"} => state[g] = 1 /\ (g \in Pooled => g \in live)
              /\ p = "discard" => state[g] = 1
              /\ p = "tail" /\ state[g] = 0 => g \in live
    BY <1>1 DEF Phases
  <2> QED BY <1>2 DEF Phases
<1>12. Counted'
  <2>1. \A g \in Handles : Owned(g)' <=> Owned(g)
    <3> SUFFICES ASSUME NEW g \in Handles PROVE Owned(g)' <=> Owned(g)
      OBVIOUS
    <3>1. CASE g = h
      <4>1. Owned(g) BY <1>2, <1>3, <3>1 DEF Owned
      <4>2. Owned(g)' BY <1>4, <1>7, <3>1 DEF Owned
      <4> QED BY <4>1, <4>2
    <3>2. CASE g # h
      <4>1. (\E s \in ready' \cup parked' : s[1] = g) <=> (\E s \in ready \cup parked : s[1] = g)
        BY <1>4, <1>7, <3>2
      <4>2. (\E x \in Threads : \E i \in Places(x)' :
               In(x, i)' = g /\ (stack'[x][i].pc \in {"tail", "discard"} => state'[g] = 0))
            <=> (\E x \in Threads : \E i \in Places(x) :
                   In(x, i) = g /\ (stack[x][i].pc \in {"tail", "discard"} => state[g] = 0))
        <5>1. \A x \in Threads : \A i \in Places(x) : In(x, i) = g => i \in Places(x)'
          BY <1>2, <3>2
        <5>2. state' = state BY <1>1
        <5> QED BY <1>2, <5>1, <5>2
      <4> QED BY <4>1, <4>2 DEF Owned
    <3> QED BY <3>1, <3>2
  <2> QED BY <1>1, <2>1 DEF Counted
<1>13. Remembered'
  <2>1. \A g : Recorded(g)' <=> Recorded(g) BY <1>1 DEF Recorded
  <2>2. \A s \in ready' \cup parked' : Recorded(s[1])'
    BY <1>4, <1>5, <1>7, <2>1 DEF Remembered
  <2>3. ASSUME NEW x \in Threads, NEW i \in Places(x)', stack'[x][i].pc = "park"
        PROVE  Recorded(In(x, i))'
    <3>1. i \in Places(x) /\ stack[x][i].pc = "park" /\ In(x, i)' = In(x, i)
      BY <1>2, <2>3
    <3>2. Recorded(In(x, i)) BY <3>1 DEF Remembered
    <3> QED BY <1>1, <3>1, <3>2 DEF Recorded
  <2> QED BY <2>2, <2>3 DEF Remembered
<1>14. Cleared' BY <1>1, <1>2, <1>5 DEF Cleared
<1>15. ScratchIsOwn' BY <1>1, ScratchStays
<1> QED BY <1>8, <1>9, <1>10, <1>11, <1>12, <1>13, <1>14, <1>15

-----------------------------------------------------------------------------
LEMMA WakeKeeps == ASSUME IInv, NEW t \in parked, Wake(t) PROVE IInv'
<1> USE DEF IInv
<1>1. /\ UNCHANGED <<gen, live, state, refs, held, ctx, temp, cur, slot, own, stack, waiting>>
      /\ parked' = parked \ {t} /\ ready' = ready \cup {t}
  BY DEF Wake
<1>2. ready' \cup parked' = ready \cup parked /\ ready' \cap parked' = {}
  BY <1>1 DEF Suspended
<1>3. TypeOK' BY <1>1 DEF TypeOK
<1>4. Alone' /\ Phases' /\ Saved' /\ Cleared' /\ ScratchIsOwn'
  BY <1>1, AloneStays, PhasesStays, SavedStays, ClearedStays, ScratchStays
<1>5. Suspended'
  <2>1. \A g : Stepping(g)' <=> Stepping(g) BY <1>1 DEF Stepping
  <2> QED BY <1>1, <1>2, <2>1 DEF Suspended
<1>6. Counted'
  <2>1. \A g : Owned(g)' <=> Owned(g)
    <3>1. \A x \in Threads : Places(x)' = Places(x) /\ \A i \in Places(x) : In(x, i)' = In(x, i)
      BY <1>1 DEF Places, In
    <3> QED BY <1>1, <1>2, <3>1 DEF Owned
  <2> QED BY <1>1, <2>1 DEF Counted
<1>7. Remembered'
  <2>1. \A x \in Threads : Places(x)' = Places(x) /\ \A i \in Places(x) : In(x, i)' = In(x, i)
    BY <1>1 DEF Places, In
  <2>2. \A g : Recorded(g)' <=> Recorded(g) BY <1>1 DEF Recorded
  <2>3. \A s \in ready' \cup parked' : Recorded(s[1])' BY <1>2, <2>2 DEF Remembered
  <2>4. \A x \in Threads : \A i \in Places(x) : stack'[x][i].pc = "park" => Recorded(In(x, i))'
    BY <1>1, <2>1 DEF Remembered, Recorded
  <2> QED BY <2>1, <2>3, <2>4 DEF Remembered
<1> QED BY <1>3, <1>4, <1>5, <1>6, <1>7

(* Storage is used for a task: no step is left in it, by LateReuse or      *)
(* because there has been none.                                            *)
LEMMA SpawnsAfterSteps ==
  ASSUME NoEarlyReuse, IInv, NEW th \in Threads, NEW h \in Handles, Spawn(th, h)
  PROVE  ~Stepping(h)
<1>1. CASE LateReuse BY <1>1 DEF Spawn
<1>2. CASE Spawns = 1
  <2>1. gen[h] = 0 BY <1>2 DEF Spawn, IInv, TypeOK
  <2>2. ASSUME NEW x \in Threads, NEW i \in Places(x), In(x, i) = h PROVE FALSE
    <3>1. stack[x][i].task \in Handles \X (1..1) BY <1>2, FrameTyped DEF IInv, Task
    <3>2. stack[x][i].task[2] = 0 BY <2>1, <2>2 DEF IInv, Alone
    <3> QED BY <3>1, <3>2
  <2> QED BY <2>2 DEF Stepping, Places, In
<1> QED BY <1>1, <1>2 DEF NoEarlyReuse

LEMMA SpawnKeeps ==
  ASSUME NoEarlyReuse, IInv, NEW th \in Threads, NEW h \in Handles, Spawn(th, h) PROVE IInv'
<1> USE DEF IInv
<1>1. /\ UNCHANGED <<temp, parked, stack, cur, slot, waiting>>
      /\ h \notin live /\ held[h] = 0 /\ gen[h] < Spawns /\ ~Stepping(h)
      /\ gen' = [gen EXCEPT ![h] = @ + 1] /\ live' = live \cup {h}
      /\ state' = [state EXCEPT ![h] = 0]
      /\ refs' = [refs EXCEPT ![h] = IF h \in Pooled THEN 2 ELSE 0]
      /\ held' = [held EXCEPT ![h] = 1] /\ ctx' = [ctx EXCEPT ![h] = NoRecord]
      /\ ready' = ready \cup {<<h, gen[h] + 1>>} /\ own' = [own EXCEPT ![h] = Unset]
  BY SpawnsAfterSteps DEF Spawn
<1> SUFFICES ASSUME NEW t, t = <<h, gen[h] + 1>> PROVE IInv'
  OBVIOUS
<1>2. gen[h] \in Nat /\ gen[h] + 1 \in 1..Spawns BY <1>1, TaskHandleAssumption DEF TypeOK
<1>3. t \in Task /\ t[1] = h /\ t[2] = gen'[h] BY <1>1, <1>2 DEF Task, TypeOK
<1>4. /\ gen'[h] = gen[h] + 1 /\ state'[h] = 0 /\ h \in live' /\ held'[h] = 1
      /\ refs'[h] = IF h \in Pooled THEN 2 ELSE 0
      /\ ctx'[h] = NoRecord /\ own'[h] = Unset
      /\ \A g \in Handles : g # h =>
           /\ gen'[g] = gen[g] /\ state'[g] = state[g] /\ (g \in live' <=> g \in live)
           /\ held'[g] = held[g] /\ refs'[g] = refs[g] /\ ctx'[g] = ctx[g]
      /\ \A c \in Codes : c # h => own'[c] = own[c]
  BY <1>1, TaskHandleAssumption DEF TypeOK, Codes
<1>5. \A x \in Threads : Places(x)' = Places(x) /\ \A i \in Places(x) : In(x, i)' = In(x, i)
  BY <1>1 DEF Places, In
<1>6. \A x \in Threads : \A i \in Places(x) : In(x, i) # h /\ In(x, i) \in Handles
  BY <1>1, FrameTyped DEF Stepping, In, Places
<1>7. \A s \in ready \cup parked : s[1] # h /\ s[1] \in Handles
  BY <1>1 DEF Suspended, TypeOK, Task
<1>8. ready' \cup parked' = (ready \cup parked) \cup {t} BY <1>1
<1>9. \A g : Stepping(g)' <=> Stepping(g) BY <1>1 DEF Stepping
<1>10. TypeOK'
  <2>1. gen' \in [Handles -> 0..Spawns] /\ held' \in [Handles -> 0..MaxHeld]
        /\ refs' \in [Handles -> Int]
    BY <1>1, <1>2, TaskHandleAssumption DEF TypeOK
  <2>2. ready' \in SUBSET Task /\ live' \in SUBSET Handles BY <1>1, <1>3 DEF TypeOK
  <2>3. state' \in [Handles -> {0, 1}] /\ ctx' \in [Handles -> Regions \cup {Unset, NoRecord}]
        /\ own' \in [Codes -> Regions \cup {Unset}]
    BY <1>1 DEF TypeOK
  <2> QED BY <1>1, <2>1, <2>2, <2>3 DEF TypeOK
<1>11. Alone'
  <2>1. \A x \in Threads : \A i \in Places(x) : stack'[x][i].task[2] = gen'[In(x, i)]
    BY <1>1, <1>4, <1>6 DEF Alone
  <2> QED BY <1>5, <2>1 DEF Alone
<1>12. Suspended'
  <2>1. ready' \cap parked' = {} BY <1>1, <1>3, <1>7 DEF Suspended
  <2>2. \A s \in ready \cup parked :
          s[2] = gen'[s[1]] /\ s[1] \in live' /\ state'[s[1]] = 0 /\ ~Stepping(s[1])'
    BY <1>4, <1>7, <1>9 DEF Suspended
  <2>3. t[2] = gen'[t[1]] /\ t[1] \in live' /\ state'[t[1]] = 0 /\ ~Stepping(t[1])'
    BY <1>1, <1>3, <1>4, <1>9
  <2> QED BY <1>8, <2>1, <2>2, <2>3 DEF Suspended
<1>13. Phases'
  <2> SUFFICES ASSUME NEW x \in Threads, NEW i \in Places(x)
      PROVE LET g == In(x, i)
                p == stack[x][i].pc IN
              /\ p \in {"body", "store", "park"} => g \in live' /\ state'[g] = 0
              /\ p \in {"sync", "release"} => state'[g] = 1 /\ (g \in Pooled => g \in live')
              /\ p = "discard" => state'[g] = 1
              /\ p = "tail" /\ state'[g] = 0 => g \in live'
    BY <1>1, <1>5 DEF Phases
  <2>1. In(x, i) \in Handles /\ state'[In(x, i)] = state[In(x, i)]
        /\ (In(x, i) \in live' <=> In(x, i) \in live)
    BY <1>4, <1>6
  <2> QED BY <2>1 DEF Phases
<1>14. Counted'
  <2>1. Owned(h)' BY <1>3, <1>8 DEF Owned
  <2>2. \A g \in Handles : g # h => (Owned(g)' <=> Owned(g))
    <3> SUFFICES ASSUME NEW g \in Handles, g # h PROVE Owned(g)' <=> Owned(g)
      OBVIOUS
    <3>1. (\E s \in ready' \cup parked' : s[1] = g) <=> (\E s \in ready \cup parked : s[1] = g)
      BY <1>3, <1>8
    <3>2. \A x \in Threads : \A i \in Places(x) : In(x, i) = g =>
            ((stack'[x][i].pc \in {"tail", "discard"} => state'[g] = 0) <=> (stack[x][i].pc \in {"tail", "discard"} => state[g] = 0))
      BY <1>1, <1>4
    <3> QED BY <1>5, <3>1, <3>2 DEF Owned
  <2>3. h \in Pooled => refs'[h] = 2 /\ held'[h] + 1 = 2 BY <1>4
  <2> SUFFICES ASSUME NEW g \in Handles
      PROVE /\ g \in Pooled => refs'[g] = held'[g] + IF Owned(g)' THEN 1 ELSE 0
            /\ g \in Pooled => (g \in live' <=> refs'[g] > 0)
            /\ g \notin Pooled => refs'[g] = 0 /\ held'[g] \in {0, 1} /\ (g \in live' <=> held'[g] = 1)
    BY DEF Counted
  <2>4. CASE g = h BY <1>4, <2>1, <2>3, <2>4
  <2>5. CASE g # h BY <1>4, <2>2, <2>5 DEF Counted
  <2> QED BY <2>4, <2>5
<1>15. Saved'
  <2> SUFFICES ASSUME NEW x \in Threads
      PROVE /\ slot[x] = IF stack[x] = <<>> THEN Main ELSE In(x, Len(stack[x]))
            /\ cur[x] = IF stack[x] # <<>> THEN own'[In(x, Len(stack[x]))]
                        ELSE IF x = Main THEN own'[Main] ELSE Unset
            /\ \A i \in Places(x) :
                 /\ stack[x][i].slot = IF i = 1 THEN Main ELSE In(x, i - 1)
                 /\ stack[x][i].alloc = IF i > 1 THEN own'[In(x, i - 1)]
                                        ELSE IF x = Main THEN own'[Main] ELSE Unset
    BY <1>1 DEF Saved, In, Places
  <2>1. own'[Main] = own[Main] BY <1>4, TaskHandleAssumption DEF Codes
  <2>2. stack[x] # <<>> => own'[In(x, Len(stack[x]))] = own[In(x, Len(stack[x]))]
    BY <1>4, <1>6, TopTyped DEF Codes
  <2>3. \A i \in Places(x) : i > 1 => own'[In(x, i - 1)] = own[In(x, i - 1)]
    <3> SUFFICES ASSUME NEW i \in Places(x), i > 1 PROVE own'[In(x, i - 1)] = own[In(x, i - 1)]
      OBVIOUS
    <3>1. i - 1 \in Places(x)
      <4>1. i \in Nat /\ Len(stack[x]) \in Nat BY FrameTyped
      <4> QED BY <4>1 DEF Places
    <3> QED BY <1>4, <1>6, <3>1 DEF Codes
  <2> QED BY <2>1, <2>2, <2>3 DEF Saved
<1>16. Remembered'
  <2>1. \A g \in Handles : g # h => (Recorded(g)' <=> Recorded(g)) BY <1>4 DEF Recorded, Codes
  <2>3. Recorded(t[1])' BY <1>1, <1>3, <1>4 DEF Recorded
  <2>4. \A s \in ready \cup parked : Recorded(s[1])' BY <1>7, <2>1 DEF Remembered
  <2>5. \A s \in ready' \cup parked' : Recorded(s[1])' BY <1>8, <2>3, <2>4
  <2>6. \A x \in Threads : \A i \in Places(x) : stack'[x][i].pc = "park" => Recorded(In(x, i))'
    <3> SUFFICES ASSUME NEW x \in Threads, NEW i \in Places(x), stack'[x][i].pc = "park"
        PROVE Recorded(In(x, i))'
      OBVIOUS
    <3>1. stack[x][i].pc = "park" /\ In(x, i)' = In(x, i) /\ In(x, i) # h /\ In(x, i) \in Handles
      BY <1>1, <1>5, <1>6
    <3> QED BY <2>1, <3>1 DEF Remembered, Recorded
  <2> QED BY <1>5, <2>5, <2>6 DEF Remembered
<1>17. Cleared' BY <1>1, <1>4, <1>9 DEF Cleared
<1>18. ScratchIsOwn' BY <1>1, ScratchStays
<1> QED BY <1>10, <1>11, <1>12, <1>13, <1>14, <1>15, <1>16, <1>17, <1>18

-----------------------------------------------------------------------------
LEMMA InitIInv == Init => IInv
<1> SUFFICES ASSUME Init PROVE IInv
  OBVIOUS
<1> USE DEF Init
<1>1. \A th \in Threads : Len(stack[th]) = 0 /\ stack[th] \in Seq(Frame) /\ Places(th) = {}
  <2>1. <<>> \in Seq(Frame) /\ Len(<<>>) = 0 /\ 1..0 = {} BY EmptySeq
  <2> QED BY <2>1 DEF Places
<1>2. TypeOK BY <1>1, TaskHandleAssumption DEF TypeOK, Codes
<1>3. \A g : ~Stepping(g) /\ ~Owned(g)
  BY <1>1 DEF Stepping, Owned, Places
<1>4. Alone /\ Suspended /\ Phases BY <1>1 DEF Alone, Suspended, Phases
<1>5. Counted BY <1>3 DEF Counted
<1>6. Saved BY <1>1 DEF Saved, Codes
<1>7. Remembered /\ Cleared /\ ScratchIsOwn
  BY <1>1 DEF Remembered, Cleared, ScratchIsOwn, Threads
<1> QED BY <1>2, <1>4, <1>5, <1>6, <1>7 DEF IInv

LEMMA StutterKeeps == ASSUME IInv, UNCHANGED vars PROVE IInv'
<1>1. TypeOK' BY DEF IInv, TypeOK, vars
<1>2. UNCHANGED <<gen, live, state, refs, held, ready, parked, stack, ctx, temp, cur, slot, own>>
  BY DEF vars
<1>3. Alone' /\ Suspended' BY <1>2, AloneStays, SuspendedStays DEF IInv
<1>4. Phases' /\ Counted' BY <1>2, PhasesStays, CountedStays DEF IInv
<1>5. Saved' /\ Remembered' BY <1>2, SavedStays, RememberedStays DEF IInv
<1>6. Cleared' /\ ScratchIsOwn' BY <1>2, ClearedStays, ScratchStays DEF IInv
<1> QED BY <1>1, <1>3, <1>4, <1>5, <1>6 DEF IInv

LEMMA StepKeeps == ASSUME NoEarlyReuse, IInv, Next PROVE IInv'
<1>1. ASSUME NEW th \in Threads, NEW h \in Handles,
             Spawn(th, h) \/ Copy(th, h) \/ Drop(th, h) \/ Wait(th, h)
      PROVE  IInv'
  BY <1>1, SpawnKeeps, CopyKeeps, DropKeeps, WaitKeeps
<1>2. ASSUME NEW th \in Threads, NEW h \in Handles, Suspend(th, h) \/ Finish(th, h)
      PROVE  IInv'
  <2>0. h # Main BY TaskHandleAssumption
  <2>1. stack[th] # <<>> /\ Top(th).pc = "body" BY <1>2, <2>0 DEF Suspend, Finish, Code, At
  <2>2. UNCHANGED <<gen, live, state, refs, held, ctx, temp, cur, slot, own, ready, parked, waiting>>
    BY <1>2 DEF Suspend, Finish
  <2>3. GoTo(th, "tail") \/ GoTo(th, "store") BY <1>2 DEF Suspend, Finish
  <2> QED BY <2>1, <2>2, <2>3, MovesOnKeeps DEF Steps
<1>3. ASSUME NEW th \in Threads, NEW c \in Codes,
             WaitReturns(th, c) \/ TempUse(th, c) \/ TempReset(th, c)
      PROVE  IInv'
  BY <1>3, WaitReturnsKeeps, TempUseKeeps, TempResetKeeps
<1>4. ASSUME NEW th \in Threads, NEW c \in Codes, NEW r \in Regions, Install(th, c, r)
      PROVE  IInv'
  BY <1>4, InstallKeeps
<1>5. ASSUME NEW th \in Threads, NEW c \in Codes, NEW t \in ready, WorkInWait(th, c, t)
      PROVE  IInv'
  BY <1>5, BeginStepKeeps DEF WorkInWait
<1>6. ASSUME NEW w \in Workers, NEW t \in ready, Work(w, t) PROVE IInv'
  BY <1>6, BeginStepKeeps DEF Work, Threads
<1>7. ASSUME NEW th \in Threads, StoreState(th) \/ Sync(th) PROVE IInv'
  <2>1. CASE StoreState(th)
    <3>1. stack[th] # <<>> /\ Top(th).pc = "store" BY <2>1 DEF StoreState, At
    <3>2. UNCHANGED <<gen, live, refs, held, ctx, temp, cur, slot, own, ready, parked, waiting>>
      BY <2>1 DEF StoreState
    <3>3. GoTo(th, "sync") /\ state' = [state EXCEPT ![On(th)] = 1] BY <2>1 DEF StoreState
    <3> QED BY <3>1, <3>2, <3>3, MovesOnKeeps DEF Steps
  <2>2. CASE Sync(th)
    <3>1. stack[th] # <<>> /\ Top(th).pc = "sync" BY <2>2 DEF Sync, At
    <3>2. UNCHANGED <<gen, live, state, refs, held, ctx, temp, cur, slot, own, ready, parked, waiting>>
      BY <2>2 DEF Sync
    <3>3. GoTo(th, "release") BY <2>2 DEF Sync
    <3> QED BY <3>1, <3>2, <3>3, MovesOnKeeps DEF Steps
  <2> QED BY <1>7, <2>1, <2>2
<1>8. ASSUME NEW th \in Threads,
             \/ ReleaseOwn(th) \/ NothingToDiscard(th) \/ Discard(th) \/ FreeRecord(th)
             \/ Store(th) \/ Park(th)
      PROVE  IInv'
  <2>1. CASE Discard(th)
    <3>1. stack[th] # <<>> /\ Top(th).pc = "tail" /\ state[On(th)] # 0
      BY <2>1 DEF Discard, At
    <3>2. UNCHANGED <<gen, live, state, refs, held, ctx, temp, cur, slot, own, ready, parked, waiting>>
      BY <2>1 DEF Discard
    <3>3. GoTo(th, "discard") BY <2>1 DEF Discard
    <3> QED BY <3>1, <3>2, <3>3, MovesOnKeeps DEF Steps
  <2> QED BY <1>8, <2>1, ReleaseOwnKeeps, OverKeeps, StoreKeeps, ParkKeeps
<1>9. ASSUME NEW t \in parked, Wake(t) PROVE IInv'
  BY <1>9, WakeKeeps
<1> QED BY <1>1, <1>2, <1>3, <1>4, <1>5, <1>6, <1>7, <1>8, <1>9 DEF Next

(* The parts together are an invariant, unless storage is used too early.  *)
THEOREM InductiveInvariant == ASSUME NoEarlyReuse PROVE Spec => []IInv
<1>1. IInv /\ [Next]_vars => IInv' BY StepKeeps, StutterKeeps
<1> QED BY <1>1, InitIInv, PTL DEF Spec

-----------------------------------------------------------------------------
(* The shape of the state, when no storage is used again too early.        *)
THEOREM TypeCorrect == ASSUME NoEarlyReuse PROVE Spec => []TypeOK
<1>1. IInv => TypeOK BY DEF IInv
<1> QED BY <1>1, InductiveInvariant, PTL

(* run_task_step: if no storage is used again under a step of its last     *)
(* task, then whatever ran on a thread, the code on it finds the allocator *)
(* it installed itself, and its own context slot.  Without the condition   *)
(* the tail of a step takes its storage's next task for its own, and       *)
(* leaves that task this thread's allocator.                               *)
THEOREM FollowsTaskUnlessReusedEarly == ASSUME NoEarlyReuse PROVE Spec => []FollowsTask
<1>1. IInv => FollowsTask BY CodeIsTop DEF FollowsTask
<1> QED BY <1>1, InductiveInvariant, PTL

(* yoop_temp_handle: on the same condition, no scratch arena holds two     *)
(* tasks' allocations, so resetTemp clears the caller's own.               *)
THEOREM ScratchIsOwnUnlessReusedEarly == ASSUME NoEarlyReuse PROVE Spec => []ScratchIsOwn
<1>1. IInv => ScratchIsOwn BY DEF IInv
<1> QED BY <1>1, InductiveInvariant, PTL

(* yoop_task_release: the handle exists for the bindings in scope, for     *)
(* queued and parked tasks, and for the steps Uses names.                  *)
LEMMA UsedIsAlive == IInv => NoUseAfterFree
<1> SUFFICES ASSUME IInv PROVE NoUseAfterFree
  OBVIOUS
<1> USE DEF IInv
<1>1. \A h \in Handles : held[h] > 0 => h \in live
  <2> SUFFICES ASSUME NEW h \in Handles, held[h] > 0 PROVE h \in live
    OBVIOUS
  <2>1. held[h] \in Nat /\ refs[h] \in Int BY TaskHandleAssumption DEF TypeOK
  <2>2. CASE h \in Pooled
    <3>1. refs[h] > 0 BY <2>1, <2>2 DEF Counted
    <3> QED BY <2>2, <3>1 DEF Counted
  <2>3. CASE h \notin Pooled
    <3>1. held[h] = 1 BY <2>1, <2>3 DEF Counted
    <3> QED BY <2>3, <3>1 DEF Counted
  <2> QED BY <2>2, <2>3
<1>2. \A t \in ready \cup parked : Exists(t) BY DEF Suspended, Exists
<1>3. ASSUME NEW th \in Threads, NEW i \in Places(th), stack[th][i].pc \in Uses(In(th, i))
      PROVE  Exists(stack[th][i].task)
  <2>1. stack[th][i].task[2] = gen[In(th, i)] BY DEF Alone
  <2>2. In(th, i) \in live BY <1>3 DEF Phases, Uses
  <2> QED BY <2>1, <2>2 DEF Exists, In
<1> QED BY <1>1, <1>2, <1>3 DEF NoUseAfterFree, Places, In

(* The last of the bindings and the worker frees a pooled handle, and what *)
(* is over keeps no context record and no scratch arena.                   *)
LEMMA UnusedIsFreed == IInv => NothingLeaks
<1> SUFFICES ASSUME IInv, NEW h \in Handles, ~Stepping(h)
    PROVE /\ h \in live /\ h \in Pooled /\ held[h] = 0 => <<h, gen[h]>> \in ready \cup parked
          /\ h \notin live => ctx[h] = NoRecord /\ temp[h] = {}
  BY DEF NothingLeaks
<1> USE DEF IInv
<1>1. ASSUME h \in live, h \in Pooled, held[h] = 0 PROVE <<h, gen[h]>> \in ready \cup parked
  <2>1. Owned(h) BY <1>1 DEF Counted
  <2>2. PICK t \in ready \cup parked : t[1] = h
    BY <2>1 DEF Owned, Stepping, Places, In
  <2>3. t \in Task /\ t[2] = gen[h] BY <2>2 DEF Suspended, TypeOK
  <2>4. t = <<h, gen[h]>> BY <2>2, <2>3 DEF Task
  <2> QED BY <2>4
<1> QED BY <1>1 DEF Cleared

(* yoop_task_release: on the same condition, a handle exists as long as a  *)
(* binding to it is in scope, its task is queued or parked, or a step of   *)
(* it has not stored the state byte (a joined handle) or given up the      *)
(* worker's reference (a pooled one), and once the last of these is over   *)
(* nothing of it is left.  Not claimed: that the handle exists for what a  *)
(* step does after that, which is the sync pair of a joined handle and the *)
(* tail of every finished one (yoop_runtime.c 228-238), where it need not. *)
THEOREM FreedUnlessReusedEarly == ASSUME NoEarlyReuse PROVE Spec => []FreedWhenUnused
<1>1. IInv => FreedWhenUnused BY UsedIsAlive, UnusedIsFreed DEF FreedWhenUnused
<1> QED BY <1>1, InductiveInvariant, PTL
-----------------------------------------------------------------------------
(***************************************************************************)
(* Each task implements TaskLifecycle, storage used again or not.  One     *)
(* step moves at most one task, and a task that is over stays so because   *)
(* no frame is its any more.                                               *)
(***************************************************************************)
Busy(pc, s) == pc \in {"body", "store", "park"} \/ (pc = "tail" /\ s = 0)

LEMMA WorkingFrames ==
  ASSUME NEW t
  PROVE  /\ Working(t) <=> \E x \in Threads : \E i \in Places(x) :
                             stack[x][i].task = t /\ Busy(stack[x][i].pc, state[t[1]])
         /\ Working(t)' <=> \E x \in Threads : \E i \in Places(x)' :
                             stack'[x][i].task = t /\ Busy(stack'[x][i].pc, state'[t[1]])
BY DEF Working, Places, Busy

(* A task at work is of this generation, and neither queued nor parked.    *)
LEMMA WorkingAlone ==
  ASSUME IInv, NEW t \in Task, Working(t)
  PROVE  ~(t[2] > gen[t[1]]) /\ t \notin ready /\ t \notin parked
<1>1. PICK x \in Threads : \E i \in Places(x) : stack[x][i].task = t BY WorkingFrames
<1>2. t[2] = gen[t[1]] /\ Stepping(t[1]) BY <1>1 DEF IInv, Alone, In, Stepping, Places
<1>3. t[2] \in Nat BY DEF Task
<1> QED BY <1>2, <1>3 DEF IInv, Suspended

LEMMA PhaseValues ==
  ASSUME IInv, NEW t \in Task
  PROVE  /\ t[2] > gen[t[1]] => Phase(t) = "new"
         /\ t \in ready => Phase(t) = "ready"
         /\ t \in parked => Phase(t) = "blocked"
         /\ Working(t) => Phase(t) = "running"
         /\ ~(t[2] > gen[t[1]]) /\ t \notin ready /\ t \notin parked /\ ~Working(t) =>
              Phase(t) = "done"
<1>1. t \in ready \/ t \in parked => ~(t[2] > gen[t[1]])
  <2>1. t[2] \in Nat BY DEF Task
  <2> QED BY <2>1 DEF IInv, Suspended
<1>2. t \in parked => t \notin ready BY DEF IInv, Suspended
<1> QED BY <1>1, <1>2, WorkingAlone DEF Phase

LEMMA PhaseValuesNext ==
  ASSUME IInv', NEW t \in Task
  PROVE  /\ t \in ready' => Phase(t)' = "ready"
         /\ t \in parked' => Phase(t)' = "blocked"
         /\ Working(t)' => Phase(t)' = "running"
         /\ ~(t[2] > gen'[t[1]]) /\ t \notin ready' /\ t \notin parked' /\ ~Working(t)' =>
              Phase(t)' = "done"
<1>1. t[2] \in Nat BY DEF Task
<1>2. t \in ready' \/ t \in parked' => ~(t[2] > gen'[t[1]])
  BY <1>1 DEF IInv, Suspended
<1>3. t \in parked' => t \notin ready' BY DEF IInv, Suspended
<1>4. Working(t)' => ~(t[2] > gen'[t[1]]) /\ t \notin ready' /\ t \notin parked'
  <2> SUFFICES ASSUME Working(t)'
               PROVE  ~(t[2] > gen'[t[1]]) /\ t \notin ready' /\ t \notin parked'
    OBVIOUS
  <2>1. PICK x \in Threads : \E i \in Places(x)' : stack'[x][i].task = t BY WorkingFrames
  <2>2. t[2] = gen'[t[1]] /\ Stepping(t[1])' BY <2>1 DEF IInv, Alone, In, Stepping, Places
  <2> QED BY <1>1, <2>2 DEF IInv, Suspended
<1> QED BY <1>2, <1>3, <1>4 DEF Phase

LEMMA PhaseKept ==
  ASSUME NEW t, gen'[t[1]] = gen[t[1]], t \in ready' <=> t \in ready,
         t \in parked' <=> t \in parked, Working(t)' <=> Working(t)
  PROVE  Phase(t)' = Phase(t)
BY DEF Phase

LEMMA PhaseMove ==
  ASSUME NEW t \in Task, NEW v, NEW u, Phase(t) = v, Phase(t)' = u,
         \A x \in Task \ {t} : Phase(x)' = Phase(x)
  PROVE  Lifecycle!Move(t, v, u)
BY DEF Lifecycle!Move

(* A step of a task moves on: the other tasks work or not as before, the   *)
(* one on top by where it is.                                              *)
LEMMA WorkingMovesOn ==
  ASSUME IInv, NEW th \in Threads, stack[th] # <<>>, NEW pc \in Steps, GoTo(th, pc),
         \A g \in Handles \ {On(th)} : state'[g] = state[g], NEW s, s = Top(th).task
  PROVE  /\ s \in Task
         /\ \A t \in Task \ {s} : Working(t)' <=> Working(t)
         /\ Working(s) <=> Busy(Top(th).pc, state[s[1]])
         /\ Working(s)' <=> Busy(pc, state'[s[1]])
<1>0. PICK n : n = Len(stack[th]) OBVIOUS
<1>1. n \in Places(th) /\ s \in Task /\ s = stack[th][n].task /\ On(th) = s[1]
  BY <1>0, TopTyped DEF IInv, Top, On
<1>2. /\ \A x \in Threads : Places(x)' = Places(x)
      /\ \A x \in Threads : \A i \in Places(x) :
           /\ stack'[x][i].task = stack[x][i].task
           /\ stack'[x][i].pc = IF x = th /\ i = n THEN pc ELSE stack[x][i].pc
  BY <1>0, GoToFacts DEF IInv
<1>3. \A x \in Threads : \A i \in Places(x) : stack[x][i].task = s => x = th /\ i = n
  BY <1>1 DEF IInv, Alone, In
<1>4. ASSUME NEW x \in Threads, NEW i \in Places(x), stack[x][i].task # s
      PROVE  /\ ~(x = th /\ i = n)
             /\ stack[x][i].task[1] \in Handles \ {On(th)}
  <2>1. In(x, i) \in Handles BY FrameTyped DEF IInv
  <2>2. ~(x = th /\ i = n) BY <1>1, <1>4
  <2>3. In(x, i) # On(th) BY <1>1, <2>2 DEF IInv, Alone, In
  <2> QED BY <2>1, <2>2, <2>3 DEF In
<1>5. ASSUME NEW t \in Task \ {s} PROVE Working(t)' <=> Working(t)
  <2>1. \A x \in Threads : \A i \in Places(x) :
          stack[x][i].task = t =>
            stack'[x][i].pc = stack[x][i].pc /\ state'[t[1]] = state[t[1]]
    BY <1>2, <1>4, <1>5
  <2> QED BY <1>2, <2>1, WorkingFrames
<1>6. Working(s) <=> Busy(Top(th).pc, state[s[1]])
  BY <1>0, <1>1, <1>3, WorkingFrames DEF Top
<1>7. Working(s)' <=> Busy(pc, state'[s[1]])
  BY <1>1, <1>2, <1>3, WorkingFrames
<1> QED BY <1>1, <1>5, <1>6, <1>7

(* It is as busy as it was: no task changes phase.                         *)
LEMMA MovesOnPhase ==
  ASSUME IInv, NEW th \in Threads, stack[th] # <<>>, NEW pc \in Steps, GoTo(th, pc),
         UNCHANGED <<gen, state, ready, parked>>,
         Busy(pc, state[On(th)]) <=> Busy(Top(th).pc, state[On(th)])
  PROVE  UNCHANGED [t \in Task |-> Phase(t)]
<1>1. \A t \in Task : Working(t)' <=> Working(t)
  <2>1. PICK s : s = Top(th).task OBVIOUS
  <2>2. s[1] = On(th) BY <2>1 DEF On
  <2> QED BY <2>1, <2>2, WorkingMovesOn
<1>2. \A t \in Task : Phase(t)' = Phase(t) BY <1>1, PhaseKept
<1> QED BY <1>2

LEMMA StoreStatePhase ==
  ASSUME IInv, IInv', NEW th \in Threads, StoreState(th)
  PROVE  \E t \in Task : Lifecycle!Complete(t)
<1>1. /\ stack[th] # <<>> /\ Top(th).pc = "store" /\ GoTo(th, "sync") /\ "sync" \in Steps
      /\ UNCHANGED <<gen, ready, parked>>
  BY DEF StoreState, At, Steps
<1>2. On(th) \in Handles BY <1>1, TopTyped DEF IInv
<1>3. state'[On(th)] = 1 /\ \A g \in Handles \ {On(th)} : state'[g] = state[g]
  BY <1>2 DEF StoreState, IInv, TypeOK
<1>4. PICK t \in Task : t = Top(th).task /\ t[1] = On(th)
  BY <1>1, TopTyped DEF IInv, On
<1>5. Working(t) /\ ~Working(t)' /\ \A u \in Task \ {t} : Working(u)' <=> Working(u)
  BY <1>1, <1>3, <1>4, WorkingMovesOn DEF Busy
<1>6. ~(t[2] > gen'[t[1]]) /\ t \notin ready' /\ t \notin parked'
  BY <1>1, <1>5, WorkingAlone
<1>7. Phase(t) = "running" /\ Phase(t)' = "done" BY <1>5, <1>6, PhaseValues, PhaseValuesNext
<1>8. \A u \in Task \ {t} : Phase(u)' = Phase(u) BY <1>1, <1>5, PhaseKept
<1> QED BY <1>7, <1>8, PhaseMove DEF Lifecycle!Complete

LEMMA BeginStepPhase ==
  ASSUME IInv, IInv', NEW th \in Threads, NEW t \in ready, BeginStep(th, t)
  PROVE  Lifecycle!Dispatch(t)
<1>1. t \in Task BY DEF IInv, TypeOK
<1>2. UNCHANGED <<gen, state, parked>> /\ ready' = ready \ {t} BY DEF BeginStep
<1> SUFFICES ASSUME NEW n, n = Len(stack[th]) + 1,
                    NEW f, f = [task |-> t, pc |-> "body", alloc |-> cur[th], slot |-> slot[th]]
             PROVE  Lifecycle!Dispatch(t)
  OBVIOUS
<1>3. f \in Frame /\ f.task = t /\ f.pc = "body"
  BY <1>1 DEF Frame, Steps, IInv, TypeOK
<1>4. /\ \A x \in Threads \ {th} : stack'[x] = stack[x]
      /\ Places(th)' = Places(th) \cup {n}
      /\ \A i \in Places(th) : stack'[th][i] = stack[th][i]
      /\ stack'[th][n] = f
  BY <1>3, PushFacts DEF IInv, BeginStep, Save
<1>5. \A x \in Threads \ {th} : Places(x)' = Places(x) BY <1>4 DEF Places
<1>6. Working(t)' BY <1>3, <1>4, WorkingFrames DEF Busy
<1>7. \A u \in Task \ {t} : Working(u)' <=> Working(u)
  BY <1>2, <1>3, <1>4, <1>5, WorkingFrames
<1>8. \A u \in Task \ {t} : Phase(u)' = Phase(u) BY <1>2, <1>7, PhaseKept
<1>9. Phase(t) = "ready" /\ Phase(t)' = "running"
  BY <1>1, <1>6, PhaseValues, PhaseValuesNext
<1> QED BY <1>1, <1>8, <1>9, PhaseMove DEF Lifecycle!Dispatch

(* A step returns: its task works no more, the others as before.           *)
LEMMA WorkingReturns ==
  ASSUME IInv, NEW th \in Threads, stack[th] # <<>>, Restore(th), UNCHANGED state,
         NEW s, s = Top(th).task
  PROVE  /\ s \in Task /\ ~Working(s)'
         /\ Working(s) <=> Busy(Top(th).pc, state[s[1]])
         /\ \A t \in Task \ {s} : Working(t)' <=> Working(t)
<1>0. PICK n : n = Len(stack[th]) OBVIOUS
<1>1. n \in Places(th) /\ s \in Task /\ s = stack[th][n].task /\ On(th) = s[1]
  BY <1>0, TopTyped DEF IInv, Top, On
<1>2. /\ \A x \in Threads : \A i \in Places(x) : In(x, i) = On(th) => x = th /\ i = n
      /\ \A x \in Threads : \A i \in Places(x)' :
           i \in Places(x) /\ stack'[x][i] = stack[x][i] /\ In(x, i) # On(th)
      /\ \A x \in Threads : \A i \in Places(x) : i \in Places(x)' \/ (x = th /\ i = n)
  BY <1>0, RestoreFacts
<1>3. ~Working(s)' BY <1>1, <1>2, WorkingFrames DEF In
<1>4. Working(s) <=> Busy(Top(th).pc, state[s[1]])
  BY <1>0, <1>1, <1>2, WorkingFrames DEF Top, In
<1>5. ASSUME NEW t \in Task \ {s} PROVE Working(t)' <=> Working(t)
  BY <1>1, <1>2, <1>5, WorkingFrames
<1> QED BY <1>1, <1>3, <1>4, <1>5

LEMMA OverPhase ==
  ASSUME IInv, NEW th \in Threads, NothingToDiscard(th) \/ FreeRecord(th)
  PROVE  UNCHANGED [t \in Task |-> Phase(t)]
<1>1. /\ stack[th] # <<>> /\ Restore(th) /\ UNCHANGED <<gen, state, ready, parked>>
      /\ Top(th).pc = "discard" \/ (Top(th).pc = "tail" /\ state[On(th)] # 0)
  BY DEF NothingToDiscard, FreeRecord, At
<1>2. \A t \in Task : Working(t)' <=> Working(t)
  <2>1. PICK s : s = Top(th).task OBVIOUS
  <2>2. s[1] = On(th) BY <2>1 DEF On
  <2> QED BY <1>1, <2>1, <2>2, WorkingReturns DEF Busy
<1>3. \A t \in Task : Phase(t)' = Phase(t) BY <1>1, <1>2, PhaseKept
<1> QED BY <1>3

LEMMA ParkPhase ==
  ASSUME IInv, IInv', NEW th \in Threads, Park(th)
  PROVE  \E t \in Task : Lifecycle!Block(t) \/ Lifecycle!Yield(t)
<1>1. /\ stack[th] # <<>> /\ Top(th).pc = "park" /\ Restore(th) /\ UNCHANGED <<gen, state>>
      /\ \/ parked' = parked \cup {Top(th).task} /\ ready' = ready
         \/ ready' = ready \cup {Top(th).task} /\ parked' = parked
  BY DEF Park, At
<1>2. PICK t \in Task : t = Top(th).task BY <1>1, TopTyped DEF IInv
<1>3. Working(t) /\ ~Working(t)' /\ \A u \in Task \ {t} : Working(u)' <=> Working(u)
  BY <1>1, <1>2, WorkingReturns DEF Busy
<1>4. \A u \in Task \ {t} : Phase(u)' = Phase(u) BY <1>1, <1>2, <1>3, PhaseKept
<1>5. Phase(t) = "running" BY <1>3, PhaseValues
<1>6. Phase(t)' = "blocked" \/ Phase(t)' = "ready" BY <1>1, <1>2, PhaseValuesNext
<1> QED BY <1>4, <1>5, <1>6, PhaseMove DEF Lifecycle!Block, Lifecycle!Yield

LEMMA WakePhase ==
  ASSUME IInv, IInv', NEW t \in parked, Wake(t)
  PROVE  Lifecycle!Wake(t)
<1>1. /\ t \in Task /\ parked' = parked \ {t} /\ ready' = ready \cup {t}
      /\ UNCHANGED <<gen, state, stack>>
  BY DEF Wake, IInv, TypeOK
<1>2. \A u : Working(u)' <=> Working(u) BY <1>1 DEF Working
<1>3. \A u \in Task \ {t} : Phase(u)' = Phase(u) BY <1>1, <1>2, PhaseKept
<1>4. Phase(t) = "blocked" /\ Phase(t)' = "ready" BY <1>1, PhaseValues, PhaseValuesNext
<1> QED BY <1>1, <1>3, <1>4, PhaseMove DEF Lifecycle!Wake

(* The storage has a new task.  Its former ones are over, and stay so:     *)
(* the state byte is 0 again, and no step of theirs is left to read it.    *)
LEMMA SpawnPhase ==
  ASSUME NoEarlyReuse, IInv, IInv', NEW th \in Threads, NEW h \in Handles, Spawn(th, h)
  PROVE  \E t \in Task : Lifecycle!Spawn(t)
<1>1. /\ gen' = [gen EXCEPT ![h] = @ + 1] /\ ready' = ready \cup {<<h, gen[h] + 1>>}
      /\ state' = [state EXCEPT ![h] = 0] /\ UNCHANGED <<parked, stack>>
      /\ ~Stepping(h) /\ gen[h] < Spawns /\ h \notin live
  BY SpawnsAfterSteps DEF Spawn
<1>2. gen[h] \in Nat /\ Spawns \in Nat /\ gen[h] + 1 \in 1..Spawns
  BY <1>1, TaskHandleAssumption DEF IInv, TypeOK
<1>3. PICK t \in Task : t = <<h, gen[h] + 1>> BY <1>2 DEF Task
<1>4. t[1] = h /\ t[2] = gen[h] + 1 /\ t[2] > gen[t[1]] BY <1>2, <1>3
<1>5. Phase(t) = "new" /\ Phase(t)' = "ready"
  BY <1>1, <1>3, <1>4, PhaseValues, PhaseValuesNext
<1>6. ASSUME NEW u \in Task \ {t} PROVE Phase(u)' = Phase(u)
  <2>1. u \in ready' <=> u \in ready BY <1>1, <1>3
  <2>2. Places(th)' = Places(th) /\ \A x \in Threads : Places(x)' = Places(x)
    BY <1>1 DEF Places
  <2>3. CASE u[1] # h
    <3>1. u[1] \in Handles BY DEF Task
    <3>2. gen'[u[1]] = gen[u[1]] /\ state'[u[1]] = state[u[1]]
      BY <1>1, <2>3, <3>1 DEF IInv, TypeOK
    <3>3. Working(u)' <=> Working(u) BY <1>1, <3>2 DEF Working
    <3> QED BY <1>1, <2>1, <3>2, <3>3, PhaseKept
  <2>4. CASE u[1] = h
    <3>1. ~Working(u) /\ ~Working(u)' BY <1>1, <2>4 DEF Working, Stepping
    <3>2. u[2] # gen[h] + 1 /\ u[2] \in Nat
      <4>1. u \in Handles \X (1..Spawns) /\ u # <<h, gen[h] + 1>> BY <1>3, <1>6 DEF Task
      <4> QED BY <2>4, <4>1
    <3>3. gen'[h] = gen[h] + 1 BY <1>1 DEF IInv, TypeOK
    <3>4. u[2] > gen[h] <=> u[2] > gen'[h] BY <1>2, <3>2, <3>3
    <3> QED BY <1>1, <2>1, <2>4, <3>1, <3>4 DEF Phase
  <2> QED BY <2>3, <2>4
<1> QED BY <1>5, <1>6, PhaseMove DEF Lifecycle!Spawn

LEMMA QuietPhase ==
  ASSUME UNCHANGED <<gen, state, ready, parked, stack>>
  PROVE  UNCHANGED [t \in Task |-> Phase(t)]
<1>1. \A t \in Task : Working(t)' <=> Working(t) BY DEF Working
<1>2. \A t \in Task : Phase(t)' = Phase(t) BY <1>1, PhaseKept
<1> QED BY <1>2

LEMMA LifecycleStep ==
  NoEarlyReuse /\ IInv /\ IInv' /\ [Next]_vars => [Lifecycle!Next]_([t \in Task |-> Phase(t)])
<1> SUFFICES ASSUME NoEarlyReuse, IInv, IInv', [Next]_vars
             PROVE  Lifecycle!Next \/ UNCHANGED [t \in Task |-> Phase(t)]
  OBVIOUS
<1> USE DEF Lifecycle!Next
<1>1. ASSUME NEW th \in Threads, NEW h \in Handles, Spawn(th, h) PROVE Lifecycle!Next
  BY <1>1, SpawnPhase
<1>2. ASSUME NEW th \in Threads, NEW h \in Handles, Suspend(th, h) \/ Finish(th, h)
      PROVE  UNCHANGED [t \in Task |-> Phase(t)]
  <2>1. stack[th] # <<>> /\ Top(th).pc = "body"
    BY <1>2, CodeIsTop, TaskHandleAssumption DEF Suspend, Finish, At, Codes
  <2>2. PICK pc \in {"tail", "store"} : GoTo(th, pc) /\ UNCHANGED <<gen, state, ready, parked>>
    BY <1>2 DEF Suspend, Finish
  <2>3. state[On(th)] = 0
    <3>1. Len(stack[th]) \in Places(th) /\ In(th, Len(stack[th])) = On(th)
      BY <2>1, TopTyped DEF IInv
    <3> QED BY <2>1, <3>1 DEF IInv, Phases, Top
  <2> QED BY <2>1, <2>2, <2>3, MovesOnPhase DEF Busy, Steps
<1>3. ASSUME NEW th \in Threads, StoreState(th) PROVE Lifecycle!Next
  BY <1>3, StoreStatePhase
<1>4. ASSUME NEW th \in Threads, Sync(th) \/ ReleaseOwn(th)
      PROVE  UNCHANGED [t \in Task |-> Phase(t)]
  <2>1. /\ stack[th] # <<>> /\ Top(th).pc \in {"sync", "release"}
        /\ UNCHANGED <<gen, state, ready, parked>>
    BY <1>4 DEF Sync, ReleaseOwn, At
  <2>2. PICK pc \in {"release", "tail"} : GoTo(th, pc) BY <1>4 DEF Sync, ReleaseOwn
  <2>3. state[On(th)] = 1
    <3>1. Len(stack[th]) \in Places(th) /\ In(th, Len(stack[th])) = On(th)
      BY <2>1, TopTyped DEF IInv
    <3> QED BY <2>1, <3>1 DEF IInv, Phases, Top
  <2> QED BY <2>1, <2>2, <2>3, MovesOnPhase DEF Busy, Steps
<1>5. ASSUME NEW th \in Threads, Store(th) PROVE UNCHANGED [t \in Task |-> Phase(t)]
  <2>1. /\ stack[th] # <<>> /\ Top(th).pc = "tail" /\ state[On(th)] = 0 /\ GoTo(th, "park")
        /\ UNCHANGED <<gen, state, ready, parked>>
    BY <1>5 DEF Store, At
  <2> QED BY <2>1, MovesOnPhase DEF Busy, Steps
<1>6. ASSUME NEW th \in Threads, NothingToDiscard(th) \/ Discard(th) \/ FreeRecord(th)
      PROVE  UNCHANGED [t \in Task |-> Phase(t)]
  <2>1. CASE Discard(th)
    <3>1. /\ stack[th] # <<>> /\ Top(th).pc = "tail" /\ state[On(th)] # 0
          /\ GoTo(th, "discard") /\ UNCHANGED <<gen, state, ready, parked>>
      BY <2>1 DEF Discard, At
    <3> QED BY <3>1, MovesOnPhase DEF Busy, Steps
  <2> QED BY <1>6, <2>1, OverPhase
<1>7. ASSUME NEW th \in Threads, Park(th) PROVE Lifecycle!Next
  BY <1>7, ParkPhase
<1>8. ASSUME NEW t \in parked, Wake(t) PROVE Lifecycle!Next
  <2>1. t \in Task BY DEF IInv, TypeOK
  <2> QED BY <1>8, <2>1, WakePhase
<1>9. ASSUME NEW th \in Threads, NEW t \in ready, BeginStep(th, t) PROVE Lifecycle!Next
  <2>1. t \in Task BY DEF IInv, TypeOK
  <2> QED BY <1>9, <2>1, BeginStepPhase
<1>10. ASSUME NEW th \in Threads, NEW h, NEW c, NEW r,
              \/ Copy(th, h) \/ Drop(th, h) \/ Wait(th, h) \/ WaitReturns(th, c)
              \/ TempUse(th, c) \/ TempReset(th, c) \/ Install(th, c, r) \/ UNCHANGED vars
       PROVE  UNCHANGED [t \in Task |-> Phase(t)]
  BY <1>10, QuietPhase
     DEF Copy, Drop, Wait, WaitReturns, TempUse, TempReset, Install, vars
<1>11. CASE UNCHANGED vars BY <1>11, QuietPhase DEF vars
<1> QED
  BY <1>1, <1>2, <1>3, <1>4, <1>5, <1>6, <1>7, <1>8, <1>9, <1>10, <1>11
     DEF Next, Work, WorkInWait, Threads

(* Every task that storage holds in turn lives the life TaskLifecycle      *)
(* promises, on the same condition.                                        *)
THEOREM LifecycleUnlessReusedEarly == ASSUME NoEarlyReuse PROVE Spec => ImplementsLifecycle
<1>1. Init => Lifecycle!Init
  <2> SUFFICES ASSUME Init PROVE Lifecycle!Init OBVIOUS
  <2>1. \A t \in Task : t[1] \in Handles /\ t[2] > 0 BY DEF Task
  <2>2. \A t \in Task : Phase(t) = "new" BY <2>1 DEF Init, Phase
  <2> QED BY <2>2 DEF Lifecycle!Init
<1>2. IInv /\ IInv' /\ [Next]_vars => [Lifecycle!Next]_([t \in Task |-> Phase(t)])
  BY LifecycleStep
<1> QED BY <1>1, <1>2, InductiveInvariant, PTL DEF Spec, ImplementsLifecycle, Lifecycle!Spec
=============================================================================
