-------------------------- MODULE CancelTree_proofs --------------------------
(***************************************************************************)
(* NoStaleSleep of CancelTree, for any tokens and threads.  It rests on    *)
(* what the stacks look like: a sleep is called by the program and calls   *)
(* nothing, so it is the only call of its thread.                          *)
(***************************************************************************)
EXTENDS CancelTree, SequenceTheorems, TLAPS

Naps == {"sleep", "asleep"}

(* A thread is in a sleep, or in calls none of which is one.               *)
Napping(s) == \E do \in Naps, t \in Tokens : s = <<Frame(do, t)>>

Call(f) ==
  /\ f.do \notin Naps
  /\ f = [do |-> f.do, tok |-> f.tok, of |-> f.of, more |-> f.more, kids |-> f.kids]
Calling(s) == \E F : s \in Seq(F) /\ \A f \in F : Call(f)

SInv ==
  /\ cancelled \in [Tokens -> BOOLEAN]
  /\ deadline \in [Tokens -> {0, 1}]
  /\ baked \in [Threads -> {0, 1}]
  /\ DOMAIN stack = Threads
  /\ \A th \in Threads : Calling(stack[th]) \/ Napping(stack[th])
  /\ NoStaleSleep

-----------------------------------------------------------------------------
LEMMA FrameFacts ==
  ASSUME NEW do, NEW t
  PROVE  /\ Frame(do, t).do = do /\ Frame(do, t).tok = t
         /\ do \notin Naps => Call(Frame(do, t))
BY DEF Frame, Call

LEMMA NapFacts ==
  ASSUME NEW s, Napping(s)
  PROVE  s # <<>> /\ Head(s).do \in Naps /\ Head(s).tok \in Tokens /\ Tail(s) = <<>>
<1>1. PICK do \in Naps, t \in Tokens : s = <<Frame(do, t)>> BY DEF Napping
<1>2. s # <<>> /\ Head(s) = Frame(do, t) /\ Tail(s) = <<>> BY <1>1
<1> QED BY <1>2, FrameFacts

LEMMA CallFacts ==
  ASSUME NEW s, Calling(s), s # <<>>
  PROVE  Call(Head(s)) /\ Calling(Tail(s)) /\ Head(s).do \notin Naps
<1>1. PICK F : s \in Seq(F) /\ \A f \in F : Call(f) BY DEF Calling
<1>2. Head(s) \in F /\ Tail(s) \in Seq(F) BY <1>1, HeadTailProperties
<1> QED BY <1>1, <1>2 DEF Calling, Call

LEMMA NoCalls == Calling(<<>>)
<1> DEFINE NoFrame == {}
<1>1. <<>> \in Seq(NoFrame) BY EmptySeq
<1>2. \A f \in NoFrame : Call(f) OBVIOUS
<1> HIDE DEF NoFrame
<1> QED BY <1>1, <1>2, Zenon DEF Calling

LEMMA OneMoreCall == ASSUME NEW s, Calling(s), NEW f, Call(f) PROVE Calling(<<f>> \o s)
<1>1. PICK F : s \in Seq(F) /\ \A x \in F : Call(x) BY DEF Calling
<1> DEFINE G == F \cup {f}
<1>2. s \in Seq(G) /\ <<f>> \in Seq(G)
  <2>1. Len(s) \in Nat /\ s \in [1..Len(s) -> F] BY <1>1, LenProperties
  <2>2. s \in [1..Len(s) -> G] BY <2>1
  <2> QED BY <2>1, <2>2
<1>3. <<f>> \o s \in Seq(G) BY <1>2, ConcatProperties
<1>4. \A x \in G : Call(x) BY <1>1
<1> HIDE DEF G
<1> QED BY <1>3, <1>4 DEF Calling

(* The newest call of a thread that is in none of the sleeps.              *)
LEMMA CallOnTop ==
  ASSUME SInv, NEW th \in Threads, NEW do, do \notin Naps, Doing(th, do)
  PROVE  Calling(stack[th]) /\ Call(Top(th)) /\ Calling(Tail(stack[th]))
<1>1. stack[th] # <<>> /\ Head(stack[th]).do \notin Naps BY DEF Doing, Idle, Top
<1>2. Calling(stack[th]) BY <1>1, NapFacts DEF SInv
<1> QED BY <1>1, <1>2, CallFacts DEF Top

(* What a thread in a sleep is in.                                         *)
LEMMA NapOnTop ==
  ASSUME SInv, NEW th \in Threads, NEW do \in Naps, Doing(th, do)
  PROVE  Top(th).tok \in Tokens /\ Tail(stack[th]) = <<>> /\ stack[th] # <<>>
<1>1. stack[th] # <<>> /\ Head(stack[th]).do \in Naps BY DEF Doing, Idle, Top
<1>2. Napping(stack[th]) BY <1>1, CallFacts DEF SInv
<1> QED BY <1>1, <1>2, NapFacts DEF Top

LEMMA AsleepSame ==
  ASSUME NEW x, stack'[x] = stack[x] PROVE \A t : Asleep(x, t)' <=> Asleep(x, t)
BY DEF Asleep, Doing, Idle, Top

LEMMA CallingIsAwake ==
  ASSUME NEW x, Calling(stack[x]) PROVE \A t : ~Asleep(x, t)
BY CallFacts DEF Asleep, Doing, Idle, Top, Naps

(* One thread goes on with calls, the others stay where they are.          *)
LEMMA CallsGoOn ==
  ASSUME SInv, NEW th \in Threads, NEW s, Calling(s), stack' = [stack EXCEPT ![th] = s],
         cancelled' = cancelled, deadline' = deadline, baked' = baked
  PROVE  SInv'
<1>1. stack'[th] = s /\ \A x \in Threads \ {th} : stack'[x] = stack[x] BY DEF SInv
<1>2. \A t : ~Asleep(th, t)'
  <2>1. s = <<>> \/ Head(s).do \notin Naps BY CallFacts
  <2> QED BY <1>1, <2>1 DEF Asleep, Doing, Idle, Top, Naps
<1>3. NoStaleSleep' BY <1>1, <1>2, AsleepSame DEF SInv, NoStaleSleep
<1> QED BY <1>1, <1>3 DEF SInv

LEMMA Continues ==
  ASSUME SInv, NEW th \in Threads, NEW frames, Continue(th, frames)
  PROVE  stack' = [stack EXCEPT ![th] = frames \o Tail(stack[th])]
BY DEF Continue, SInv

(* One call in place of the newest, or none.                               *)
LEMMA OneCall ==
  ASSUME SInv, NEW th \in Threads, NEW do, do \notin Naps, Doing(th, do),
         NEW f, Call(f), Continue(th, <<f>>),
         cancelled' = cancelled, deadline' = deadline, baked' = baked
  PROVE  SInv'
BY CallOnTop, Continues, OneMoreCall, CallsGoOn

LEMMA NoCall ==
  ASSUME SInv, NEW th \in Threads, NEW do, do \notin Naps, Doing(th, do), Return(th),
         cancelled' = cancelled, deadline' = deadline, baked' = baked
  PROVE  SInv'
<1>1. Calling(Tail(stack[th])) BY CallOnTop
<1>2. <<>> \o Tail(stack[th]) = Tail(stack[th])
  <2>1. PICK F : Tail(stack[th]) \in Seq(F) BY <1>1 DEF Calling
  <2> QED BY <2>1, ConcatEmptySeq
<1>3. stack' = [stack EXCEPT ![th] = Tail(stack[th])] BY <1>2, Continues DEF Return
<1> QED BY <1>1, <1>3, CallsGoOn

LEMMA MoreCalls ==
  ASSUME NEW s, Calling(s), NEW f, NEW g, NEW h, Call(f), Call(g), Call(h)
  PROVE  Calling(<<f, g>> \o s) /\ Calling(<<f, g, h>> \o s)
<1>1. PICK F : s \in Seq(F) /\ \A x \in F : Call(x) BY DEF Calling
<1> DEFINE G == F \cup {f, g, h}
<1>2. s \in Seq(G) /\ <<f, g>> \in Seq(G) /\ <<f, g, h>> \in Seq(G)
  <2>1. Len(s) \in Nat /\ s \in [1..Len(s) -> F] BY <1>1, LenProperties
  <2>2. s \in [1..Len(s) -> G] BY <2>1
  <2> QED BY <2>1, <2>2
<1>3. <<f, g>> \o s \in Seq(G) /\ <<f, g, h>> \o s \in Seq(G) BY <1>2, ConcatProperties
<1>4. \A x \in G : Call(x) BY <1>1
<1> HIDE DEF G
<1> QED BY <1>3, <1>4 DEF Calling

LEMMA ChangedCall ==
  ASSUME NEW f, Call(f), NEW m, NEW k
  PROVE  /\ Call([f EXCEPT !.more = m]) /\ Call([f EXCEPT !.kids = k])
         /\ Call([f EXCEPT !.more = m, !.kids = k])
         /\ Call([f EXCEPT !.do = "cascade"]) /\ Call([f EXCEPT !.do = "retain"])
<1> DEFINE Rec(x, y) == [do : {f.do}, tok : {f.tok}, of : {f.of}, more : {x}, kids : {y}]
<1>1. f \in Rec(f.more, f.kids) /\ f.do \notin Naps BY DEF Call
<1>2. \A x, y : \A g \in Rec(x, y) : Call(g) BY <1>1 DEF Call
<1>3. [f EXCEPT !.more = m] \in Rec(m, f.kids) BY <1>1
<1>4. [f EXCEPT !.kids = k] \in Rec(f.more, k) BY <1>1
<1>5. [f EXCEPT !.more = m, !.kids = k] \in Rec(m, k) BY <1>1
<1>6. ASSUME NEW d \in {"cascade", "retain"} PROVE Call([f EXCEPT !.do = d])
  <2>1. [f EXCEPT !.do = d] \in [do : {d}, tok : {f.tok}, of : {f.of},
                                 more : {f.more}, kids : {f.kids}]
    BY <1>1
  <2>2. d \notin Naps BY DEF Naps
  <2> QED BY <2>1, <2>2 DEF Call
<1> HIDE DEF Rec
<1> QED BY <1>2, <1>3, <1>4, <1>5, <1>6

-----------------------------------------------------------------------------
(* The steps of the calls, other than the flag of a request.               *)
LEMMA StepsOfCalls ==
  ASSUME SInv, NEW th \in Threads,
         \/ Link(th) \/ Retain(th) \/ Scan(th) \/ ScanEnd(th) \/ Cascade(th)
         \/ Release(th) \/ Detach(th) \/ Destroy(th)
  PROVE  SInv'
<1>1. PICK do : do \notin Naps /\ Doing(th, do)
  BY DEF Link, Retain, Scan, ScanEnd, Cascade, Release, Detach, Destroy, Naps
<1>2. Call(Top(th)) /\ Calling(Tail(stack[th])) BY <1>1, CallOnTop
<1>3. cancelled' = cancelled /\ deadline' = deadline /\ baked' = baked
  BY DEF Link, Retain, Scan, ScanEnd, Cascade, Release, Detach, Destroy
<1>4. \A t : \A d \in {"request", "retain", "release", "detach", "free"} : Call(Frame(d, t))
  BY FrameFacts DEF Naps
<1>5. ASSUME NEW m, NEW k
      PROVE  /\ Call([Top(th) EXCEPT !.more = m]) /\ Call([Top(th) EXCEPT !.kids = k])
             /\ Call([Top(th) EXCEPT !.more = m, !.kids = k])
             /\ Call([Top(th) EXCEPT !.do = "cascade"])
             /\ Call([Top(th) EXCEPT !.do = "retain"])
  BY <1>2, ChangedCall
<1>6. CASE Link(th)
  <2>1. PICK f : Call(f) /\ Continue(th, <<f>>) BY <1>4, <1>5, <1>6 DEF Link
  <2> QED BY <1>1, <1>3, <2>1, OneCall
<1>7. CASE Retain(th) \/ Destroy(th)
  <2>1. Return(th) BY <1>7 DEF Retain, Destroy
  <2> QED BY <1>1, <1>3, <2>1, NoCall
<1>8. CASE Scan(th)
  <2>1. PICK f : Call(f) /\ Continue(th, <<f>>)
    <3>1. PICK c \in Top(th).more :
            \/ Continue(th, <<[Top(th) EXCEPT !.more = @ \ {c}]>>)
            \/ Continue(th, <<[Top(th) EXCEPT !.more = @ \ {c}, !.kids = @ \cup {c}]>>)
      BY <1>8 DEF Scan
    <3> QED BY <1>5, <3>1
  <2> QED BY <1>1, <1>3, <2>1, OneCall
<1>9. CASE ScanEnd(th)
  <2>1. Continue(th, <<[Top(th) EXCEPT !.do = "cascade"]>>) BY <1>9 DEF ScanEnd
  <2> QED BY <1>1, <1>3, <1>5, <2>1, OneCall
<1>10. CASE Cascade(th)
  <2>1. CASE Return(th) BY <1>1, <1>3, <2>1, NoCall
  <2>2. ASSUME NEW c, Continue(th, <<Frame("request", c), Frame("release", c),
                                     [Top(th) EXCEPT !.kids = @ \ {c}]>>)
        PROVE  SInv'
    <3> DEFINE s == <<Frame("request", c), Frame("release", c), [Top(th) EXCEPT !.kids = @ \ {c}]>>
                      \o Tail(stack[th])
    <3>1. Call(Frame("request", c)) /\ Call(Frame("release", c)) BY <1>4
    <3>2. Calling(s) BY <1>2, <1>5, <3>1, MoreCalls
    <3>3. stack' = [stack EXCEPT ![th] = s] BY <2>2, Continues
    <3> HIDE DEF s
    <3> QED BY <1>3, <3>2, <3>3, CallsGoOn
  <2> QED BY <1>10, <2>1, <2>2 DEF Cascade
<1>11. CASE Release(th)
  <2>1. CASE Return(th) BY <1>1, <1>3, <2>1, NoCall
  <2>2. ASSUME NEW d \in {"free", "detach"}, NEW t, Continue(th, <<Frame(d, t)>>) PROVE SInv'
    BY <1>1, <1>3, <1>4, <2>2, OneCall
  <2> QED BY <1>11, <2>1, <2>2 DEF Release
<1>12. CASE Detach(th)
  <2> DEFINE f == Frame("release", parent[Top(th).tok])
             g == Frame("free", Top(th).tok)
  <2>1. Continue(th, <<f, g>>) BY <1>12 DEF Detach
  <2>2. Call(f) /\ Call(g) BY <1>4
  <2>3. stack' = [stack EXCEPT ![th] = <<f, g>> \o Tail(stack[th])] BY <2>1, Continues
  <2> HIDE DEF f, g
  <2>4. Calling(<<f, g>> \o Tail(stack[th])) BY <1>2, <2>2, MoreCalls
  <2> QED BY <1>3, <2>3, <2>4, CallsGoOn
<1> QED BY <1>6, <1>7, <1>8, <1>9, <1>10, <1>11, <1>12

(* A broadcast puts each sleeper of t before its next look, and leaves the *)
(* other threads alone.                                                    *)
LEMMA BroadcastFacts ==
  ASSUME SInv, NEW t, NEW b, b = Broadcast(t)
  PROVE  /\ DOMAIN b = Threads
         /\ \A x \in Threads : /\ Calling(b[x]) \/ Napping(b[x])
                               /\ ~Asleep(x, t) => b[x] = stack[x]
                               /\ Asleep(x, t) => b[x] = <<Frame("sleep", t)>>
<1>1. b = [x \in Threads |-> IF Asleep(x, t) THEN <<Frame("sleep", t)>> \o Tail(stack[x])
                             ELSE stack[x]]
  BY DEF Broadcast
<1> SUFFICES ASSUME NEW x \in Threads
             PROVE  /\ Calling(b[x]) \/ Napping(b[x])
                    /\ ~Asleep(x, t) => b[x] = stack[x]
                    /\ Asleep(x, t) => b[x] = <<Frame("sleep", t)>>
  BY <1>1
<1>2. ASSUME Asleep(x, t) PROVE b[x] = <<Frame("sleep", t)>> /\ t \in Tokens
  <2>1. Top(x).tok \in Tokens /\ Tail(stack[x]) = <<>> BY <1>2, NapOnTop DEF Asleep, Naps
  <2>2. <<Frame("sleep", t)>> \o <<>> = <<Frame("sleep", t)>> OBVIOUS
  <2> QED BY <1>1, <1>2, <2>1, <2>2 DEF Asleep
<1>3. ~Asleep(x, t) => b[x] = stack[x] BY <1>1
<1> QED BY <1>2, <1>3 DEF SInv, Napping, Naps

(* Nobody sleeps on t after the broadcast, and who sleeps on another token *)
(* slept on it before.                                                     *)
LEMMA NoneLeftAsleep ==
  ASSUME SInv, NEW t, NEW x \in Threads, stack'[x] = Broadcast(t)[x]
  PROVE  \A u : Asleep(x, u)' => u # t /\ Asleep(x, u)
<1> DEFINE b == Broadcast(t)
<1>1. /\ ~Asleep(x, t) => b[x] = stack[x]
      /\ Asleep(x, t) => b[x] = <<Frame("sleep", t)>>
  BY BroadcastFacts
<1>2. stack'[x] = b[x] OBVIOUS
<1> HIDE DEF b
<1>3. CASE Asleep(x, t)
  <2>1. Head(stack'[x]) = Frame("sleep", t) BY <1>1, <1>2, <1>3
  <2> QED BY <2>1, FrameFacts DEF Asleep, Doing, Top
<1>4. CASE ~Asleep(x, t) BY <1>1, <1>2, <1>4, AsleepSame
<1> QED BY <1>3, <1>4

-----------------------------------------------------------------------------
(* The flag of a request: its sleepers wake, and the call scans.           *)
LEMMA RequestStep == ASSUME SInv, NEW th \in Threads, Request(th) PROVE SInv'
<1> DEFINE t == Top(th).tok
           f == [Top(th) EXCEPT !.do = "scan", !.more = Children(t)]
           b == Broadcast(t)
<1>1. Doing(th, "request") /\ "request" \notin Naps BY DEF Request, Naps
<1>2. Call(Top(th)) /\ Calling(Tail(stack[th])) /\ Calling(stack[th]) BY <1>1, CallOnTop
<1>3. Call(f)
  <2>1. f \in [do : {"scan"}, tok : {Top(th).tok}, of : {Top(th).of}, more : {Children(t)},
               kids : {Top(th).kids}]
    BY <1>2 DEF Call
  <2>2. "scan" \notin Naps BY DEF Naps
  <2> HIDE DEF f
  <2> QED BY <2>1, <2>2 DEF Call
<1>4. ~Asleep(th, t) BY <1>2, CallingIsAwake
<1>5. /\ stack' = [b EXCEPT ![th] = <<f>> \o Tail(@)]
      /\ cancelled' = [cancelled EXCEPT ![t] = TRUE] /\ deadline' = deadline /\ baked' = baked
  BY DEF Request
<1> HIDE DEF t, f, b
<1>6. /\ DOMAIN b = Threads /\ b[th] = stack[th]
      /\ \A x \in Threads : Calling(b[x]) \/ Napping(b[x])
  BY <1>4, BroadcastFacts DEF b
<1>7. /\ stack'[th] = <<f>> \o Tail(stack[th]) /\ DOMAIN stack' = Threads
      /\ \A x \in Threads \ {th} : stack'[x] = b[x]
  BY <1>5, <1>6
<1>8. Calling(stack'[th]) BY <1>2, <1>3, <1>7, OneMoreCall
<1>9. \A u : ~Asleep(th, u)'
  BY <1>8, CallFacts DEF Asleep, Doing, Idle, Top, Naps
<1>10. \A x \in Threads : \A u : Asleep(x, u)' => u # t /\ Asleep(x, u)
  <2> TAKE x \in Threads
  <2>1. CASE x = th BY <1>9, <2>1
  <2>2. CASE x # th BY <1>7, <2>2, NoneLeftAsleep DEF b
  <2> QED BY <2>1, <2>2
<1>11. cancelled' \in [Tokens -> BOOLEAN]
       /\ \A u \in Tokens : u # t => cancelled'[u] = cancelled[u]
  BY <1>5 DEF SInv
<1>12. NoStaleSleep' BY <1>5, <1>10, <1>11 DEF SInv, NoStaleSleep
<1> QED BY <1>5, <1>6, <1>7, <1>8, <1>11, <1>12 DEF SInv

(* A new deadline wakes the sleepers too.                                  *)
LEMMA DeadlineStep ==
  ASSUME SInv, NEW th \in Threads, NEW t \in Tokens, SetDeadline(th, t) PROVE SInv'
<1> DEFINE b == Broadcast(t)
<1>1. /\ stack' = b /\ cancelled' = cancelled /\ baked' = baked
      /\ deadline' = [deadline EXCEPT ![t] = 1 - @]
  BY DEF SetDeadline
<1>2. /\ DOMAIN b = Threads
      /\ \A x \in Threads : Calling(b[x]) \/ Napping(b[x])
  BY BroadcastFacts
<1>3. \A x \in Threads : \A u : Asleep(x, u)' => u # t /\ Asleep(x, u)
  BY <1>1, NoneLeftAsleep
<1> HIDE DEF b
<1>4. deadline' \in [Tokens -> {0, 1}]
      /\ \A u \in Tokens : u # t => deadline'[u] = deadline[u]
  BY <1>1 DEF SInv
<1>5. NoStaleSleep' BY <1>1, <1>3, <1>4 DEF SInv, NoStaleSleep
<1> QED BY <1>1, <1>2, <1>4, <1>5 DEF SInv

(* One thread sleeps, looks again, or starts a sleep.                      *)
LEMMA NapGoesOn ==
  ASSUME SInv, NEW th \in Threads, NEW do \in Naps, NEW t \in Tokens,
         stack' = [stack EXCEPT ![th] = <<Frame(do, t)>>],
         cancelled' = cancelled, deadline' = deadline, baked' \in [Threads -> {0, 1}],
         \A x \in Threads \ {th} : baked'[x] = baked[x],
         do = "asleep" => ~cancelled[t] /\ baked'[th] = deadline[t]
  PROVE  SInv'
<1>1. stack'[th] = <<Frame(do, t)>> /\ \A x \in Threads \ {th} : stack'[x] = stack[x] BY DEF SInv
<1>2. Head(stack'[th]) = Frame(do, t) BY <1>1
<1>3. \A u : Asleep(th, u)' => do = "asleep" /\ u = t
  BY <1>2, FrameFacts DEF Asleep, Doing, Top
<1>4. NoStaleSleep' BY <1>1, <1>3, AsleepSame DEF SInv, NoStaleSleep
<1> QED BY <1>1, <1>4 DEF SInv, Napping

LEMMA StepInv == ASSUME SInv, Next PROVE SInv'
<1>1. ASSUME NEW th \in Threads, NEW t \in Tokens, New(th, t) PROVE SInv'
  BY <1>1 DEF New, SInv, NoStaleSleep, Asleep, Doing, Idle, Top
<1>2. ASSUME NEW th \in Threads, NEW t \in Tokens, SetDeadline(th, t) PROVE SInv'
  BY <1>2, DeadlineStep
<1>3. ASSUME NEW th \in Threads, NEW c \in Tokens, NEW p \in Tokens, ChildOf(th, c, p) PROVE SInv'
  <2> DEFINE f == [Frame("link", c) EXCEPT !.of = p]
  <2>1. Call(f)
    <3>1. f \in [do : {"link"}, tok : {c}, of : {p}, more : {{}}, kids : {{}}] BY DEF Frame
    <3>2. "link" \notin Naps BY DEF Naps
    <3> HIDE DEF f
    <3> QED BY <3>1, <3>2 DEF Call
  <2>2. stack' = [stack EXCEPT ![th] = <<f>>] BY <1>3 DEF ChildOf
  <2>3. cancelled' = cancelled /\ deadline' = deadline /\ baked' = baked BY <1>3 DEF ChildOf
  <2> HIDE DEF f
  <2>4. Calling(<<f>>)
    <3>1. <<f>> \o <<>> = <<f>> OBVIOUS
    <3> QED BY <2>1, <3>1, NoCalls, OneMoreCall
  <2> QED BY <2>2, <2>3, <2>4, CallsGoOn
<1>4. ASSUME NEW th, NEW other, NEW t, Share(th, other, t) PROVE SInv'
  BY <1>4 DEF Share, SInv, NoStaleSleep, Asleep, Doing, Idle, Top
<1>5. ASSUME NEW th \in Threads, NEW do \in {"request", "release", "sleep"}, NEW t \in Tokens,
             Invoke(th, do, t)
      PROVE  SInv'
  <2>1. /\ stack' = [stack EXCEPT ![th] = <<Frame(do, t)>>]
        /\ cancelled' = cancelled /\ deadline' = deadline /\ baked' = baked
    BY <1>5 DEF Invoke
  <2>2. CASE do = "sleep"
    <3>1. do \in Naps /\ do # "asleep" /\ baked' \in [Threads -> {0, 1}] BY <2>1, <2>2 DEF Naps, SInv
    <3> QED BY <2>1, <3>1, NapGoesOn
  <2>3. CASE do # "sleep"
    <3>1. Call(Frame(do, t)) BY <2>3, FrameFacts DEF Naps
    <3>2. <<Frame(do, t)>> \o <<>> = <<Frame(do, t)>> OBVIOUS
    <3>3. Calling(<<Frame(do, t)>>) BY <3>1, <3>2, NoCalls, OneMoreCall
    <3> QED BY <2>1, <3>3, CallsGoOn
  <2> QED BY <2>2, <2>3
<1>6. ASSUME NEW th \in Threads, SleepEnd(th) PROVE SInv'
  <2>1. Doing(th, "sleep") /\ Return(th) BY <1>6 DEF SleepEnd
  <2>2. Tail(stack[th]) = <<>> BY <2>1, NapOnTop DEF Naps
  <2>3. <<>> \o <<>> = <<>> OBVIOUS
  <2>4. stack' = [stack EXCEPT ![th] = <<>>] BY <2>1, <2>2, <2>3, Continues DEF Return
  <2>5. cancelled' = cancelled /\ deadline' = deadline /\ baked' = baked BY <1>6 DEF SleepEnd
  <2> QED BY <2>4, <2>5, NoCalls, CallsGoOn
<1>7. ASSUME NEW th \in Threads, Sleep(th) PROVE SInv'
  <2> DEFINE t == Top(th).tok
  <2>1. /\ Doing(th, "sleep") /\ Continue(th, <<Frame("asleep", t)>>) /\ ~cancelled[t]
        /\ baked' = [baked EXCEPT ![th] = deadline[t]]
        /\ cancelled' = cancelled /\ deadline' = deadline
    BY <1>7 DEF Sleep
  <2>2. Tail(stack[th]) = <<>> /\ t \in Tokens BY <2>1, NapOnTop DEF Naps
  <2>3. <<Frame("asleep", t)>> \o <<>> = <<Frame("asleep", t)>> OBVIOUS
  <2>4. stack' = [stack EXCEPT ![th] = <<Frame("asleep", t)>>] BY <2>1, <2>2, <2>3, Continues
  <2> HIDE DEF t
  <2>5. /\ baked' \in [Threads -> {0, 1}] /\ baked'[th] = deadline[t]
        /\ \A x \in Threads \ {th} : baked'[x] = baked[x]
    BY <2>1, <2>2 DEF SInv
  <2>6. "asleep" \in Naps BY DEF Naps
  <2> QED BY <2>1, <2>2, <2>4, <2>5, <2>6, NapGoesOn
<1>8. ASSUME NEW th \in Threads, WakeUp(th) PROVE SInv'
  <2> DEFINE t == Top(th).tok
  <2>1. /\ Doing(th, "asleep") /\ Continue(th, <<Frame("sleep", t)>>)
        /\ cancelled' = cancelled /\ deadline' = deadline /\ baked' = baked
    BY <1>8 DEF WakeUp
  <2>2. Tail(stack[th]) = <<>> /\ t \in Tokens BY <2>1, NapOnTop DEF Naps
  <2>3. <<Frame("sleep", t)>> \o <<>> = <<Frame("sleep", t)>> OBVIOUS
  <2>4. stack' = [stack EXCEPT ![th] = <<Frame("sleep", t)>>] BY <2>1, <2>2, <2>3, Continues
  <2>5. "sleep" \in Naps /\ baked' \in [Threads -> {0, 1}] BY <2>1 DEF Naps, SInv
  <2> QED BY <2>1, <2>2, <2>4, <2>5, NapGoesOn
<1>9. ASSUME NEW th \in Threads, Client(th) \/ Step(th) \/ WakeUp(th) PROVE SInv'
  BY <1>1, <1>2, <1>3, <1>4, <1>5, <1>6, <1>7, <1>8, <1>9, RequestStep, StepsOfCalls
     DEF Client, Step
<1> QED BY <1>9 DEF Next

(* Nobody sleeps on a cancelled token or on a deadline that was replaced,  *)
(* whatever the trees, the threads and the order of their calls.           *)
THEOREM NoStaleSleepHolds == Spec => []NoStaleSleep
<1>1. Init => SInv
  BY NoCalls DEF Init, SInv, NoStaleSleep, Asleep, Doing, Idle
<1>2. SInv /\ [Next]_vars => SInv'
  <2>1. CASE Next BY <2>1, StepInv
  <2>2. CASE UNCHANGED vars
    BY <2>2 DEF vars, SInv, NoStaleSleep, Asleep, Doing, Idle, Top
  <2> QED BY <2>1, <2>2
<1>3. SInv => NoStaleSleep BY DEF SInv
<1> QED BY <1>1, <1>2, <1>3, PTL DEF Spec

=============================================================================
