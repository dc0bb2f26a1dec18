------------------------- MODULE CancelRefs_proofs -------------------------
(***************************************************************************)
(* Proofs about CancelTree, for any tokens and threads: types (no count    *)
(* ever drops below 0), FreedWhenUnused, CascadeReachesAll; that the       *)
(* tokens implement TokenTree; and that links form no cycle.               *)
(*                                                                         *)
(* All of them rest on what a count counts (Balanced).  That says who      *)
(* keeps a token alive: a call of the program has a handle, a cascade has  *)
(* the reference its release is to give back, a link the handles of its    *)
(* caller (Nested, Private), a scan the mutex of the parent (Snapped,      *)
(* Held); and a token whose count is 0 is destroyed by one call (Ends,     *)
(* Alive).  RequestIsComplete needs what a cascade has done so far         *)
(* (Reaches), NoneEscapes which calls have a child still to do (Covered),  *)
(* and TokenTree where a cancellation comes from (FromAbove).              *)
(***************************************************************************)
EXTENDS CancelTree, SequenceTheorems, FiniteSetTheorems, TLAPS

FrameType == [do : Labels, tok : Tokens, of : Tokens \cup {None},
              more : SUBSET Tokens, kids : SUBSET Tokens]

Shapes ==
  /\ memory \in [Tokens -> {"unborn", "live", "freed"}]
  /\ refcount \in [Tokens -> Int]
  /\ cancelled \in [Tokens -> BOOLEAN]
  /\ deadline \in [Tokens -> {0, 1}]
  /\ parent \in [Tokens -> Tokens \cup {None}]
  /\ held \in [Threads -> SUBSET Tokens]
  /\ stack \in [Threads -> Seq(FrameType)]
  /\ baked \in [Threads -> {0, 1}]
  /\ mu \in [Tokens -> Threads \cup {None}]

(* The calls of a thread by depth: its first one is at 1.                  *)
Depths(th) == 1..Len(stack[th])
Call(th, d) == stack[th][Len(stack[th]) + 1 - d]
Is(th, d, ops, t) == d \in Depths(th) /\ Call(th, d).do \in ops /\ Call(th, d).tok = t

(* The references to a token: handles, linked children (once the link has  *)
(* taken its reference), releases that are due, and snapshots.             *)
Handles(t) == {th \in Threads : t \in held[th]}
Linking(c) == \E th \in Threads : Is(th, 1, {"retain"}, c)
Linked(t) == {c \in Tokens : parent[c] = t /\ ~Linking(c)}
Releases(t) == {p \in Threads \X Nat : Is(p[1], p[2], {"release"}, t)}
Kept(th, d, t) == d \in Depths(th) /\ t \in Call(th, d).kids
Snapshots(t) == {p \in Threads \X Nat : Kept(p[1], p[2], t)}

BalancedAt(t) ==
  /\ IsFiniteSet(Handles(t)) /\ IsFiniteSet(Linked(t))
  /\ IsFiniteSet(Releases(t)) /\ IsFiniteSet(Snapshots(t))
  /\ refcount[t] = Cardinality(Handles(t)) + Cardinality(Linked(t))
                   + Cardinality(Releases(t)) + Cardinality(Snapshots(t))
Balanced == \A t \in Tokens : BalancedAt(t)

(* What calls what: a link, a retain or a sleep is a call of the program;  *)
(* a request is one, or its release is due, right below it.                *)
Cascades == {"request", "scan", "cascade"}
NestedAt(th, d) ==
  LET f == Call(th, d) IN
    /\ f.do \in {"link", "retain", "sleep", "asleep"} =>
         Len(stack[th]) = 1 /\ f.tok \in held[th]
    /\ f.do \in {"link", "retain"} => f.of \in held[th]
    /\ f.do \in Cascades =>
         \/ d = 1 /\ f.tok \in held[th]
         \/ d > 1 /\ Is(th, d - 1, {"release"}, f.tok)
    /\ f.do = "release" /\ d < Len(stack[th]) => Is(th, d + 1, Cascades, f.tok)
    /\ f.do = "scan" => d = Len(stack[th])
Nested == \A th \in Threads : \A d \in Depths(th) : NestedAt(th, d)

SnappedAt(th, d) ==
  LET f == Call(th, d) IN
    /\ f.do \notin {"link", "retain"} => f.of = None
    /\ f.do # "scan" => f.more = {}
    /\ f.do \notin {"scan", "cascade"} => f.kids = {}
    /\ f.more \cap f.kids = {}
    /\ f.more \subseteq Children(f.tok)
Snapped == \A th \in Threads : \A d \in Depths(th) : SnappedAt(th, d)

Held ==
  \A t \in Tokens, th \in Threads :
    mu[t] = th <=> \E d \in Depths(th) : Is(th, d, {"scan"}, t)

(* A link is of a token nobody else has seen.                              *)
PrivateAt(th, d) ==
  LET f == Call(th, d) IN
    f.do \in {"link", "retain"} =>
      /\ parent[f.tok] = IF f.do = "link" THEN None ELSE f.of
      /\ \A x \in Threads \ {th} : f.tok \notin held[x]
Private == \A th \in Threads : \A d \in Depths(th) : PrivateAt(th, d)

(* A token that is being destroyed is destroyed once.                      *)
Ending == {"detach", "free"}
EndsAt(th, d) ==
  LET f == Call(th, d) IN
    f.do \in Ending =>
      /\ refcount[f.tok] = 0
      /\ f.do = "free" <=> parent[f.tok] = None
      /\ \A x \in Threads : \A e \in Depths(x) : Is(x, e, Ending, f.tok) => x = th /\ e = d
Ends == \A th \in Threads : \A d \in Depths(th) : EndsAt(th, d)

IsEnding(t) == \E th \in Threads : \E d \in Depths(th) : Is(th, d, Ending, t)
AliveAt(t) == /\ memory[t] = "live" <=> refcount[t] > 0 \/ IsEnding(t)
              /\ parent[t] # None => memory[t] = "live"
Alive == \A t \in Tokens : AliveAt(t)

Complete(t) == \A d \in Below(t) : refcount[d] > 0 => cancelled[d]

(* What a cascade has done: a child is in the snapshot, or worked on, or   *)
(* has its tree cancelled.                                                 *)
ReachesAt(th, d) ==
  LET f == Call(th, d) IN
    f.do \in {"scan", "cascade"} =>
      /\ cancelled[f.tok]
      /\ \A c \in Children(f.tok) :
           \/ c \in f.more \cup f.kids
           \/ d + 2 \in Depths(th) /\ Is(th, d + 1, {"release"}, c)
           \/ Complete(c)
Reaches == \A th \in Threads : \A d \in Depths(th) : ReachesAt(th, d)

(* NoneEscapes, by depth.                                                  *)
On(th, d, c) == \/ Is(th, d, {"request"}, c)
                \/ d \in Depths(th) /\ c \in Call(th, d).more \cup Call(th, d).kids
Endangered(c) == parent[c] # None /\ cancelled[parent[c]] /\ refcount[c] > 0 /\ ~cancelled[c]
Covered == \A c \in Tokens : Endangered(c) => \E th \in Threads : \E d \in Depths(th) : On(th, d, c)

IInv == /\ Shapes /\ Nested /\ Snapped /\ Held /\ Private /\ Balanced /\ Ends /\ Alive
        /\ Covered /\ Reaches

-----------------------------------------------------------------------------
(* Stacks.  A thread that is not the one that acts keeps its calls, but    *)
(* for a sleep that is woken.                                              *)
Same(x) ==
  /\ Len(stack'[x]) = Len(stack[x])
  /\ \A d \in Depths(x) :
       \/ Call(x, d)' = Call(x, d)
       \/ Call(x, d).do = "asleep" /\ Call(x, d)' = Frame("sleep", Call(x, d).tok)

(* The one that acts has its calls up to low, and is then high deep.       *)
Turns(th, low, high) ==
  /\ \A x \in Threads \ {th} : Same(x)
  /\ Len(stack'[th]) = high
  /\ \A d \in 1..low : d \in Depths(th) /\ Call(th, d)' = Call(th, d)

LEMMA FrameTyped ==
  ASSUME NEW do \in Labels, NEW t \in Tokens
  PROVE  /\ Frame(do, t) \in FrameType
         /\ Frame(do, t).do = do /\ Frame(do, t).tok = t
         /\ Frame(do, t).more = {} /\ Frame(do, t).kids = {}
BY DEF Frame, FrameType

LEMMA CallTyped ==
  ASSUME Shapes, NEW th \in Threads, NEW d \in Depths(th)
  PROVE  Call(th, d) \in FrameType /\ Len(stack[th]) \in Nat /\ d \in Nat
<1>1. stack[th] \in Seq(FrameType) BY DEF Shapes
<1>2. Len(stack[th]) \in Nat BY <1>1
<1>3. Len(stack[th]) + 1 - d \in 1..Len(stack[th]) BY <1>2 DEF Depths
<1> QED BY <1>1, <1>2, <1>3, ElementOfSeq DEF Call, Depths

LEMMA TopTyped ==
  ASSUME Shapes, NEW th \in Threads, ~Idle(th), NEW n, n = Len(stack[th])
  PROVE  /\ n \in Nat \ {0} /\ n \in Depths(th) /\ Top(th) = Call(th, n)
         /\ Top(th) \in FrameType
         /\ \A d \in 1..(n - 1) : d \in Depths(th) /\ d < n
<1>1. stack[th] \in Seq(FrameType) /\ stack[th] # <<>> BY DEF Shapes, Idle
<1>2. n \in Nat \ {0} BY <1>1, EmptySeq
<1>3. Top(th) = stack[th][1] BY <1>1 DEF Top
<1>4. n \in Depths(th) BY <1>2 DEF Depths
<1> QED BY <1>2, <1>3, <1>4, CallTyped DEF Call, Depths

LEMMA OverTail ==
  ASSUME NEW S, NEW s \in Seq(S), s # <<>>, NEW fs \in Seq(S), NEW r, r = fs \o Tail(s)
  PROVE  /\ r \in Seq(S) /\ Len(r) = Len(fs) + Len(s) - 1
         /\ \A d \in 1..(Len(s) - 1) : r[Len(r) + 1 - d] = s[Len(s) + 1 - d]
         /\ \A i \in 1..Len(fs) : r[i] = fs[i]
<1>1. Len(s) \in Nat \ {0} /\ Len(fs) \in Nat BY EmptySeq, LenProperties
<1>2. /\ Tail(s) \in Seq(S) /\ Len(Tail(s)) = Len(s) - 1
      /\ \A i \in 1..Len(Tail(s)) : Tail(s)[i] = s[i + 1]
  BY HeadTailProperties
<1>3. /\ r \in Seq(S) /\ Len(r) = Len(fs) + Len(Tail(s))
      /\ \A i \in 1..Len(fs) + Len(Tail(s)) : r[i] = IF i <= Len(fs) THEN fs[i] ELSE Tail(s)[i - Len(fs)]
  BY <1>2, ConcatProperties
<1>4. Len(r) = Len(fs) + Len(s) - 1 BY <1>1, <1>2, <1>3
<1>5. ASSUME NEW d \in 1..(Len(s) - 1) PROVE r[Len(r) + 1 - d] = s[Len(s) + 1 - d]
  <2> DEFINE i == Len(r) + 1 - d
  <2>1. i \in 1..Len(fs) + Len(Tail(s)) /\ i > Len(fs) /\ i - Len(fs) = Len(s) - d
    BY <1>1, <1>2, <1>4
  <2>2. r[i] = Tail(s)[Len(s) - d] BY <1>1, <1>2, <1>3, <2>1
  <2>3. Len(s) - d \in 1..Len(Tail(s)) BY <1>1, <1>2
  <2> QED BY <1>1, <1>2, <2>2, <2>3
<1>6. \A i \in 1..Len(fs) : r[i] = fs[i] BY <1>1, <1>2, <1>3
<1> QED BY <1>3, <1>4, <1>5, <1>6

LEMMA Starts ==
  ASSUME Shapes, NEW th \in Threads, Idle(th), NEW f \in FrameType,
         stack' = [stack EXCEPT ![th] = <<f>>]
  PROVE  /\ Turns(th, 0, 1) /\ stack' \in [Threads -> Seq(FrameType)] /\ Call(th, 1)' = f
         /\ Len(stack[th]) = 0
<1>1. stack'[th] = <<f>> /\ <<f>> \in Seq(FrameType) /\ Len(<<f>>) = 1 /\ <<f>>[1] = f
  BY DEF Shapes
<1>2. \A x \in Threads \ {th} : stack'[x] = stack[x] BY DEF Shapes
<1>3. Call(th, 1)' = f BY <1>1 DEF Call
<1>4. Len(stack[th]) = 0 BY DEF Idle
<1> QED BY <1>1, <1>2, <1>3, <1>4 DEF Turns, Same, Call, Shapes

(* Only the thread that acts changes its stack; or sleeps end as well.     *)
LEMMA OthersSame ==
  ASSUME Shapes, NEW th \in Threads, NEW s, stack' = [stack EXCEPT ![th] = s]
  PROVE  (\A x \in Threads \ {th} : Same(x)) /\ stack'[th] = s
         /\ (s \in Seq(FrameType) => stack' \in [Threads -> Seq(FrameType)])
<1>1. stack'[th] = s /\ \A x \in Threads \ {th} : stack'[x] = stack[x] BY DEF Shapes
<1>2. \A x \in Threads \ {th} : Same(x) BY <1>1 DEF Same, Call
<1> QED BY <1>1, <1>2 DEF Shapes

LEMMA BroadcastFacts ==
  ASSUME Shapes, NEW t \in Tokens, NEW x \in Threads, stack'[x] = Broadcast(t)[x]
  PROVE  Same(x) /\ stack'[x] \in Seq(FrameType)
<1>1. CASE ~Asleep(x, t)
  <2>1. stack'[x] = stack[x] BY <1>1 DEF Broadcast
  <2> QED BY <2>1 DEF Same, Call, Shapes
<1>2. CASE Asleep(x, t)
  <2>1. ~Idle(x) /\ Top(x).do = "asleep" /\ Top(x).tok = t BY <1>2 DEF Asleep, Doing
  <2>2. stack[x] \in Seq(FrameType) /\ stack[x] # <<>> BY <2>1 DEF Shapes, Idle
  <2>3. Frame("sleep", t) \in FrameType BY FrameTyped DEF Labels
  <2>4. <<Frame("sleep", t)>> \in Seq(FrameType) /\ Len(<<Frame("sleep", t)>>) = 1
        /\ <<Frame("sleep", t)>>[1] = Frame("sleep", t)
    BY <2>3
  <2>5. stack'[x] = <<Frame("sleep", t)>> \o Tail(stack[x]) BY <1>2 DEF Broadcast
  <2>6. /\ stack'[x] \in Seq(FrameType)
        /\ Len(stack'[x]) = Len(<<Frame("sleep", t)>>) + Len(stack[x]) - 1
        /\ \A d \in 1..(Len(stack[x]) - 1) : stack'[x][Len(stack'[x]) + 1 - d] = stack[x][Len(stack[x]) + 1 - d]
        /\ \A i \in 1..Len(<<Frame("sleep", t)>>) : stack'[x][i] = <<Frame("sleep", t)>>[i]
    BY <2>2, <2>4, <2>5, OverTail
  <2>7. Len(stack[x]) \in Nat \ {0} BY <2>2, EmptySeq
  <2>8. Len(stack'[x]) = Len(stack[x]) BY <2>4, <2>6, <2>7
  <2>9. stack'[x][1] = Frame("sleep", t)
    <3>1. 1 \in 1..Len(<<Frame("sleep", t)>>) BY <2>4
    <3> QED BY <2>4, <2>6, <3>1
  <2>10. PICK n : n = Len(stack[x]) OBVIOUS
  <2>11. Call(x, n) = Top(x) BY <2>1, <2>10, TopTyped
  <2>12. Call(x, n)' = Frame("sleep", t) BY <2>7, <2>8, <2>9, <2>10 DEF Call
  <2>13. \A d \in 1..(n - 1) : Call(x, d)' = Call(x, d) BY <2>6, <2>10 DEF Call
  <2>14. \A d \in Depths(x) : d = n \/ d \in 1..(n - 1) BY <2>7, <2>10 DEF Depths
  <2> QED BY <2>1, <2>6, <2>8, <2>11, <2>12, <2>13, <2>14 DEF Same
<1> QED BY <1>1, <1>2

-----------------------------------------------------------------------------
(* A thread in no call starts one (low is 0) or stays idle; in a call, it  *)
(* replaces the newest.                                                    *)
Acts(th, low, high) ==
  /\ low \in Nat /\ high \in Nat /\ low <= high
  /\ (low = 0 /\ Len(stack[th]) = 0) \/ Len(stack[th]) = low + 1
  /\ Turns(th, low, high)
Keeps(th, low, x, d) == x \in Threads /\ d \in Depths(x) /\ (x # th \/ d <= low)

LEMMA KeptCall ==
  ASSUME Shapes, Snapped, NEW th \in Threads, NEW low, NEW high, Acts(th, low, high),
         NEW x, NEW d, Keeps(th, low, x, d)
  PROVE  /\ d \in Depths(x)'
         /\ Call(x, d)'.tok = Call(x, d).tok /\ Call(x, d)'.of = Call(x, d).of
         /\ Call(x, d)'.more = Call(x, d).more /\ Call(x, d)'.kids = Call(x, d).kids
         /\ \/ Call(x, d)'.do = Call(x, d).do
            \/ Call(x, d).do = "asleep" /\ Call(x, d)'.do = "sleep"
<1>1. x \in Threads /\ d \in Depths(x) BY DEF Keeps
<1>2. Len(stack[x]) \in Nat /\ d \in Nat /\ Call(x, d) \in FrameType BY <1>1, CallTyped
<1>3. CASE x # th
  <2>1. Len(stack'[x]) = Len(stack[x]) BY <1>1, <1>3 DEF Acts, Turns, Same
  <2>2. d \in Depths(x)' BY <1>1, <2>1 DEF Depths
  <2>3. CASE Call(x, d)' = Call(x, d) BY <2>2, <2>3
  <2>4. CASE Call(x, d).do = "asleep" /\ Call(x, d)' = Frame("sleep", Call(x, d).tok)
    <3>1. Call(x, d).of = None /\ Call(x, d).more = {} /\ Call(x, d).kids = {}
      BY <1>1, <2>4 DEF Snapped, SnappedAt
    <3> QED BY <2>2, <2>4, <3>1 DEF Frame
  <2> QED BY <1>1, <1>3, <2>3, <2>4 DEF Acts, Turns, Same
<1>4. CASE x = th
  <2>1. d \in 1..low BY <1>1, <1>2, <1>4 DEF Keeps, Depths, Acts
  <2>2. Call(x, d)' = Call(x, d) /\ Len(stack'[x]) = high BY <1>4, <2>1 DEF Acts, Turns
  <2>3. d \in Depths(x)' BY <2>1, <2>2 DEF Acts, Depths
  <2> QED BY <2>2, <2>3
<1> QED BY <1>3, <1>4

LEMMA KeptIs ==
  ASSUME Shapes, Snapped, NEW th \in Threads, NEW low, NEW high, Acts(th, low, high),
         NEW x, NEW d, Keeps(th, low, x, d), NEW ops, NEW t
  PROVE  /\ "asleep" \notin ops /\ "sleep" \notin ops => (Is(x, d, ops, t)' <=> Is(x, d, ops, t))
         /\ Kept(x, d, t)' <=> Kept(x, d, t)
         /\ On(x, d, t)' <=> On(x, d, t)
<1>1. x \in Threads /\ d \in Depths(x) BY DEF Keeps
<1>2. /\ d \in Depths(x)'
      /\ Call(x, d)'.tok = Call(x, d).tok
      /\ Call(x, d)'.more = Call(x, d).more /\ Call(x, d)'.kids = Call(x, d).kids
      /\ \/ Call(x, d)'.do = Call(x, d).do
         \/ Call(x, d).do = "asleep" /\ Call(x, d)'.do = "sleep"
  BY KeptCall
<1> QED BY <1>1, <1>2 DEF Is, Kept, On

LEMMA NewCall ==
  ASSUME Shapes, NEW th \in Threads, NEW low, NEW high, Acts(th, low, high),
         NEW x \in Threads, NEW d, d \in Depths(x)'
  PROVE  /\ d \in Nat \ {0}
         /\ Keeps(th, low, x, d) \/ (x = th /\ d \in (low + 1)..high)
<1>1. Len(stack[x]) \in Nat BY DEF Shapes
<1>2. CASE x # th
  <2>1. Len(stack'[x]) = Len(stack[x]) BY <1>2 DEF Acts, Turns, Same
  <2> QED BY <1>1, <1>2, <2>1 DEF Depths, Keeps
<1>3. CASE x = th
  <2>1. Len(stack'[x]) = high BY <1>3 DEF Acts, Turns
  <2>2. d \in 1..high BY <2>1 DEF Depths
  <2>3. d <= low => d \in Depths(x) BY <1>1, <1>3, <2>2 DEF Acts, Depths
  <2> QED BY <1>3, <2>2, <2>3 DEF Keeps, Acts
<1> QED BY <1>2, <1>3

LEMMA NewDepths ==
  ASSUME NEW th \in Threads, NEW low, NEW high, Acts(th, low, high), NEW d
  PROVE  /\ d \in Depths(th)' <=> d \in 1..high
         /\ d \in Depths(th) => d \in 1..(low + 1)
         /\ d \in Depths(th) /\ d > low => d = low + 1
<1> QED BY DEF Acts, Turns, Depths

LEMMA NestedTurn ==
  ASSUME Shapes, Nested, Snapped, NEW th \in Threads, NEW low, NEW high, Acts(th, low, high),
         \A x \in Threads : x # th \/ low > 0 => held[x] \subseteq held'[x],
         low > 0 /\ high > low =>
           \A t \in Tokens : Is(th, low + 1, Cascades, t) => Is(th, low + 1, Cascades, t)',
         \A d \in (low + 1)..high : NestedAt(th, d)'
  PROVE  Nested'
<1> SUFFICES ASSUME NEW x \in Threads, NEW d, d \in Depths(x)' PROVE NestedAt(x, d)'
  BY DEF Nested
<1>1. d \in Nat \ {0} /\ (Keeps(th, low, x, d) \/ (x = th /\ d \in (low + 1)..high)) BY NewCall
<1>2. CASE x = th /\ d \in (low + 1)..high BY <1>2
<1>3. CASE Keeps(th, low, x, d)
  <2>1. d \in Depths(x) /\ (x = th => d <= low /\ low > 0) BY <1>1, <1>3 DEF Keeps, Acts
  <2>2. PICK f \in FrameType : f = Call(x, d) BY <2>1, CallTyped
  <2>3. Len(stack[x]) \in Nat BY <2>1, CallTyped
  <2>4. NestedAt(x, d) BY <2>1 DEF Nested
  <2>5. PICK g : g = Call(x, d)' OBVIOUS
  <2>6. g.tok = f.tok /\ g.of = f.of /\ (g.do = f.do \/ (f.do = "asleep" /\ g.do = "sleep"))
    BY <1>3, <2>2, <2>5, KeptCall
  <2>7. held[x] \subseteq held'[x] BY <2>1
  <2>8. x # th => Len(stack'[x]) = Len(stack[x]) BY DEF Acts, Turns, Same
  <2>9. x = th => Len(stack[x]) = low + 1 /\ Len(stack'[x]) = high BY <2>1 DEF Acts, Turns
  <2>10. g.do \in {"link", "retain", "sleep", "asleep"} => Len(stack'[x]) = 1 /\ g.tok \in held'[x]
    <3>1. f.do \in {"link", "retain", "sleep", "asleep"} => Len(stack[x]) = 1 /\ f.tok \in held[x]
      BY <2>2, <2>4 DEF NestedAt
    <3>2. x = th => Len(stack[x]) # 1
      <4>1. low \in Nat BY DEF Acts
      <4>2. low > 0 => low + 1 # 1 BY <4>1
      <4> QED BY <2>1, <2>9, <4>2
    <3>3. g.do \in {"link", "retain", "sleep", "asleep"} => f.do \in {"link", "retain", "sleep", "asleep"}
      BY <2>6
    <3> QED BY <2>6, <2>7, <2>8, <3>1, <3>2, <3>3
  <2>11. g.do \in {"link", "retain"} => g.of \in held'[x]
    BY <2>2, <2>4, <2>6, <2>7 DEF NestedAt
  <2>12. g.do \in Cascades =>
           (d = 1 /\ g.tok \in held'[x]) \/ (d > 1 /\ Is(x, d - 1, {"release"}, g.tok)')
    <3>1. ASSUME d > 1, Is(x, d - 1, {"release"}, g.tok) PROVE Is(x, d - 1, {"release"}, g.tok)'
      <4>1. Keeps(th, low, x, d - 1) BY <1>1, <1>3, <3>1 DEF Keeps, Is, Acts
      <4> QED BY <3>1, <4>1, KeptIs
    <3>2. g.do \in Cascades => f.do \in Cascades BY <2>6 DEF Cascades
    <3>3. f.do \in Cascades =>
            (d = 1 /\ f.tok \in held[x]) \/ (d > 1 /\ Is(x, d - 1, {"release"}, f.tok))
      BY <2>2, <2>4 DEF NestedAt
    <3> QED BY <2>6, <2>7, <3>1, <3>2, <3>3
  <2>13. g.do = "release" /\ d < Len(stack'[x]) => Is(x, d + 1, Cascades, g.tok)'
    <3>1. SUFFICES ASSUME g.do = "release", d < Len(stack'[x]) PROVE Is(x, d + 1, Cascades, g.tok)'
      OBVIOUS
    <3>2. d < Len(stack[x]) BY <1>1, <2>1, <2>8, <2>9, <3>1 DEF Acts
    <3>3. Is(x, d + 1, Cascades, g.tok) BY <2>2, <2>4, <2>6, <3>1, <3>2 DEF NestedAt
    <3>4. CASE Keeps(th, low, x, d + 1)
      <4>1. "asleep" \notin Cascades /\ "sleep" \notin Cascades BY DEF Cascades
      <4> QED BY <3>3, <3>4, <4>1, KeptIs
    <3>5. CASE ~Keeps(th, low, x, d + 1)
      <4>1. d + 1 \in Depths(x) BY <3>3 DEF Is
      <4>2. x = th /\ d = low BY <1>1, <2>1, <3>5, <4>1 DEF Keeps, Acts
      <4>3. high > low BY <2>9, <3>1, <4>2
      <4>4. g.tok \in Tokens BY <2>2, <2>6 DEF FrameType
      <4> QED BY <2>1, <3>3, <4>2, <4>3, <4>4
    <3> QED BY <3>4, <3>5
  <2>14. g.do = "scan" => d = Len(stack'[x])
    <3>1. f.do = "scan" => d = Len(stack[x]) BY <2>2, <2>4 DEF NestedAt
    <3> QED BY <1>1, <2>1, <2>6, <2>8, <2>9, <3>1 DEF Acts
  <2> QED BY <2>5, <2>10, <2>11, <2>12, <2>13, <2>14 DEF NestedAt
<1> QED BY <1>1, <1>2, <1>3

LEMMA SnappedTurn ==
  ASSUME Shapes, Snapped, Held, NEW th \in Threads, NEW low, NEW high, Acts(th, low, high),
         \A c \in Tokens : \/ parent'[c] = parent[c] \/ parent[c] = None
                          \/ (parent[c] \in Tokens /\ mu[parent[c]] = None),
         \A d \in (low + 1)..high : SnappedAt(th, d)'
  PROVE  Snapped'
<1> SUFFICES ASSUME NEW x \in Threads, NEW d, d \in Depths(x)' PROVE SnappedAt(x, d)'
  BY DEF Snapped
<1>1. Keeps(th, low, x, d) \/ (x = th /\ d \in (low + 1)..high) BY NewCall
<1>2. CASE x = th /\ d \in (low + 1)..high BY <1>2
<1>3. CASE Keeps(th, low, x, d)
  <2>1. d \in Depths(x) BY <1>3 DEF Keeps
  <2>2. PICK f \in FrameType : f = Call(x, d) BY <2>1, CallTyped
  <2>3. SnappedAt(x, d) BY <2>1 DEF Snapped
  <2>4. PICK g : g = Call(x, d)' OBVIOUS
  <2>5. /\ g.tok = f.tok /\ g.of = f.of /\ g.more = f.more /\ g.kids = f.kids
        /\ g.do = f.do \/ (f.do = "asleep" /\ g.do = "sleep")
    BY <1>3, <2>2, <2>4, KeptCall
  <2>6. ASSUME NEW c \in f.more PROVE c \in Tokens /\ parent'[c] = f.tok
    <3>1. f.do = "scan" BY <2>2, <2>3 DEF SnappedAt
    <3>2. c \in Tokens /\ parent[c] = f.tok BY <2>2, <2>3 DEF SnappedAt, Children
    <3>3. f.tok \in Tokens BY <2>2 DEF FrameType
    <3>4. mu[f.tok] = x BY <2>1, <2>2, <3>1, <3>3 DEF Held, Is
    <3> QED BY <3>2, <3>3, <3>4, CancelTreeAssumption
  <2>7. g.more \subseteq Children(g.tok)' BY <2>5, <2>6 DEF Children
  <2>8. /\ g.do \notin {"link", "retain"} => g.of = None
        /\ g.do # "scan" => g.more = {}
        /\ g.do \notin {"scan", "cascade"} => g.kids = {}
        /\ g.more \cap g.kids = {}
    BY <2>2, <2>3, <2>5 DEF SnappedAt
  <2> QED BY <2>4, <2>7, <2>8 DEF SnappedAt
<1> QED BY <1>1, <1>2, <1>3

LEMMA HeldTurn ==
  ASSUME Shapes, Nested, Snapped, Held, NEW th \in Threads, NEW low, NEW high, Acts(th, low, high),
         \A t \in Tokens : \A x \in Threads \ {th} : mu'[t] = x <=> mu[t] = x,
         \A t \in Tokens : mu'[t] = th <=> \E d \in (low + 1)..high : Is(th, d, {"scan"}, t)'
  PROVE  Held'
<1> SUFFICES ASSUME NEW t \in Tokens, NEW x \in Threads
             PROVE  mu'[t] = x <=> \E d \in Depths(x)' : Is(x, d, {"scan"}, t)'
  BY DEF Held
<1>1. mu[t] = x <=> \E d \in Depths(x) : Is(x, d, {"scan"}, t) BY DEF Held
<1>2. CASE x # th
  <2>1. Depths(x)' = Depths(x) BY <1>2 DEF Acts, Turns, Same, Depths
  <2>2. ASSUME NEW d \in Depths(x) PROVE Is(x, d, {"scan"}, t)' <=> Is(x, d, {"scan"}, t)
    <3>1. Keeps(th, low, x, d) BY <1>2 DEF Keeps
    <3> QED BY <3>1, KeptIs
  <2> QED BY <1>1, <1>2, <2>1, <2>2
<1>3. CASE x = th
  <2>1. ASSUME NEW d \in Depths(th)', Is(th, d, {"scan"}, t)' PROVE d \in (low + 1)..high
    <3>1. d \in Nat \ {0} /\ (Keeps(th, low, th, d) \/ d \in (low + 1)..high) BY NewCall
    <3>2. CASE Keeps(th, low, th, d)
      <4>1. Is(th, d, {"scan"}, t) BY <2>1, <3>2, KeptIs
      <4>2. d \in Depths(th) /\ d <= low BY <3>2 DEF Keeps
      <4>3. d = Len(stack[th]) BY <4>1, <4>2 DEF Nested, NestedAt, Is
      <4> QED BY <3>1, <4>2, <4>3 DEF Acts
    <3> QED BY <3>1, <3>2
  <2>2. ASSUME NEW d \in (low + 1)..high PROVE d \in Depths(th)'
    <3>1. d \in 1..high BY DEF Acts
    <3> QED BY <3>1, NewDepths
  <2> QED BY <1>3, <2>1, <2>2
<1> QED BY <1>2, <1>3

LEMMA PrivateTurn ==
  ASSUME Shapes, Nested, Snapped, Private, NEW th \in Threads, NEW low, NEW high,
         Acts(th, low, high),
         \A x \in Threads \ {th} : \A t \in Tokens :
           Is(x, 1, {"link", "retain"}, t) =>
             /\ parent'[t] = parent[t]
             /\ \A y \in Threads \ {x} : t \notin held[y] => t \notin held'[y],
         \A d \in (low + 1)..high : PrivateAt(th, d)'
  PROVE  Private'
<1> SUFFICES ASSUME NEW x \in Threads, NEW d, d \in Depths(x)' PROVE PrivateAt(x, d)'
  BY DEF Private
<1>1. d \in Nat \ {0} /\ (Keeps(th, low, x, d) \/ (x = th /\ d \in (low + 1)..high)) BY NewCall
<1>2. CASE x = th /\ d \in (low + 1)..high BY <1>2
<1>3. CASE Keeps(th, low, x, d)
  <2>1. d \in Depths(x) /\ (x = th => d <= low /\ low > 0) BY <1>1, <1>3 DEF Keeps, Acts
  <2>2. PICK f \in FrameType : f = Call(x, d) BY <2>1, CallTyped
  <2>3. PICK g : g = Call(x, d)' OBVIOUS
  <2>4. /\ g.tok = f.tok /\ g.of = f.of
        /\ g.do = f.do \/ (f.do = "asleep" /\ g.do = "sleep")
    BY <1>3, <2>2, <2>3, KeptCall
  <2> SUFFICES ASSUME g.do \in {"link", "retain"}
               PROVE  /\ parent'[f.tok] = IF g.do = "link" THEN None ELSE f.of
                      /\ \A y \in Threads \ {x} : f.tok \notin held'[y]
    BY <2>3, <2>4 DEF PrivateAt
  <2>5. f.do \in {"link", "retain"} /\ g.do = f.do BY <2>4
  <2>6. Len(stack[x]) = 1 BY <2>1, <2>2, <2>5 DEF Nested, NestedAt
  <2>7. x # th
    <3>1. low \in Nat BY DEF Acts
    <3>2. low > 0 => low + 1 # 1 /\ low + 1 # 0 BY <3>1
    <3>3. low > 0 => Len(stack[th]) = low + 1 BY <3>1 DEF Acts
    <3> QED BY <2>1, <2>6, <3>2, <3>3
  <2>8. d = 1 BY <2>1, <2>6 DEF Depths
  <2>9. f.tok \in Tokens BY <2>2 DEF FrameType
  <2>10. Is(x, 1, {"link", "retain"}, f.tok) BY <2>1, <2>2, <2>5, <2>8 DEF Is
  <2>11. /\ parent[f.tok] = IF f.do = "link" THEN None ELSE f.of
         /\ \A y \in Threads \ {x} : f.tok \notin held[y]
    BY <2>1, <2>2, <2>5 DEF Private, PrivateAt
  <2>12. /\ parent'[f.tok] = parent[f.tok]
         /\ \A y \in Threads \ {x} : f.tok \notin held[y] => f.tok \notin held'[y]
    BY <2>7, <2>9, <2>10
  <2> QED BY <2>5, <2>11, <2>12
<1> QED BY <1>1, <1>2, <1>3

LEMMA EndsTurn ==
  ASSUME Shapes, Snapped, Ends, NEW th \in Threads, NEW low, NEW high, Acts(th, low, high),
         \A x \in Threads : \A d, t :
           Keeps(th, low, x, d) /\ Is(x, d, Ending, t) =>
             refcount'[t] = 0 /\ (parent'[t] = None <=> parent[t] = None),
         \A d \in (low + 1)..high : EndsAt(th, d)'
  PROVE  Ends'
<1> SUFFICES ASSUME NEW x \in Threads, NEW d, d \in Depths(x)' PROVE EndsAt(x, d)'
  BY DEF Ends
<1>0. "asleep" \notin Ending /\ "sleep" \notin Ending BY DEF Ending
<1>1. d \in Nat \ {0} /\ (Keeps(th, low, x, d) \/ (x = th /\ d \in (low + 1)..high)) BY NewCall
<1>2. CASE x = th /\ d \in (low + 1)..high BY <1>2
<1>3. CASE Keeps(th, low, x, d)
  <2>1. d \in Depths(x) BY <1>3 DEF Keeps
  <2>2. PICK f \in FrameType : f = Call(x, d) BY <2>1, CallTyped
  <2>3. PICK g : g = Call(x, d)' OBVIOUS
  <2>4. /\ g.tok = f.tok
        /\ g.do = f.do \/ (f.do = "asleep" /\ g.do = "sleep")
    BY <1>3, <2>2, <2>3, KeptCall
  <2> SUFFICES ASSUME g.do \in Ending
               PROVE  /\ refcount'[f.tok] = 0
                      /\ g.do = "free" <=> parent'[f.tok] = None
                      /\ \A y \in Threads : \A e \in Depths(y)' :
                           Is(y, e, Ending, f.tok)' => y = x /\ e = d
    BY <2>3, <2>4 DEF EndsAt
  <2>5. f.do \in Ending /\ g.do = f.do BY <1>0, <2>4
  <2>6. Is(x, d, Ending, f.tok) BY <2>1, <2>2, <2>5 DEF Is
  <2>7. refcount'[f.tok] = 0 /\ (parent'[f.tok] = None <=> parent[f.tok] = None) BY <1>3, <2>6
  <2>8. /\ f.do = "free" <=> parent[f.tok] = None
        /\ \A y \in Threads : \A e \in Depths(y) : Is(y, e, Ending, f.tok) => y = x /\ e = d
    BY <2>1, <2>2, <2>5 DEF Ends, EndsAt
  <2>9. ASSUME NEW y \in Threads, NEW e \in Depths(y)', Is(y, e, Ending, f.tok)'
        PROVE  y = x /\ e = d
    <3>1. Keeps(th, low, y, e) \/ (y = th /\ e \in (low + 1)..high) BY NewCall
    <3>2. CASE Keeps(th, low, y, e)
      <4>1. Is(y, e, Ending, f.tok) /\ e \in Depths(y) BY <1>0, <2>9, <3>2, KeptIs DEF Keeps
      <4> QED BY <2>8, <4>1
    <3>3. CASE y = th /\ e \in (low + 1)..high
      <4>1. EndsAt(th, e)' BY <3>3
      <4>2. Call(th, e)'.do \in Ending /\ Call(th, e)'.tok = f.tok BY <2>9, <3>3 DEF Is
      <4>3. \A z \in Threads : \A i \in Depths(z)' : Is(z, i, Ending, f.tok)' => z = th /\ i = e
        BY <4>1, <4>2 DEF EndsAt
      <4>4. Is(x, d, Ending, f.tok)' BY <1>0, <1>3, <2>6, KeptIs
      <4> QED BY <3>3, <4>3, <4>4
    <3> QED BY <3>1, <3>2, <3>3
  <2> QED BY <2>5, <2>7, <2>8, <2>9
<1> QED BY <1>1, <1>2, <1>3

LEMMA ReachesTurn ==
  ASSUME Shapes, Nested, Snapped, Reaches, NEW th \in Threads, NEW low, NEW high,
         Acts(th, low, high),
         \A t \in Tokens : cancelled[t] => cancelled'[t],
         \A c \in Tokens : parent'[c] = None \/ parent'[c] = parent[c] \/ ~cancelled[parent'[c]],
         \A c \in Tokens : parent[c] # None /\ Complete(c) => Complete(c)',
         \A t \in Tokens : high = low /\ Is(th, low + 1, Cascades, t) => Complete(t)',
         \A d \in (low + 1)..high : ReachesAt(th, d)'
  PROVE  Reaches'
<1> SUFFICES ASSUME NEW x \in Threads, NEW d, d \in Depths(x)' PROVE ReachesAt(x, d)'
  BY DEF Reaches
<1>1. d \in Nat \ {0} /\ (Keeps(th, low, x, d) \/ (x = th /\ d \in (low + 1)..high)) BY NewCall
<1>2. CASE x = th /\ d \in (low + 1)..high BY <1>2
<1>3. CASE Keeps(th, low, x, d)
  <2>1. d \in Depths(x) /\ (x = th => d <= low) BY <1>3 DEF Keeps
  <2>2. PICK f \in FrameType : f = Call(x, d) BY <2>1, CallTyped
  <2>3. PICK g : g = Call(x, d)' OBVIOUS
  <2>4. /\ g.tok = f.tok /\ g.more = f.more /\ g.kids = f.kids
        /\ g.do = f.do \/ (f.do = "asleep" /\ g.do = "sleep")
    BY <1>3, <2>2, <2>3, KeptCall
  <2> SUFFICES ASSUME g.do \in {"scan", "cascade"}
               PROVE  /\ cancelled'[f.tok]
                      /\ \A c \in Tokens : parent'[c] = f.tok =>
                           \/ c \in f.more \cup f.kids
                           \/ d + 2 \in Depths(x)' /\ Is(x, d + 1, {"release"}, c)'
                           \/ Complete(c)'
    BY <2>3, <2>4 DEF ReachesAt, Children
  <2>5. f.do \in {"scan", "cascade"} BY <2>4
  <2>6. f.tok \in Tokens BY <2>2 DEF FrameType
  <2>7. /\ cancelled[f.tok]
        /\ \A c \in Children(f.tok) :
             \/ c \in f.more \cup f.kids
             \/ d + 2 \in Depths(x) /\ Is(x, d + 1, {"release"}, c)
             \/ Complete(c)
    BY <2>1, <2>2, <2>5 DEF Reaches, ReachesAt
  <2>8. ASSUME NEW c \in Tokens, parent'[c] = f.tok, c \notin f.more \cup f.kids
        PROVE  \/ d + 2 \in Depths(x)' /\ Is(x, d + 1, {"release"}, c)'
               \/ Complete(c)'
    <3>1. parent[c] = f.tok /\ parent[c] # None
      BY <2>6, <2>7, <2>8, CancelTreeAssumption
    <3>2. CASE Complete(c) BY <3>1, <3>2
    <3>3. CASE d + 2 \in Depths(x) /\ Is(x, d + 1, {"release"}, c)
      <4>0. Len(stack[x]) \in Nat BY <2>1, CallTyped
      <4>1. d + 1 \in Depths(x) /\ d + 1 < Len(stack[x]) BY <1>1, <3>3, <4>0 DEF Depths
      <4>2. x = th => d + 1 <= low BY <1>1, <4>1 DEF Acts
      <4>3. Keeps(th, low, x, d + 1) BY <4>1, <4>2 DEF Keeps
      <4>4. Is(x, d + 1, {"release"}, c)' BY <3>3, <4>3, KeptIs
      <4>5. CASE x # th
        <5>1. Depths(x)' = Depths(x) BY <4>5 DEF Acts, Turns, Same, Depths
        <5> QED BY <3>3, <4>4, <5>1
      <4>6. CASE x = th /\ d + 2 <= high
        <5>1. d + 2 \in Depths(x)' BY <1>1, <4>6, NewDepths DEF Acts
        <5> QED BY <4>4, <5>1
      <4>7. CASE x = th /\ ~(d + 2 <= high)
        <5>1. low \in Nat /\ high \in Nat /\ low <= high BY DEF Acts
        <5>2. d + 1 = low /\ high = low BY <1>1, <4>2, <4>7, <5>1
        <5>3. d + 1 + 1 = low + 1 BY <5>2
        <5>4. Call(x, d + 1).do = "release" /\ Call(x, d + 1).tok = c BY <3>3 DEF Is
        <5>5. Is(x, d + 1 + 1, Cascades, c)
          <6>1. NestedAt(x, d + 1) BY <4>1 DEF Nested
          <6> QED BY <4>1, <5>4, <6>1 DEF NestedAt
        <5>6. Is(th, low + 1, Cascades, c) BY <4>7, <5>3, <5>5
        <5> QED BY <5>2, <5>6
      <4> QED BY <4>5, <4>6, <4>7
    <3> QED BY <2>7, <2>8, <3>1, <3>2, <3>3 DEF Children
  <2> QED BY <2>6, <2>7, <2>8
<1> QED BY <1>1, <1>2, <1>3

LEMMA CoveredTurn ==
  ASSUME Shapes, Snapped, Covered, NEW th \in Threads, NEW low, NEW high, Acts(th, low, high),
         \A c \in Tokens : Endangered(c)' =>
           Endangered(c) \/ \E d \in (low + 1)..high : On(th, d, c)',
         \A c \in Tokens : Endangered(c)' /\ On(th, low + 1, c) =>
           \E d \in (low + 1)..high : On(th, d, c)'
  PROVE  Covered'
<1> SUFFICES ASSUME NEW c \in Tokens, Endangered(c)'
             PROVE  \E x \in Threads : \E d \in Depths(x)' : On(x, d, c)'
  BY DEF Covered
<1>1. ASSUME NEW d \in (low + 1)..high, On(th, d, c)' PROVE \E x \in Threads : \E e \in Depths(x)' : On(x, e, c)'
  <2>1. d \in Depths(th)' BY <1>1 DEF On, Is
  <2> QED BY <1>1, <2>1
<1>2. CASE Endangered(c)
  <2>1. PICK x \in Threads : \E d \in Depths(x) : On(x, d, c) BY <1>2 DEF Covered
  <2>0. PICK d \in Depths(x) : On(x, d, c) BY <2>1
  <2>2. CASE Keeps(th, low, x, d)
    <3>1. On(x, d, c)' BY <2>0, <2>2, KeptIs
    <3>2. d \in Depths(x)' BY <3>1 DEF On, Is
    <3> QED BY <3>1, <3>2
  <2>3. CASE ~Keeps(th, low, x, d)
    <3>1. x = th /\ ~(d <= low) BY <2>3 DEF Keeps
    <3>2. d \in Nat BY CallTyped
    <3>3. d = low + 1 BY <3>1, <3>2, NewDepths DEF Acts
    <3>4. On(th, low + 1, c) BY <2>0, <3>1, <3>3
    <3> QED BY <1>1, <3>4
  <2> QED BY <2>2, <2>3
<1> QED BY <1>1, <1>2

-----------------------------------------------------------------------------
(* The tokens below a token.                                               *)
LEMMA BelowLeast ==
  ASSUME NEW t \in Tokens
  PROVE  /\ t \in Below(t) /\ Below(t) \in SUBSET Tokens /\ Closed(Below(t))
         /\ \A S \in SUBSET Tokens : t \in S /\ Closed(S) => Below(t) \subseteq S
BY DEF Below, Closed

LEMMA BelowLinked ==
  ASSUME NEW t \in Tokens, NEW d \in Below(t)
  PROVE  d \in Tokens /\ (d = t \/ parent[d] # None)
<1> DEFINE S == {t} \cup {c \in Tokens : parent[c] # None}
<1>1. S \in SUBSET Tokens /\ t \in S OBVIOUS
<1>2. Closed(S) BY CancelTreeAssumption DEF Closed
<1> QED BY <1>1, <1>2, BelowLeast

LEMMA CompleteStays ==
  ASSUME NEW t \in Tokens, Complete(t),
         \A x \in Tokens : cancelled[x] => cancelled'[x],
         \A c \in Tokens : \/ parent'[c] = parent[c] \/ parent'[c] = None
                           \/ refcount[parent'[c]] > 0 /\ ~cancelled[parent'[c]],
         \A c \in Tokens : (c = t \/ parent[c] # None) /\ refcount'[c] > 0 => refcount[c] > 0
  PROVE  Complete(t)'
<1>1. PICK B : B = Below(t) OBVIOUS
<1>2. B \in SUBSET Tokens /\ t \in B /\ Closed(B) BY <1>1, BelowLeast
<1>3. ASSUME NEW c \in Tokens, parent'[c] \in B PROVE c \in B
  <2>1. parent'[c] # None BY <1>2, <1>3, CancelTreeAssumption
  <2>2. refcount[parent'[c]] > 0 => cancelled[parent'[c]] BY <1>1, <1>3 DEF Complete
  <2>3. parent'[c] = parent[c] BY <2>1, <2>2
  <2> QED BY <1>2, <1>3, <2>3 DEF Closed
<1>4. Below(t)' \subseteq B BY <1>2, <1>3 DEF Below, Closed
<1>5. ASSUME NEW d \in B, refcount'[d] > 0 PROVE cancelled'[d]
  <2>1. d \in Tokens /\ (d = t \/ parent[d] # None) BY <1>1, BelowLinked
  <2>2. refcount[d] > 0 BY <1>5, <2>1
  <2> QED BY <1>1, <2>1, <2>2 DEF Complete
<1> QED BY <1>4, <1>5 DEF Complete

LEMMA CompleteByChildren ==
  ASSUME NEW t \in Tokens, refcount[t] > 0 => cancelled[t],
         \A c \in Children(t) : Complete(c)
  PROVE  Complete(t)
<1> DEFINE S == {t} \cup UNION {Below(c) : c \in Children(t)}
<1>1. S \in SUBSET Tokens /\ t \in S BY BelowLeast DEF Children
<1>2. Closed(S)
  <2> SUFFICES ASSUME NEW c \in Tokens, parent[c] \in S PROVE c \in S BY DEF Closed
  <2>1. CASE parent[c] = t
    <3>1. c \in Children(t) BY <2>1 DEF Children
    <3> QED BY <3>1, BelowLeast
  <2>2. ASSUME NEW b \in Children(t), parent[c] \in Below(b) PROVE c \in S
    <3>1. b \in Tokens BY DEF Children
    <3>2. c \in Below(b) BY <2>2, <3>1, BelowLeast DEF Closed
    <3> QED BY <3>2
  <2> QED BY <2>1, <2>2
<1>3. Below(t) \subseteq S BY <1>1, <1>2, BelowLeast
<1> QED BY <1>3 DEF Complete

-----------------------------------------------------------------------------
(* What a count says.                                                      *)
LEMMA CountFacts ==
  ASSUME Balanced, NEW t \in Tokens
  PROVE  /\ refcount[t] \in Nat
         /\ \A th \in Threads : t \in held[th] => refcount[t] > 0
         /\ \A c \in Tokens : parent[c] = t /\ ~Linking(c) => refcount[t] > 0
         /\ \A th \in Threads, d \in Nat :
              Is(th, d, {"release"}, t) \/ Kept(th, d, t) => refcount[t] > 0
         /\ refcount[t] > 0 => \/ \E th \in Threads : t \in held[th]
                               \/ Children(t) # {}
                               \/ \E th \in Threads, d \in Nat : d \in Depths(th)
<1>1. BalancedAt(t) BY DEF Balanced
<1>2. /\ Cardinality(Handles(t)) \in Nat /\ Cardinality(Linked(t)) \in Nat
      /\ Cardinality(Releases(t)) \in Nat /\ Cardinality(Snapshots(t)) \in Nat
  BY <1>1, FS_CardinalityType DEF BalancedAt
<1>3. /\ Cardinality(Handles(t)) = 0 <=> Handles(t) = {}
      /\ Cardinality(Linked(t)) = 0 <=> Linked(t) = {}
      /\ Cardinality(Releases(t)) = 0 <=> Releases(t) = {}
      /\ Cardinality(Snapshots(t)) = 0 <=> Snapshots(t) = {}
  BY <1>1, FS_EmptySet DEF BalancedAt
<1>4. /\ refcount[t] \in Nat
      /\ refcount[t] > 0 <=> \/ Handles(t) # {} \/ Linked(t) # {}
                             \/ Releases(t) # {} \/ Snapshots(t) # {}
  BY <1>1, <1>2, <1>3 DEF BalancedAt
<1>5. \A th \in Threads : t \in held[th] => Handles(t) # {} BY DEF Handles
<1>6. \A c \in Tokens : parent[c] = t /\ ~Linking(c) => Linked(t) # {} BY DEF Linked
<1>7. ASSUME NEW th \in Threads, NEW d \in Nat
      PROVE  /\ Is(th, d, {"release"}, t) => Releases(t) # {}
             /\ Kept(th, d, t) => Snapshots(t) # {}
  <2>1. Is(th, d, {"release"}, t) => <<th, d>> \in Releases(t) BY DEF Releases
  <2>2. Kept(th, d, t) => <<th, d>> \in Snapshots(t) BY DEF Snapshots
  <2> QED BY <2>1, <2>2
<1>8. Handles(t) # {} => \E th \in Threads : t \in held[th] BY DEF Handles
<1>9. Linked(t) # {} => Children(t) # {} BY DEF Linked, Children
<1>10. Releases(t) # {} \/ Snapshots(t) # {} => \E th \in Threads, d \in Nat : d \in Depths(th)
  BY DEF Releases, Snapshots, Is, Kept
<1> QED BY <1>4, <1>5, <1>6, <1>7, <1>8, <1>9, <1>10

LEMMA LinkingHeld ==
  ASSUME Shapes, Nested, Private, NEW c, Linking(c)
  PROVE  \E th \in Threads : c \in held[th] /\ parent[c] \in held[th]
<1>1. PICK th \in Threads : Is(th, 1, {"retain"}, c) BY DEF Linking
<1>2. 1 \in Depths(th) /\ Call(th, 1).do = "retain" /\ Call(th, 1).tok = c BY <1>1 DEF Is
<1>3. c \in held[th] /\ Call(th, 1).of \in held[th] BY <1>2 DEF Nested, NestedAt
<1>4. parent[c] = Call(th, 1).of BY <1>2 DEF Private, PrivateAt
<1> QED BY <1>3, <1>4

LEMMA ParentCounts ==
  ASSUME Shapes, Nested, Private, Balanced, NEW c \in Tokens, NEW t \in Tokens, parent[c] = t
  PROVE  refcount[t] > 0
<1>1. CASE Linking(c) BY <1>1, LinkingHeld, CountFacts
<1>2. CASE ~Linking(c) BY <1>2, CountFacts
<1> QED BY <1>1, <1>2

LEMMA DeadComplete ==
  ASSUME Shapes, Nested, Private, Balanced, NEW t \in Tokens, refcount[t] = 0
  PROVE  Complete(t)
<1>1. Children(t) = {} BY ParentCounts DEF Children
<1> QED BY <1>1, CompleteByChildren

(* Sets of pairs that differ in one.                                       *)
LEMMA PairsSame ==
  ASSUME NEW S \in SUBSET (Threads \X Nat), NEW T \in SUBSET (Threads \X Nat),
         \A x \in Threads, d \in Nat : <<x, d>> \in T <=> <<x, d>> \in S
  PROVE  T = S
OBVIOUS

LEMMA PairsGain ==
  ASSUME NEW S \in SUBSET (Threads \X Nat), NEW T \in SUBSET (Threads \X Nat),
         NEW y \in Threads, NEW e \in Nat, <<y, e>> \in T, <<y, e>> \notin S,
         \A x \in Threads, d \in Nat : x # y \/ d # e => (<<x, d>> \in T <=> <<x, d>> \in S)
  PROVE  T = S \cup {<<y, e>>} /\ S = T \ {<<y, e>>}
OBVIOUS

LEMMA KeptRefs ==
  ASSUME Shapes, Snapped, NEW th \in Threads, NEW low, NEW high, Acts(th, low, high),
         NEW u, NEW x \in Threads, NEW d \in Nat, x # th \/ d <= low
  PROVE  /\ Is(x, d, {"release"}, u)' <=> Is(x, d, {"release"}, u)
         /\ Is(x, d, {"retain"}, u)' <=> Is(x, d, {"retain"}, u)
         /\ Kept(x, d, u)' <=> Kept(x, d, u)
<1>1. CASE Keeps(th, low, x, d) BY <1>1, KeptIs
<1>2. CASE ~Keeps(th, low, x, d)
  <2>1. d \notin Depths(x) BY <1>2 DEF Keeps
  <2>2. d \notin Depths(x)'
    <3>1. SUFFICES ASSUME d \in Depths(x)' PROVE FALSE OBVIOUS
    <3>2. Keeps(th, low, x, d) \/ (x = th /\ d \in (low + 1)..high) BY <3>1, NewCall
    <3> QED BY <1>2, <3>2 DEF Acts
  <2> QED BY <2>1, <2>2 DEF Is, Kept
<1> QED BY <1>1, <1>2

(* Which releases and snapshots there are, given those of the new calls.   *)
LEMMA ReleasesTurn ==
  ASSUME Shapes, Snapped, NEW th \in Threads, NEW low, NEW high, Acts(th, low, high), NEW u
  PROVE  /\ (\A d \in Nat : d > low => (Is(th, d, {"release"}, u)' <=> Is(th, d, {"release"}, u)))
              => Releases(u)' = Releases(u)
         /\ \A e \in Nat :
              /\ e > low /\ IsFiniteSet(Releases(u))
              /\ \A d \in Nat : d > low /\ d # e =>
                   (Is(th, d, {"release"}, u)' <=> Is(th, d, {"release"}, u))
              => /\ Is(th, e, {"release"}, u)' /\ ~Is(th, e, {"release"}, u)
                      => /\ IsFiniteSet(Releases(u)')
                         /\ Cardinality(Releases(u)') = Cardinality(Releases(u)) + 1
                 /\ ~Is(th, e, {"release"}, u)' /\ Is(th, e, {"release"}, u)
                      => /\ IsFiniteSet(Releases(u)')
                         /\ Cardinality(Releases(u)') = Cardinality(Releases(u)) - 1
<1>1. PICK S : S = Releases(u) OBVIOUS
<1>2. PICK T : T = Releases(u)' OBVIOUS
<1>3. S \in SUBSET (Threads \X Nat) /\ T \in SUBSET (Threads \X Nat) BY <1>1, <1>2 DEF Releases
<1>4. \A x \in Threads, d \in Nat : <<x, d>> \in S <=> Is(x, d, {"release"}, u)
  BY <1>1 DEF Releases
<1>5. \A x \in Threads, d \in Nat : <<x, d>> \in T <=> Is(x, d, {"release"}, u)'
  BY <1>2 DEF Releases
<1>6. low \in Nat BY DEF Acts
<1>7. \A x \in Threads, d \in Nat : x # th \/ ~(d > low) =>
        (Is(x, d, {"release"}, u)' <=> Is(x, d, {"release"}, u))
  BY <1>6, KeptRefs
<1>8. (\A d \in Nat : d > low => (Is(th, d, {"release"}, u)' <=> Is(th, d, {"release"}, u))) => T = S
  BY <1>3, <1>4, <1>5, <1>7, PairsSame
<1>9. ASSUME NEW e \in Nat, e > low, IsFiniteSet(S),
             \A d \in Nat : d > low /\ d # e =>
               (Is(th, d, {"release"}, u)' <=> Is(th, d, {"release"}, u))
      PROVE  /\ Is(th, e, {"release"}, u)' /\ ~Is(th, e, {"release"}, u)
                  => IsFiniteSet(T) /\ Cardinality(T) = Cardinality(S) + 1
             /\ ~Is(th, e, {"release"}, u)' /\ Is(th, e, {"release"}, u)
                  => IsFiniteSet(T) /\ Cardinality(T) = Cardinality(S) - 1
  <2>1. \A x \in Threads, d \in Nat : x # th \/ d # e => (<<x, d>> \in T <=> <<x, d>> \in S)
    BY <1>4, <1>5, <1>7, <1>9
  <2>2. ASSUME Is(th, e, {"release"}, u)', ~Is(th, e, {"release"}, u)
        PROVE  IsFiniteSet(T) /\ Cardinality(T) = Cardinality(S) + 1
    <3>1. <<th, e>> \in T /\ <<th, e>> \notin S BY <1>4, <1>5, <2>2
    <3>2. T = S \cup {<<th, e>>} BY <1>3, <1>9, <2>1, <3>1, PairsGain
    <3> QED BY <1>9, <3>1, <3>2, FS_AddElement
  <2>3. ASSUME ~Is(th, e, {"release"}, u)', Is(th, e, {"release"}, u)
        PROVE  IsFiniteSet(T) /\ Cardinality(T) = Cardinality(S) - 1
    <3>1. <<th, e>> \notin T /\ <<th, e>> \in S BY <1>4, <1>5, <2>3
    <3>2. T = S \ {<<th, e>>}
      <4>1. \A x \in Threads, d \in Nat : x # th \/ d # e => (<<x, d>> \in S <=> <<x, d>> \in T)
        BY <2>1
      <4> QED BY <1>3, <1>9, <3>1, <4>1, PairsGain
    <3> QED BY <1>9, <3>1, <3>2, FS_RemoveElement
  <2> QED BY <2>2, <2>3
<1> QED BY <1>1, <1>2, <1>8, <1>9

LEMMA SnapshotsTurn ==
  ASSUME Shapes, Snapped, NEW th \in Threads, NEW low, NEW high, Acts(th, low, high), NEW u
  PROVE  /\ (\A d \in Nat : d > low => (Kept(th, d, u)' <=> Kept(th, d, u)))
              => Snapshots(u)' = Snapshots(u)
         /\ \A e \in Nat :
              /\ e > low /\ IsFiniteSet(Snapshots(u))
              /\ \A d \in Nat : d > low /\ d # e => (Kept(th, d, u)' <=> Kept(th, d, u))
              => /\ Kept(th, e, u)' /\ ~Kept(th, e, u)
                      => /\ IsFiniteSet(Snapshots(u)')
                         /\ Cardinality(Snapshots(u)') = Cardinality(Snapshots(u)) + 1
                 /\ ~Kept(th, e, u)' /\ Kept(th, e, u)
                      => /\ IsFiniteSet(Snapshots(u)')
                         /\ Cardinality(Snapshots(u)') = Cardinality(Snapshots(u)) - 1
<1>1. PICK S : S = Snapshots(u) OBVIOUS
<1>2. PICK T : T = Snapshots(u)' OBVIOUS
<1>3. S \in SUBSET (Threads \X Nat) /\ T \in SUBSET (Threads \X Nat) BY <1>1, <1>2 DEF Snapshots
<1>4. \A x \in Threads, d \in Nat : <<x, d>> \in S <=> Kept(x, d, u) BY <1>1 DEF Snapshots
<1>5. \A x \in Threads, d \in Nat : <<x, d>> \in T <=> Kept(x, d, u)' BY <1>2 DEF Snapshots
<1>6. low \in Nat BY DEF Acts
<1>7. \A x \in Threads, d \in Nat : x # th \/ ~(d > low) => (Kept(x, d, u)' <=> Kept(x, d, u))
  BY <1>6, KeptRefs
<1>8. (\A d \in Nat : d > low => (Kept(th, d, u)' <=> Kept(th, d, u))) => T = S
  BY <1>3, <1>4, <1>5, <1>7, PairsSame
<1>9. ASSUME NEW e \in Nat, e > low, IsFiniteSet(S),
             \A d \in Nat : d > low /\ d # e => (Kept(th, d, u)' <=> Kept(th, d, u))
      PROVE  /\ Kept(th, e, u)' /\ ~Kept(th, e, u)
                  => IsFiniteSet(T) /\ Cardinality(T) = Cardinality(S) + 1
             /\ ~Kept(th, e, u)' /\ Kept(th, e, u)
                  => IsFiniteSet(T) /\ Cardinality(T) = Cardinality(S) - 1
  <2>1. \A x \in Threads, d \in Nat : x # th \/ d # e => (<<x, d>> \in T <=> <<x, d>> \in S)
    BY <1>4, <1>5, <1>7, <1>9
  <2>2. ASSUME Kept(th, e, u)', ~Kept(th, e, u)
        PROVE  IsFiniteSet(T) /\ Cardinality(T) = Cardinality(S) + 1
    <3>1. <<th, e>> \in T /\ <<th, e>> \notin S BY <1>4, <1>5, <2>2
    <3>2. T = S \cup {<<th, e>>} BY <1>3, <1>9, <2>1, <3>1, PairsGain
    <3> QED BY <1>9, <3>1, <3>2, FS_AddElement
  <2>3. ASSUME ~Kept(th, e, u)', Kept(th, e, u)
        PROVE  IsFiniteSet(T) /\ Cardinality(T) = Cardinality(S) - 1
    <3>1. <<th, e>> \notin T /\ <<th, e>> \in S BY <1>4, <1>5, <2>3
    <3>2. T = S \ {<<th, e>>}
      <4>1. \A x \in Threads, d \in Nat : x # th \/ d # e => (<<x, d>> \in S <=> <<x, d>> \in T)
        BY <2>1
      <4> QED BY <1>3, <1>9, <3>1, <4>1, PairsGain
    <3> QED BY <1>9, <3>1, <3>2, FS_RemoveElement
  <2> QED BY <2>2, <2>3
<1> QED BY <1>1, <1>2, <1>8, <1>9

LEMMA LinkedTurn ==
  ASSUME Shapes, Snapped, NEW th \in Threads, NEW low, NEW high, Acts(th, low, high), NEW c,
         low = 0 => (Is(th, 1, {"retain"}, c)' <=> Is(th, 1, {"retain"}, c))
  PROVE  Linking(c)' <=> Linking(c)
<1>1. \A x \in Threads \ {th} : Is(x, 1, {"retain"}, c)' <=> Is(x, 1, {"retain"}, c) BY KeptRefs
<1>2. low \in Nat BY DEF Acts
<1>3. low # 0 => 1 <= low BY <1>2
<1>4. Is(th, 1, {"retain"}, c)' <=> Is(th, 1, {"retain"}, c) BY <1>3, KeptRefs
<1> QED BY <1>1, <1>4 DEF Linking

-----------------------------------------------------------------------------
(* The stacks after each kind of step.                                     *)
LEMMA Busy ==
  ASSUME Shapes, NEW th \in Threads, ~Idle(th)
  PROVE  \E low \in Nat : \E f \in FrameType :
           /\ Len(stack[th]) = low + 1 /\ low + 1 \in Depths(th)
           /\ f = Top(th) /\ f = Call(th, low + 1)
           /\ Depths(th) = 1..(low + 1)
<1>1. PICK n : n = Len(stack[th]) OBVIOUS
<1>2. n \in Nat \ {0} /\ n \in Depths(th) /\ Top(th) = Call(th, n) /\ Top(th) \in FrameType
  BY <1>1, TopTyped
<1>3. PICK low : low = n - 1 OBVIOUS
<1>4. low \in Nat /\ low + 1 = n BY <1>2, <1>3
<1>5. Depths(th) = 1..(low + 1) BY <1>1, <1>4 DEF Depths
<1> QED BY <1>1, <1>2, <1>4, <1>5

LEMMA FrameTurn ==
  ASSUME Shapes, NEW th \in Threads, ~Idle(th), NEW low \in Nat, Len(stack[th]) = low + 1,
         NEW fs \in Seq(FrameType), stack'[th] = fs \o Tail(stack[th]),
         \A x \in Threads \ {th} : Same(x)
  PROVE  /\ Acts(th, low, low + Len(fs)) /\ stack'[th] \in Seq(FrameType)
         /\ \A i \in 1..Len(fs) : Call(th, low + Len(fs) + 1 - i)' = fs[i]
<1>1. stack[th] \in Seq(FrameType) /\ stack[th] # <<>> BY DEF Shapes, Idle
<1>2. Len(fs) \in Nat BY LenProperties
<1>3. /\ stack'[th] \in Seq(FrameType) /\ Len(stack'[th]) = Len(fs) + Len(stack[th]) - 1
      /\ \A d \in 1..(Len(stack[th]) - 1) :
           stack'[th][Len(stack'[th]) + 1 - d] = stack[th][Len(stack[th]) + 1 - d]
      /\ \A i \in 1..Len(fs) : stack'[th][i] = fs[i]
  <2>1. PICK s : s = stack[th] OBVIOUS
  <2>2. PICK r : r = stack'[th] OBVIOUS
  <2>3. s \in Seq(FrameType) /\ s # <<>> /\ r = fs \o Tail(s) BY <1>1, <2>1, <2>2
  <2>4. r \in Seq(FrameType) BY <2>3, OverTail
  <2>5. Len(r) = Len(fs) + Len(s) - 1 BY <2>3, OverTail
  <2>6. \A d \in 1..(Len(s) - 1) : r[Len(r) + 1 - d] = s[Len(s) + 1 - d] BY <2>3, OverTail
  <2>7. \A i \in 1..Len(fs) : r[i] = fs[i] BY <2>3, OverTail
  <2> QED BY <2>1, <2>2, <2>4, <2>5, <2>6, <2>7
<1>4. Len(stack'[th]) = low + Len(fs) /\ Len(stack[th]) - 1 = low BY <1>2, <1>3
<1>5. \A d \in 1..low : d \in Depths(th) /\ Call(th, d)' = Call(th, d)
  BY <1>3, <1>4 DEF Depths, Call
<1>6. Acts(th, low, low + Len(fs)) BY <1>2, <1>4, <1>5 DEF Acts, Turns
<1>7. ASSUME NEW i \in 1..Len(fs) PROVE Call(th, low + Len(fs) + 1 - i)' = fs[i]
  <2>1. PICK d : d = low + Len(fs) + 1 - i OBVIOUS
  <2>2. low + Len(fs) + 1 - d = i BY <1>2, <2>1
  <2>3. Call(th, d)' = stack'[th][i] BY <1>4, <2>2 DEF Call
  <2> QED BY <1>3, <2>1, <2>3
<1> QED BY <1>3, <1>6, <1>7

LEMMA ContinueTurn ==
  ASSUME Shapes, NEW th \in Threads, ~Idle(th), NEW low \in Nat, Len(stack[th]) = low + 1,
         NEW fs \in Seq(FrameType), Continue(th, fs)
  PROVE  /\ Acts(th, low, low + Len(fs)) /\ stack' \in [Threads -> Seq(FrameType)]
         /\ \A i \in 1..Len(fs) : Call(th, low + Len(fs) + 1 - i)' = fs[i]
<1>1. PICK s : s = fs \o Tail(stack[th]) OBVIOUS
<1>2. stack' = [stack EXCEPT ![th] = s] BY <1>1 DEF Continue
<1>3. /\ \A x \in Threads \ {th} : Same(x)
      /\ stack'[th] = s
      /\ (s \in Seq(FrameType) => stack' \in [Threads -> Seq(FrameType)])
  BY <1>2, OthersSame
<1>4. stack'[th] = fs \o Tail(stack[th]) BY <1>1, <1>3
<1>5. /\ Acts(th, low, low + Len(fs)) /\ stack'[th] \in Seq(FrameType)
      /\ \A i \in 1..Len(fs) : Call(th, low + Len(fs) + 1 - i)' = fs[i]
  BY <1>3, <1>4, FrameTurn
<1> QED BY <1>1, <1>3, <1>5

LEMMA PopTurn ==
  ASSUME Shapes, NEW th \in Threads, ~Idle(th), NEW low \in Nat, Len(stack[th]) = low + 1,
         Return(th)
  PROVE  Acts(th, low, low) /\ stack' \in [Threads -> Seq(FrameType)]
<1>1. PICK s : s = <<>> OBVIOUS
<1>2. s \in Seq(FrameType) /\ Len(s) = 0 BY <1>1
<1>3. Continue(th, s) BY <1>1 DEF Return
<1>4. Acts(th, low, low + Len(s)) /\ stack' \in [Threads -> Seq(FrameType)]
  BY <1>2, <1>3, ContinueTurn
<1>5. low + Len(s) = low BY <1>2
<1> QED BY <1>4, <1>5

LEMMA OneTurn ==
  ASSUME Shapes, NEW th \in Threads, ~Idle(th), NEW low \in Nat, Len(stack[th]) = low + 1,
         NEW f \in FrameType, Continue(th, <<f>>)
  PROVE  /\ Acts(th, low, low + 1) /\ stack' \in [Threads -> Seq(FrameType)]
         /\ Call(th, low + 1)' = f
<1>1. PICK s : s = <<f>> OBVIOUS
<1>2. s \in Seq(FrameType) /\ Len(s) = 1 /\ s[1] = f BY <1>1
<1>3. Continue(th, s) BY <1>1
<1>4. /\ Acts(th, low, low + Len(s)) /\ stack' \in [Threads -> Seq(FrameType)]
      /\ \A i \in 1..Len(s) : Call(th, low + Len(s) + 1 - i)' = s[i]
  BY <1>2, <1>3, ContinueTurn
<1>5. low + Len(s) = low + 1 /\ 1 \in 1..Len(s) BY <1>2
<1>6. low + Len(s) + 1 - 1 = low + 1 BY <1>2
<1> QED BY <1>2, <1>4, <1>5, <1>6

LEMMA TwoTurn ==
  ASSUME Shapes, NEW th \in Threads, ~Idle(th), NEW low \in Nat, Len(stack[th]) = low + 1,
         NEW f \in FrameType, NEW g \in FrameType, Continue(th, <<f, g>>)
  PROVE  /\ Acts(th, low, low + 2) /\ stack' \in [Threads -> Seq(FrameType)]
         /\ Call(th, low + 1)' = g /\ Call(th, low + 2)' = f
<1>1. PICK s : s = <<f, g>> OBVIOUS
<1>2. s \in Seq(FrameType) /\ Len(s) = 2 /\ s[1] = f /\ s[2] = g BY <1>1
<1>3. Continue(th, s) BY <1>1
<1>4. /\ Acts(th, low, low + Len(s)) /\ stack' \in [Threads -> Seq(FrameType)]
      /\ \A i \in 1..Len(s) : Call(th, low + Len(s) + 1 - i)' = s[i]
  BY <1>2, <1>3, ContinueTurn
<1>5. low + Len(s) = low + 2 /\ 1 \in 1..Len(s) /\ 2 \in 1..Len(s) BY <1>2
<1>6. low + Len(s) + 1 - 1 = low + 2 /\ low + Len(s) + 1 - 2 = low + 1 BY <1>2
<1> QED BY <1>2, <1>4, <1>5, <1>6

LEMMA ThreeTurn ==
  ASSUME Shapes, NEW th \in Threads, ~Idle(th), NEW low \in Nat, Len(stack[th]) = low + 1,
         NEW f \in FrameType, NEW g \in FrameType, NEW h \in FrameType, Continue(th, <<f, g, h>>)
  PROVE  /\ Acts(th, low, low + 3) /\ stack' \in [Threads -> Seq(FrameType)]
         /\ Call(th, low + 1)' = h /\ Call(th, low + 2)' = g /\ Call(th, low + 3)' = f
<1>1. PICK s : s = <<f, g, h>> OBVIOUS
<1>2. s \in Seq(FrameType) /\ Len(s) = 3 /\ s[1] = f /\ s[2] = g /\ s[3] = h BY <1>1
<1>3. Continue(th, s) BY <1>1
<1>4. /\ Acts(th, low, low + Len(s)) /\ stack' \in [Threads -> Seq(FrameType)]
      /\ \A i \in 1..Len(s) : Call(th, low + Len(s) + 1 - i)' = s[i]
  BY <1>2, <1>3, ContinueTurn
<1>5. low + Len(s) = low + 3 /\ 1 \in 1..Len(s) /\ 2 \in 1..Len(s) /\ 3 \in 1..Len(s) BY <1>2
<1>6. low + Len(s) + 1 - 1 = low + 3 /\ low + Len(s) + 1 - 2 = low + 2 /\ low + Len(s) + 1 - 3 = low + 1 BY <1>2
<1> QED BY <1>2, <1>4, <1>5, <1>6

LEMMA StartTurn ==
  ASSUME Shapes, NEW th \in Threads, Idle(th), NEW f \in FrameType,
         stack' = [stack EXCEPT ![th] = <<f>>]
  PROVE  Acts(th, 0, 1) /\ stack' \in [Threads -> Seq(FrameType)] /\ Call(th, 1)' = f
<1>1. Turns(th, 0, 1) BY Starts
<1>2. stack' \in [Threads -> Seq(FrameType)] BY Starts
<1>3. Call(th, 1)' = f BY Starts
<1>4. Len(stack[th]) = 0 BY Starts
<1> QED BY <1>1, <1>2, <1>3, <1>4 DEF Acts

LEMMA IdleTurn ==
  ASSUME Shapes, NEW th \in Threads, Idle(th),
         \/ stack' = stack
         \/ \E t \in Tokens : stack' = Broadcast(t)
  PROVE  Acts(th, 0, 0) /\ stack' \in [Threads -> Seq(FrameType)]
<1>1. Len(stack[th]) = 0 BY DEF Idle
<1>2. CASE stack' = stack
  <2>1. \A x \in Threads : Same(x) BY <1>2 DEF Same, Call
  <2> QED BY <1>1, <1>2, <2>1 DEF Acts, Turns, Shapes
<1>3. ASSUME NEW t \in Tokens, stack' = Broadcast(t)
      PROVE  Acts(th, 0, 0) /\ stack' \in [Threads -> Seq(FrameType)]
  <2>1. ASSUME NEW x \in Threads PROVE Same(x) /\ stack'[x] \in Seq(FrameType)
    <3>1. stack'[x] = Broadcast(t)[x] BY <1>3
    <3> QED BY <3>1, BroadcastFacts
  <2>2. stack' \in [Threads -> Seq(FrameType)] BY <1>3, <2>1 DEF Broadcast
  <2>3. Len(stack'[th]) = 0 BY <1>1, <2>1 DEF Same
  <2> QED BY <1>1, <2>1, <2>2, <2>3 DEF Acts, Turns
<1> QED BY <1>2, <1>3

LEMMA BroadcastTurn ==
  ASSUME Shapes, NEW th \in Threads, ~Idle(th), NEW low \in Nat, Len(stack[th]) = low + 1, NEW t \in Tokens,
         ~Asleep(th, t), NEW f \in FrameType,
         stack' = [Broadcast(t) EXCEPT ![th] = <<f>> \o Tail(@)]
  PROVE  Acts(th, low, low + 1) /\ stack' \in [Threads -> Seq(FrameType)] /\ Call(th, low + 1)' = f
<1>2. Broadcast(t) = [x \in Threads |-> IF Asleep(x, t) THEN <<Frame("sleep", t)>> \o Tail(stack[x])
                                        ELSE stack[x]]
  BY DEF Broadcast
<1>3. stack'[th] = <<f>> \o Tail(stack[th]) BY <1>2
<1>4. ASSUME NEW x \in Threads \ {th} PROVE Same(x) /\ stack'[x] \in Seq(FrameType)
  <2>1. stack'[x] = Broadcast(t)[x] BY <1>2
  <2> QED BY <2>1, BroadcastFacts
<1>5. PICK s : s = <<f>> OBVIOUS
<1>6. s \in Seq(FrameType) /\ Len(s) = 1 /\ s[1] = f BY <1>5
<1>7. /\ Acts(th, low, low + Len(s)) /\ stack'[th] \in Seq(FrameType)
      /\ \A i \in 1..Len(s) : Call(th, low + Len(s) + 1 - i)' = s[i]
  BY <1>3, <1>4, <1>5, <1>6, FrameTurn
<1>8. low + Len(s) = low + 1 /\ 1 \in 1..Len(s) /\ low + Len(s) + 1 - 1 = low + 1 BY <1>6
<1>9. stack' \in [Threads -> Seq(FrameType)] BY <1>2, <1>4, <1>7
<1> QED BY <1>6, <1>7, <1>8, <1>9

(* Who is being destroyed, given the new calls.                            *)
LEMMA EndingTurn ==
  ASSUME Shapes, Snapped, NEW th \in Threads, NEW low, NEW high, Acts(th, low, high), NEW t
  PROVE  IsEnding(t)' <=>
           \/ \E x \in Threads : \E d : Keeps(th, low, x, d) /\ Is(x, d, Ending, t)
           \/ \E d \in (low + 1)..high : Is(th, d, Ending, t)'
<1>0. "asleep" \notin Ending /\ "sleep" \notin Ending BY DEF Ending
<1>1. ASSUME NEW x \in Threads, NEW d, Keeps(th, low, x, d), Is(x, d, Ending, t) PROVE IsEnding(t)'
  <2>1. Is(x, d, Ending, t)' BY <1>0, <1>1, KeptIs
  <2>2. d \in Depths(x)' BY <2>1 DEF Is
  <2> QED BY <2>1, <2>2 DEF IsEnding
<1>2. ASSUME NEW d \in (low + 1)..high, Is(th, d, Ending, t)' PROVE IsEnding(t)'
  <2>1. d \in Depths(th)' BY <1>2 DEF Is
  <2> QED BY <1>2, <2>1 DEF IsEnding
<1>3. ASSUME NEW x \in Threads, NEW d \in Depths(x)', Is(x, d, Ending, t)'
      PROVE  \/ Keeps(th, low, x, d) /\ Is(x, d, Ending, t)
             \/ x = th /\ d \in (low + 1)..high
  <2>1. Keeps(th, low, x, d) \/ (x = th /\ d \in (low + 1)..high) BY NewCall
  <2>2. Keeps(th, low, x, d) => Is(x, d, Ending, t) BY <1>0, <1>3, KeptIs
  <2> QED BY <2>1, <2>2
<1>4. ASSUME IsEnding(t)'
      PROVE  \/ \E x \in Threads : \E d : Keeps(th, low, x, d) /\ Is(x, d, Ending, t)
             \/ \E d \in (low + 1)..high : Is(th, d, Ending, t)'
  <2>1. PICK x \in Threads : \E d \in Depths(x)' : Is(x, d, Ending, t)' BY <1>4 DEF IsEnding
  <2>2. PICK d \in Depths(x)' : Is(x, d, Ending, t)' BY <2>1
  <2> QED BY <1>3, <2>2
<1> QED BY <1>1, <1>2, <1>4

LEMMA EndingNow ==
  ASSUME Shapes, NEW th \in Threads, NEW low, NEW high, Acts(th, low, high), NEW t
  PROVE  IsEnding(t) <=>
           \/ \E x \in Threads : \E d : Keeps(th, low, x, d) /\ Is(x, d, Ending, t)
           \/ Is(th, low + 1, Ending, t)
<1>1. ASSUME NEW x \in Threads, NEW d \in Depths(x), ~Keeps(th, low, x, d) PROVE x = th /\ d = low + 1
  <2>1. x = th /\ ~(d <= low) BY <1>1 DEF Keeps
  <2>2. d \in Nat BY CallTyped
  <2> QED BY <2>1, <2>2, NewDepths DEF Acts
<1>2. Is(th, low + 1, Ending, t) => low + 1 \in Depths(th) BY DEF Is
<1> QED BY <1>1, <1>2 DEF IsEnding, Keeps

(* A step that leaves memory and the tree alone, takes no count to or from *)
(* 0, and starts and ends no destruction.                                  *)
LEMMA Calm ==
  ASSUME IInv, Shapes', NEW th \in Threads, NEW low, NEW high, Acts(th, low, high),
         memory' = memory, parent' = parent,
         \A t \in Tokens : (refcount'[t] > 0 <=> refcount[t] > 0) /\ (refcount'[t] = 0 <=> refcount[t] = 0),
         \A t \in Tokens : cancelled[t] => cancelled'[t],
         \A x \in Threads : x # th \/ low > 0 => held[x] \subseteq held'[x],
         \A x \in Threads \ {th} : \A t \in Tokens :
           Is(x, 1, {"link", "retain"}, t) =>
             \A y \in Threads \ {x} : t \notin held[y] => t \notin held'[y],
         low > 0 /\ high > low =>
           \A t \in Tokens : Is(th, low + 1, Cascades, t) => Is(th, low + 1, Cascades, t)',
         \A d \in (low + 1)..high : NestedAt(th, d)',
         \A d \in (low + 1)..high : SnappedAt(th, d)',
         \A d \in (low + 1)..high : PrivateAt(th, d)',
         \A d \in (low + 1)..high : ReachesAt(th, d)',
         \A d \in (low + 1)..high : Call(th, d)'.do \notin Ending,
         \A t : ~Is(th, low + 1, Ending, t),
         \A t \in Tokens : high = low /\ Is(th, low + 1, Cascades, t) => Complete(t),
         \A c \in Tokens : Endangered(c)' =>
           Endangered(c) \/ \E d \in (low + 1)..high : On(th, d, c)',
         \A c \in Tokens : Endangered(c)' /\ On(th, low + 1, c) =>
           \E d \in (low + 1)..high : On(th, d, c)'
  PROVE  Nested' /\ Snapped' /\ Private' /\ Ends' /\ Alive' /\ Covered' /\ Reaches'
<1>0. /\ Shapes /\ Nested /\ Snapped /\ Held /\ Private /\ Balanced /\ Ends /\ Alive
      /\ Covered /\ Reaches
  BY DEF IInv
<1>1. Nested' BY <1>0, NestedTurn
<1>2. Snapped' BY <1>0, SnappedTurn
<1>3. Private' BY <1>0, PrivateTurn
<1>4. Ends'
  <2>1. ASSUME NEW x \in Threads, NEW d, NEW t, Keeps(th, low, x, d), Is(x, d, Ending, t)
        PROVE  refcount'[t] = 0 /\ (parent'[t] = None <=> parent[t] = None)
    <3>1. d \in Depths(x) /\ Call(x, d).do \in Ending /\ Call(x, d).tok = t BY <2>1 DEF Is
    <3>2. t \in Tokens BY <1>0, <3>1, CallTyped DEF FrameType
    <3>3. refcount[t] = 0 BY <1>0, <3>1 DEF Ends, EndsAt
    <3> QED BY <3>2, <3>3
  <2>2. \A d \in (low + 1)..high : EndsAt(th, d)' BY DEF EndsAt
  <2> QED BY <1>0, <2>1, <2>2, EndsTurn
<1>5. Alive'
  <2>1. ASSUME NEW t \in Tokens PROVE IsEnding(t)' <=> IsEnding(t)
    <3>1. \A d \in (low + 1)..high : ~Is(th, d, Ending, t)' BY DEF Is
    <3>2. IsEnding(t)' <=> \E x \in Threads : \E d : Keeps(th, low, x, d) /\ Is(x, d, Ending, t)
      BY <1>0, <3>1, EndingTurn
    <3>3. IsEnding(t) <=> \E x \in Threads : \E d : Keeps(th, low, x, d) /\ Is(x, d, Ending, t)
      BY <1>0, EndingNow
    <3> QED BY <3>2, <3>3
  <2> QED BY <1>0, <2>1 DEF Alive, AliveAt
<1>6. Covered' BY <1>0, CoveredTurn
<1>7. Reaches'
  <2>1. ASSUME NEW t \in Tokens, Complete(t) PROVE Complete(t)'
    BY <2>1, CompleteStays
  <2> QED BY <1>0, <2>1, ReachesTurn
<1> QED BY <1>1, <1>2, <1>3, <1>4, <1>5, <1>6, <1>7

(* The counts of a token none of whose references change.                  *)
LEMMA SameCount ==
  ASSUME IInv, Shapes', NEW th \in Threads, NEW low, NEW high, Acts(th, low, high),
         NEW u \in Tokens, refcount'[u] = refcount[u], Handles(u)' = Handles(u),
         Linked(u)' = Linked(u),
         \A d \in Nat : d > low => (Is(th, d, {"release"}, u)' <=> Is(th, d, {"release"}, u)),
         \A d \in Nat : d > low => (Kept(th, d, u)' <=> Kept(th, d, u))
  PROVE  BalancedAt(u)'
<1>1. Shapes /\ Snapped /\ BalancedAt(u) BY DEF IInv, Balanced
<1>2. Releases(u)' = Releases(u) BY <1>1, ReleasesTurn
<1>3. Snapshots(u)' = Snapshots(u) BY <1>1, SnapshotsTurn
<1> QED BY <1>1, <1>2, <1>3 DEF BalancedAt

-----------------------------------------------------------------------------
(* The steps.                                                              *)
LEMMA SameSets ==
  ASSUME Shapes, Snapped, NEW th \in Threads, NEW low, NEW high, Acts(th, low, high),
         held' = held, parent' = parent, NEW u \in Tokens,
         low = 0 => \A c \in Tokens : (Is(th, 1, {"retain"}, c)' <=> Is(th, 1, {"retain"}, c))
  PROVE  Handles(u)' = Handles(u) /\ Linked(u)' = Linked(u)
<1>1. \A c \in Tokens : Linking(c)' <=> Linking(c) BY LinkedTurn
<1> QED BY <1>1 DEF Handles, Linked

LEMMA SleepStep ==
  ASSUME IInv, NEW th \in Threads, SleepEnd(th) \/ Sleep(th) \/ WakeUp(th)
  PROVE  IInv'
<1>0. /\ Shapes /\ Nested /\ Snapped /\ Held /\ Private /\ Balanced /\ Ends /\ Alive
      /\ Covered /\ Reaches
  BY DEF IInv
<1>1. ~Idle(th) /\ Top(th).do \in {"sleep", "asleep"} BY DEF SleepEnd, Sleep, WakeUp, Doing
<1>2. PICK low \in Nat, f \in FrameType :
        /\ Len(stack[th]) = low + 1 /\ low + 1 \in Depths(th)
        /\ f = Top(th) /\ f = Call(th, low + 1) /\ Depths(th) = 1..(low + 1)
  BY <1>0, <1>1, Busy
<1>3. f.do \in {"sleep", "asleep"} BY <1>1, <1>2
<1>4. f.tok \in Tokens /\ f.tok \in held[th] /\ low = 0 /\ f.more = {} /\ f.kids = {}
  <2>1. NestedAt(th, low + 1) /\ SnappedAt(th, low + 1) BY <1>0, <1>2 DEF Nested, Snapped
  <2>2. low + 1 = 1 /\ f.tok \in held[th] BY <1>2, <1>3, <2>1 DEF NestedAt
  <2>3. f.more = {} /\ f.kids = {} BY <1>2, <1>3, <2>1 DEF SnappedAt
  <2> QED BY <1>2, <2>2, <2>3 DEF FrameType
<1>5. UNCHANGED <<memory, refcount, cancelled, deadline, parent, mu, held>>
  BY DEF SleepEnd, Sleep, WakeUp
<1>6. baked' \in [Threads -> {0, 1}]
  BY <1>0, <1>2, <1>4 DEF SleepEnd, Sleep, WakeUp, Shapes
<1>7. \/ Return(th)
      \/ \E do \in {"sleep", "asleep"} : Continue(th, <<Frame(do, f.tok)>>)
  BY <1>2 DEF SleepEnd, Sleep, WakeUp
<1>8. PICK high \in {low, low + 1} :
        /\ Acts(th, low, high) /\ stack' \in [Threads -> Seq(FrameType)]
        /\ high = low + 1 => \E do \in {"sleep", "asleep"} : Call(th, low + 1)' = Frame(do, f.tok)
  <2>1. ASSUME Return(th) PROVE Acts(th, low, low) /\ stack' \in [Threads -> Seq(FrameType)]
    BY <1>0, <1>1, <1>2, <2>1, PopTurn
  <2>2. ASSUME NEW do \in {"sleep", "asleep"}, Continue(th, <<Frame(do, f.tok)>>)
        PROVE  /\ Acts(th, low, low + 1) /\ stack' \in [Threads -> Seq(FrameType)]
               /\ Call(th, low + 1)' = Frame(do, f.tok)
    <3>1. Frame(do, f.tok) \in FrameType BY <1>4, FrameTyped DEF Labels
    <3> QED BY <1>0, <1>1, <1>2, <2>2, <3>1, OneTurn
  <2>3. low # low + 1 BY <1>2
  <2> QED BY <1>7, <2>1, <2>2, <2>3
<1>9. Shapes' BY <1>0, <1>5, <1>6, <1>8 DEF Shapes
<1>10. ASSUME NEW d \in (low + 1)..high
       PROVE  /\ NestedAt(th, d)' /\ SnappedAt(th, d)' /\ PrivateAt(th, d)' /\ ReachesAt(th, d)'
              /\ Call(th, d)'.do \in {"sleep", "asleep"} /\ Call(th, d)'.kids = {}
  <2>1. d = low + 1 /\ high = low + 1 BY <1>2, <1>8
  <2>2. PICK do \in {"sleep", "asleep"} : Call(th, low + 1)' = Frame(do, f.tok) BY <1>8, <2>1
  <2>3. PICK g : g = Call(th, d)' OBVIOUS
  <2>4. g.do \in {"sleep", "asleep"} /\ g.tok = f.tok /\ g.of = None /\ g.more = {} /\ g.kids = {}
    BY <2>1, <2>2, <2>3 DEF Frame
  <2>5. Len(stack'[th]) = 1 BY <1>4, <1>8, <2>1 DEF Acts, Turns
  <2>6. NestedAt(th, d)' BY <1>4, <1>5, <2>3, <2>4, <2>5 DEF NestedAt, Cascades
  <2>7. SnappedAt(th, d)' BY <2>3, <2>4 DEF SnappedAt
  <2>8. PrivateAt(th, d)' BY <2>3, <2>4 DEF PrivateAt
  <2>9. ReachesAt(th, d)' BY <2>3, <2>4 DEF ReachesAt
  <2> QED BY <2>3, <2>4, <2>6, <2>7, <2>8, <2>9
<1>11. \A d \in (low + 1)..high : Call(th, d)'.do \notin Ending BY <1>10 DEF Ending
<1>12. \A t : ~Is(th, low + 1, Ending, t) /\ ~Is(th, low + 1, Cascades, t) /\ ~On(th, low + 1, t)
  BY <1>2, <1>3, <1>4 DEF Is, On, Ending, Cascades
<1>13. Nested' /\ Snapped' /\ Private' /\ Ends' /\ Alive' /\ Covered' /\ Reaches'
  <2>1. \A c \in Tokens : Endangered(c)' <=> Endangered(c) BY <1>5 DEF Endangered
  <2> QED BY <1>5, <1>8, <1>9, <1>10, <1>11, <1>12, <2>1, Calm
<1>14. Held'
  <2>1. \A d \in (low + 1)..high : \A t : ~Is(th, d, {"scan"}, t)' BY <1>10 DEF Is
  <2>2. \A t \in Tokens : mu[t] # th
    <3>1. \A t : \A d \in Depths(th) : ~Is(th, d, {"scan"}, t) BY <1>2, <1>3, <1>4 DEF Is
    <3> QED BY <1>0, <3>1 DEF Held
  <2> QED BY <1>0, <1>5, <1>8, <2>1, <2>2, HeldTurn
<1>15. Balanced'
  <2>1. SUFFICES ASSUME NEW u \in Tokens PROVE BalancedAt(u)' BY DEF Balanced
  <2>2. ASSUME NEW d \in Nat, d > low
        PROVE  /\ ~Is(th, d, {"release"}, u)' /\ ~Is(th, d, {"release"}, u)
               /\ ~Kept(th, d, u)' /\ ~Kept(th, d, u)
               /\ \A c : ~Is(th, d, {"retain"}, c)' /\ ~Is(th, d, {"retain"}, c)
    <3>1. d \in Depths(th) => d = low + 1 BY <1>2, <2>2
    <3>2. d \in Depths(th)' => d \in (low + 1)..high BY <1>2, <1>8, <2>2, NewDepths
    <3> QED BY <1>2, <1>3, <1>4, <1>10, <3>1, <3>2 DEF Is, Kept
  <2>3. Handles(u)' = Handles(u) /\ Linked(u)' = Linked(u)
    <3>1. \A c \in Tokens : Is(th, 1, {"retain"}, c)' <=> Is(th, 1, {"retain"}, c) BY <1>4, <2>2
    <3> QED BY <1>0, <1>5, <1>8, <3>1, SameSets
  <2> QED BY <1>5, <1>8, <1>9, <2>2, <2>3, SameCount
<1> QED BY <1>9, <1>13, <1>14, <1>15 DEF IInv

LEMMA IdleFacts ==
  ASSUME NEW th \in Threads, Idle(th)
  PROVE  /\ Len(stack[th]) = 0 /\ Depths(th) = {}
         /\ \A d, ops, t : ~Is(th, d, ops, t)
         /\ \A d, t : ~Kept(th, d, t) /\ ~On(th, d, t)
<1>1. Len(stack[th]) = 0 BY DEF Idle
<1>2. Depths(th) = {} BY <1>1 DEF Depths
<1> QED BY <1>1, <1>2 DEF Is, Kept, On

LEMMA InvokeStep ==
  ASSUME IInv, NEW th \in Threads, NEW do \in {"request", "release", "sleep"}, NEW t \in Tokens,
         Invoke(th, do, t)
  PROVE  IInv'
<1>0. /\ Shapes /\ Nested /\ Snapped /\ Held /\ Private /\ Balanced /\ Ends /\ Alive
      /\ Covered /\ Reaches
  BY DEF IInv
<1>1. /\ Idle(th) /\ t \in held[th] /\ stack' = [stack EXCEPT ![th] = <<Frame(do, t)>>]
      /\ held' = IF do = "release" THEN [held EXCEPT ![th] = @ \ {t}] ELSE held
      /\ UNCHANGED <<memory, refcount, cancelled, deadline, parent, mu, baked>>
  BY DEF Invoke
<1>2. PICK g \in FrameType : g = Frame(do, t) BY FrameTyped DEF Labels
<1>3. g.do = do /\ g.tok = t /\ g.of = None /\ g.more = {} /\ g.kids = {} BY <1>2 DEF Frame
<1>4. Acts(th, 0, 1) /\ stack' \in [Threads -> Seq(FrameType)] /\ Call(th, 1)' = g
  BY <1>0, <1>1, <1>2, StartTurn
<1>5. PICK low : low = 0 OBVIOUS
<1>6. PICK high : high = 1 OBVIOUS
<1>7. Acts(th, low, high) BY <1>4, <1>5, <1>6
<1>8. Shapes' BY <1>0, <1>1, <1>4 DEF Shapes
<1>9. /\ \A d, ops, u : ~Is(th, d, ops, u)
      /\ \A d, u : ~Kept(th, d, u) /\ ~On(th, d, u)
  BY <1>1, IdleFacts
<1>10. Len(stack'[th]) = 1 /\ Depths(th)' = {1} BY <1>4 DEF Acts, Turns, Depths
<1>11. ASSUME NEW d \in (low + 1)..high
       PROVE  /\ NestedAt(th, d)' /\ SnappedAt(th, d)' /\ PrivateAt(th, d)' /\ ReachesAt(th, d)'
              /\ Call(th, d)'.do \notin Ending
  <2>1. d = 1 BY <1>5, <1>6
  <2>2. do # "release" => t \in held'[th] BY <1>1
  <2>3. NestedAt(th, d)' BY <1>3, <1>4, <1>10, <2>1, <2>2 DEF NestedAt, Cascades
  <2>4. SnappedAt(th, d)' BY <1>3, <1>4, <2>1 DEF SnappedAt
  <2>5. PrivateAt(th, d)' BY <1>3, <1>4, <2>1 DEF PrivateAt
  <2>6. ReachesAt(th, d)' BY <1>3, <1>4, <2>1 DEF ReachesAt
  <2> QED BY <1>3, <1>4, <2>1, <2>3, <2>4, <2>5, <2>6 DEF Ending
<1>12. \A x \in Threads : /\ held'[x] \subseteq held[x] /\ (x # th => held'[x] = held[x])
  BY <1>0, <1>1 DEF Shapes
<1>13. Nested' /\ Snapped' /\ Private' /\ Ends' /\ Alive' /\ Covered' /\ Reaches'
  <2>1. \A c \in Tokens : Endangered(c)' <=> Endangered(c) BY <1>1 DEF Endangered
  <2>2. \A x \in Threads : x # th \/ low > 0 => held[x] \subseteq held'[x] BY <1>5, <1>12
  <2>3. ~(low > 0) BY <1>5
  <2>4. \A x \in Threads \ {th} : \A u \in Tokens : Is(x, 1, {"link", "retain"}, u) =>
          \A y \in Threads \ {x} : u \notin held[y] => u \notin held'[y]
    BY <1>12
  <2> QED BY <1>1, <1>7, <1>8, <1>9, <1>11, <2>1, <2>2, <2>3, <2>4, Calm
<1>14. Held'
  <2>1. \A d \in (low + 1)..high : \A u : ~Is(th, d, {"scan"}, u)'
    BY <1>3, <1>4, <1>5, <1>6 DEF Is
  <2>2. \A u \in Tokens : mu[u] # th BY <1>0, <1>9 DEF Held
  <2> QED BY <1>0, <1>1, <1>7, <2>1, <2>2, HeldTurn
<1>15. Balanced'
  <2> SUFFICES ASSUME NEW u \in Tokens PROVE BalancedAt(u)' BY DEF Balanced
  <2>1. \A d \in Nat : /\ Is(th, d, {"release"}, u)' <=> do = "release" /\ u = t /\ d = 1
                       /\ ~Kept(th, d, u)' /\ \A c : ~Is(th, d, {"retain"}, c)'
    BY <1>3, <1>4, <1>10 DEF Is, Kept
  <2>2. Linked(u)' = Linked(u)
    <3>1. \A c \in Tokens : Linking(c)' <=> Linking(c) BY <1>0, <1>4, <1>9, <2>1, LinkedTurn
    <3> QED BY <1>1, <3>1 DEF Linked
  <2>3. CASE do # "release" \/ u # t
    <3>1. Handles(u)' = Handles(u) BY <1>0, <1>1, <2>3 DEF Handles, Shapes
    <3> QED BY <1>1, <1>4, <1>8, <1>9, <2>1, <2>2, <2>3, <3>1, SameCount
  <2>4. CASE do = "release" /\ u = t
    <3>1. BalancedAt(u) BY <1>0 DEF Balanced
    <3>2. IsFiniteSet(Releases(u)') /\ Cardinality(Releases(u)') = Cardinality(Releases(u)) + 1
      BY <1>0, <1>4, <1>9, <2>1, <2>4, <3>1, ReleasesTurn DEF BalancedAt
    <3>3. Snapshots(u)' = Snapshots(u) BY <1>0, <1>4, <1>9, <2>1, SnapshotsTurn
    <3>4. Handles(u)' = Handles(u) \ {th} /\ th \in Handles(u)
      BY <1>0, <1>1, <2>4 DEF Handles, Shapes
    <3>5. IsFiniteSet(Handles(u)') /\ Cardinality(Handles(u)') = Cardinality(Handles(u)) - 1
      BY <3>1, <3>4, FS_RemoveElement DEF BalancedAt
    <3>6. /\ Cardinality(Handles(u)) \in Nat /\ Cardinality(Linked(u)) \in Nat
          /\ Cardinality(Releases(u)) \in Nat /\ Cardinality(Snapshots(u)) \in Nat
      BY <3>1, FS_CardinalityType DEF BalancedAt
    <3> QED BY <1>1, <2>2, <3>1, <3>2, <3>3, <3>5, <3>6 DEF BalancedAt
  <2> QED BY <2>3, <2>4
<1> QED BY <1>8, <1>13, <1>14, <1>15 DEF IInv

LEMMA ShareStep ==
  ASSUME IInv, NEW th \in Threads, NEW other \in Threads \ {th}, NEW t \in Tokens,
         Share(th, other, t)
  PROVE  IInv'
<1>0. /\ Shapes /\ Nested /\ Snapped /\ Held /\ Private /\ Balanced /\ Ends /\ Alive
      /\ Covered /\ Reaches
  BY DEF IInv
<1>1. /\ Idle(th) /\ t \in held[th] /\ t \notin held[other] /\ stack' = stack
      /\ refcount' = [refcount EXCEPT ![t] = @ + 1]
      /\ held' = [held EXCEPT ![other] = @ \cup {t}]
      /\ UNCHANGED <<memory, cancelled, deadline, parent, mu, baked>>
  BY DEF Share, Plus
<1>2. PICK low : low = 0 OBVIOUS
<1>3. Acts(th, low, low) /\ stack' \in [Threads -> Seq(FrameType)] BY <1>0, <1>1, <1>2, IdleTurn
<1>4. Shapes' BY <1>0, <1>1, <1>3 DEF Shapes
<1>5. /\ \A d, ops, u : ~Is(th, d, ops, u)
      /\ \A d, u : ~Kept(th, d, u) /\ ~On(th, d, u)
  BY <1>1, IdleFacts
<1>6. (low + 1)..low = {} /\ ~(low > 0) BY <1>2
<1>7. refcount[t] \in Nat /\ refcount[t] > 0 BY <1>0, <1>1, CountFacts
<1>8. \A u \in Tokens : /\ (refcount'[u] > 0 <=> refcount[u] > 0)
                        /\ (refcount'[u] = 0 <=> refcount[u] = 0)
  BY <1>0, <1>1, <1>7 DEF Shapes
<1>9. \A x \in Threads : held[x] \subseteq held'[x] BY <1>0, <1>1 DEF Shapes
<1>10. ASSUME NEW x \in Threads \ {th}, NEW u \in Tokens, Is(x, 1, {"link", "retain"}, u),
              NEW y \in Threads \ {x}, u \notin held[y]
       PROVE  u \notin held'[y]
  <2>1. u \notin held[th] BY <1>0, <1>10 DEF Private, PrivateAt, Is
  <2> QED BY <1>0, <1>1, <1>10, <2>1 DEF Shapes
<1>11. Nested' /\ Snapped' /\ Private' /\ Ends' /\ Alive' /\ Covered' /\ Reaches'
  <2>1. \A c \in Tokens : Endangered(c)' <=> Endangered(c) BY <1>1, <1>8 DEF Endangered
  <2>2. \A x \in Threads \ {th} : \A u \in Tokens : Is(x, 1, {"link", "retain"}, u) =>
          \A y \in Threads \ {x} : u \notin held[y] => u \notin held'[y]
    BY <1>10
  <2>3. \A u \in Tokens : ~Is(th, low + 1, Cascades, u) /\ ~On(th, low + 1, u) BY <1>5
  <2>4. \A u : ~Is(th, low + 1, Ending, u) BY <1>5
  <2>5. PICK high : high = low OBVIOUS
  <2>6. Acts(th, low, high) /\ (low + 1)..high = {} /\ ~(high > low) BY <1>2, <1>3, <1>6, <2>5
  <2>7. UNCHANGED <<memory, parent, cancelled>> BY <1>1
  <2> QED BY <1>4, <1>6, <1>8, <1>9, <2>1, <2>2, <2>3, <2>4, <2>6, <2>7, Calm
<1>12. Held'
  <2>1. \A u \in Tokens : mu[u] # th BY <1>0, <1>5 DEF Held
  <2> QED BY <1>0, <1>1, <1>3, <1>6, <2>1, HeldTurn
<1>13. Balanced'
  <2> SUFFICES ASSUME NEW u \in Tokens PROVE BalancedAt(u)' BY DEF Balanced
  <2>1. \A d \in Nat : d > low =>
          ~Is(th, d, {"release"}, u)' /\ ~Kept(th, d, u)' /\ \A c : ~Is(th, d, {"retain"}, c)'
    <3>1. Depths(th)' = {} BY <1>3, <1>2 DEF Acts, Turns, Depths
    <3> QED BY <3>1 DEF Is, Kept
  <2>2. Linked(u)' = Linked(u)
    <3>1. 1 \in Nat /\ 1 > low BY <1>2
    <3>2. \A c \in Tokens : Linking(c)' <=> Linking(c) BY <1>0, <1>3, <1>5, <2>1, <3>1, LinkedTurn
    <3> QED BY <1>1, <3>2 DEF Linked
  <2>3. CASE u # t
    <3>1. Handles(u)' = Handles(u) BY <1>0, <1>1, <2>3 DEF Handles, Shapes
    <3>2. refcount'[u] = refcount[u] BY <1>0, <1>1, <2>3 DEF Shapes
    <3> QED BY <1>3, <1>4, <1>5, <2>1, <2>2, <3>1, <3>2, SameCount
  <2>4. CASE u = t
    <3>1. BalancedAt(u) BY <1>0 DEF Balanced
    <3>2. Releases(u)' = Releases(u) BY <1>0, <1>3, <1>5, <2>1, ReleasesTurn
    <3>3. Snapshots(u)' = Snapshots(u) BY <1>0, <1>3, <1>5, <2>1, SnapshotsTurn
    <3>4. Handles(u)' = Handles(u) \cup {other} /\ other \notin Handles(u)
      BY <1>0, <1>1, <2>4 DEF Handles, Shapes
    <3>5. IsFiniteSet(Handles(u)') /\ Cardinality(Handles(u)') = Cardinality(Handles(u)) + 1
      BY <3>1, <3>4, FS_AddElement DEF BalancedAt
    <3>6. /\ Cardinality(Handles(u)) \in Nat /\ Cardinality(Linked(u)) \in Nat
          /\ Cardinality(Releases(u)) \in Nat /\ Cardinality(Snapshots(u)) \in Nat
      BY <3>1, FS_CardinalityType DEF BalancedAt
    <3>7. refcount'[u] = refcount[u] + 1 BY <1>0, <1>1, <2>4 DEF Shapes
    <3> QED BY <2>2, <3>1, <3>2, <3>3, <3>5, <3>6, <3>7 DEF BalancedAt
  <2> QED BY <2>3, <2>4
<1> QED BY <1>4, <1>11, <1>12, <1>13 DEF IInv

LEMMA SetDeadlineStep ==
  ASSUME IInv, NEW th \in Threads, NEW t \in Tokens, SetDeadline(th, t)
  PROVE  IInv'
<1>0. /\ Shapes /\ Nested /\ Snapped /\ Held /\ Private /\ Balanced /\ Ends /\ Alive
      /\ Covered /\ Reaches
  BY DEF IInv
<1>1. /\ Idle(th) /\ stack' = Broadcast(t) /\ deadline' = [deadline EXCEPT ![t] = 1 - @]
      /\ UNCHANGED <<memory, refcount, cancelled, parent, mu, held, baked>>
  BY DEF SetDeadline
<1>2. PICK low : low = 0 OBVIOUS
<1>3. Acts(th, low, low) /\ stack' \in [Threads -> Seq(FrameType)] BY <1>0, <1>1, <1>2, IdleTurn
<1>4. deadline' \in [Tokens -> {0, 1}]
  <2>1. deadline \in [Tokens -> {0, 1}] BY <1>0 DEF Shapes
  <2>2. 1 - deadline[t] \in {0, 1} BY <2>1
  <2> QED BY <1>1, <2>1, <2>2
<1>5. Shapes' BY <1>0, <1>1, <1>3, <1>4 DEF Shapes
<1>6. /\ \A d, ops, u : ~Is(th, d, ops, u)
      /\ \A d, u : ~Kept(th, d, u) /\ ~On(th, d, u)
  BY <1>1, IdleFacts
<1>7. (low + 1)..low = {} /\ ~(low > 0) BY <1>2
<1>8. Nested' /\ Snapped' /\ Private' /\ Ends' /\ Alive' /\ Covered' /\ Reaches'
  <2>1. \A c \in Tokens : Endangered(c)' <=> Endangered(c) BY <1>1 DEF Endangered
  <2> QED BY <1>1, <1>3, <1>5, <1>6, <1>7, <2>1, Calm
<1>9. Held'
  <2>1. \A u \in Tokens : mu[u] # th BY <1>0, <1>6 DEF Held
  <2> QED BY <1>0, <1>1, <1>3, <1>7, <2>1, HeldTurn
<1>10. Balanced'
  <2> SUFFICES ASSUME NEW u \in Tokens PROVE BalancedAt(u)' BY DEF Balanced
  <2>1. \A d : ~Is(th, d, {"release"}, u)' /\ ~Kept(th, d, u)' /\ \A c : ~Is(th, d, {"retain"}, c)'
    <3>1. Depths(th)' = {} BY <1>3, <1>2 DEF Acts, Turns, Depths
    <3> QED BY <3>1 DEF Is, Kept
  <2>2. Handles(u)' = Handles(u) /\ Linked(u)' = Linked(u)
    BY <1>0, <1>1, <1>3, <1>6, <2>1, SameSets
  <2> QED BY <1>1, <1>3, <1>5, <1>6, <2>1, <2>2, SameCount
<1> QED BY <1>5, <1>8, <1>9, <1>10 DEF IInv

(* A token that is created has no count, no child, no parent and no handle.*)
LEMMA CreateStep ==
  ASSUME IInv, NEW th \in Threads, NEW t \in Tokens, NEW p \in Tokens,
         New(th, t) \/ ChildOf(th, t, p)
  PROVE  IInv'
<1>0. /\ Shapes /\ Nested /\ Snapped /\ Held /\ Private /\ Balanced /\ Ends /\ Alive
      /\ Covered /\ Reaches
  BY DEF IInv
<1>1. /\ Idle(th) /\ memory[t] = "unborn"
      /\ memory' = [memory EXCEPT ![t] = "live"]
      /\ refcount' = [refcount EXCEPT ![t] = 1]
      /\ held' = [held EXCEPT ![th] = @ \cup {t}]
      /\ UNCHANGED <<cancelled, deadline, parent, mu, baked>>
  BY DEF New, ChildOf, Create
<1>2. refcount[t] = 0 /\ ~IsEnding(t) /\ parent[t] = None
  <2>1. AliveAt(t) /\ refcount[t] \in Nat BY <1>0, CountFacts DEF Alive
  <2> QED BY <1>1, <2>1 DEF AliveAt
<1>3. \A x \in Threads : t \notin held[x] BY <1>0, <1>2, CountFacts
<1>4. PICK g \in FrameType : g = [Frame("link", t) EXCEPT !.of = p]
  <2>1. [Frame("link", t) EXCEPT !.of = p] =
          [do |-> "link", tok |-> t, of |-> p, more |-> {}, kids |-> {}]
    BY DEF Frame
  <2>2. [do |-> "link", tok |-> t, of |-> p, more |-> {}, kids |-> {}] \in FrameType
    BY DEF FrameType, Labels
  <2> QED BY <2>1, <2>2
<1>5. g.do = "link" /\ g.tok = t /\ g.of = p /\ g.more = {} /\ g.kids = {} BY <1>4 DEF Frame
<1>6. PICK high \in {0, 1} :
        /\ Acts(th, 0, high) /\ stack' \in [Threads -> Seq(FrameType)]
        /\ high = 1 => Call(th, 1)' = g /\ p \in held[th]
  <2>1. CASE New(th, t)
    <3>1. stack' = stack BY <2>1 DEF New
    <3> QED BY <1>0, <1>1, <3>1, IdleTurn
  <2>2. CASE ChildOf(th, t, p)
    <3>1. stack' = [stack EXCEPT ![th] = <<g>>] /\ p \in held[th] BY <1>4, <2>2 DEF ChildOf
    <3> QED BY <1>0, <1>1, <3>1, StartTurn
  <2> QED BY <2>1, <2>2
<1>7. PICK low : low = 0 OBVIOUS
<1>8. Acts(th, low, high) /\ ~(low > 0) /\ (low + 1)..high = 1..high BY <1>6, <1>7
<1>9. Shapes'
  <2>1. memory' \in [Tokens -> {"unborn", "live", "freed"}] BY <1>0, <1>1 DEF Shapes
  <2>2. refcount' \in [Tokens -> Int] BY <1>0, <1>1 DEF Shapes
  <2>3. held' \in [Threads -> SUBSET Tokens] BY <1>0, <1>1 DEF Shapes
  <2> QED BY <1>0, <1>1, <1>6, <2>1, <2>2, <2>3 DEF Shapes
<1>10. /\ \A d, ops, u : ~Is(th, d, ops, u)
       /\ \A d, u : ~Kept(th, d, u) /\ ~On(th, d, u)
  BY <1>1, IdleFacts
<1>11. ASSUME NEW d \in (low + 1)..high
       PROVE  /\ NestedAt(th, d)' /\ SnappedAt(th, d)' /\ PrivateAt(th, d)' /\ ReachesAt(th, d)'
              /\ EndsAt(th, d)' /\ Call(th, d)'.do = "link" /\ Call(th, d)'.kids = {}
  <2>1. d = 1 /\ high = 1 /\ Len(stack'[th]) = 1 BY <1>6, <1>8 DEF Acts, Turns
  <2>2. Call(th, d)' = g BY <1>6, <2>1
  <2>3. t \in held'[th] /\ p \in held'[th] BY <1>0, <1>1, <1>6, <2>1 DEF Shapes
  <2>4. NestedAt(th, d)' BY <1>5, <2>1, <2>2, <2>3 DEF NestedAt, Cascades
  <2>5. SnappedAt(th, d)' BY <1>5, <2>2 DEF SnappedAt
  <2>6. PrivateAt(th, d)'
    <3>1. \A x \in Threads \ {th} : t \notin held'[x] BY <1>0, <1>1, <1>3 DEF Shapes
    <3> QED BY <1>1, <1>2, <1>5, <2>2, <3>1 DEF PrivateAt
  <2>7. ReachesAt(th, d)' BY <1>5, <2>2 DEF ReachesAt
  <2>8. EndsAt(th, d)' BY <1>5, <2>2 DEF EndsAt, Ending
  <2> QED BY <1>5, <2>2, <2>4, <2>5, <2>6, <2>7, <2>8
<1>12. Nested'
  <2>1. \A x \in Threads : held[x] \subseteq held'[x] BY <1>0, <1>1 DEF Shapes
  <2> QED BY <1>0, <1>8, <1>11, <2>1, NestedTurn
<1>13. Snapped' BY <1>0, <1>1, <1>8, <1>11, SnappedTurn
<1>14. Held'
  <2>1. \A d \in (low + 1)..high : \A u : ~Is(th, d, {"scan"}, u)' BY <1>11 DEF Is
  <2>2. \A u \in Tokens : mu[u] # th BY <1>0, <1>10 DEF Held
  <2> QED BY <1>0, <1>1, <1>8, <2>1, <2>2, HeldTurn
<1>15. Private'
  <2>1. ASSUME NEW x \in Threads \ {th}, NEW u \in Tokens, Is(x, 1, {"link", "retain"}, u),
               NEW y \in Threads \ {x}, u \notin held[y]
        PROVE  u \notin held'[y]
    <3>1. u \in held[x] BY <1>0, <2>1 DEF Nested, NestedAt, Is
    <3>2. u # t BY <1>3, <3>1
    <3> QED BY <1>0, <1>1, <2>1, <3>2 DEF Shapes
  <2> QED BY <1>0, <1>1, <1>8, <1>11, <2>1, PrivateTurn
<1>16. Ends'
  <2>1. ASSUME NEW x \in Threads, NEW d, NEW u, Keeps(th, low, x, d), Is(x, d, Ending, u)
        PROVE  refcount'[u] = 0 /\ (parent'[u] = None <=> parent[u] = None)
    <3>1. d \in Depths(x) /\ Call(x, d).do \in Ending /\ Call(x, d).tok = u BY <2>1 DEF Is
    <3>2. refcount[u] = 0 /\ u \in Tokens BY <1>0, <3>1, CallTyped DEF Ends, EndsAt, FrameType
    <3>3. u # t BY <1>2, <2>1, <3>1 DEF IsEnding
    <3> QED BY <1>0, <1>1, <3>2, <3>3 DEF Shapes
  <2> QED BY <1>0, <1>8, <1>11, <2>1, EndsTurn
<1>17. Alive'
  <2>1. SUFFICES ASSUME NEW u \in Tokens PROVE AliveAt(u)' BY DEF Alive
  <2>2. CASE u = t BY <1>0, <1>1, <1>2, <2>2 DEF AliveAt, Shapes
  <2>3. CASE u # t
    <3>1. \A d \in (low + 1)..high : ~Is(th, d, Ending, u)' BY <1>11 DEF Is, Ending
    <3>2. IsEnding(u)' <=> \E x \in Threads : \E d : Keeps(th, low, x, d) /\ Is(x, d, Ending, u)
      BY <1>0, <1>8, <3>1, EndingTurn
    <3>3. IsEnding(u) <=> \E x \in Threads : \E d : Keeps(th, low, x, d) /\ Is(x, d, Ending, u)
      BY <1>0, <1>8, <1>10, EndingNow
    <3>4. memory'[u] = memory[u] /\ refcount'[u] = refcount[u] BY <1>0, <1>1, <2>3 DEF Shapes
    <3> QED BY <1>0, <1>1, <3>2, <3>3, <3>4 DEF Alive, AliveAt
  <2> QED BY <2>2, <2>3
<1>18. Covered'
  <2>1. ASSUME NEW c \in Tokens, Endangered(c)' PROVE Endangered(c)
    <3>1. c # t BY <1>1, <1>2, <2>1 DEF Endangered
    <3> QED BY <1>0, <1>1, <2>1, <3>1 DEF Endangered, Shapes
  <2> QED BY <1>0, <1>8, <1>10, <2>1, CoveredTurn
<1>19. Reaches'
  <2>1. ASSUME NEW c \in Tokens, parent[c] # None, Complete(c) PROVE Complete(c)'
    <3>1. \A b \in Tokens : (b = c \/ parent[b] # None) /\ refcount'[b] > 0 => refcount[b] > 0
      BY <1>0, <1>1, <1>2, <2>1 DEF Shapes
    <3> QED BY <1>1, <2>1, <3>1, CompleteStays
  <2> QED BY <1>0, <1>1, <1>8, <1>10, <1>11, <2>1, ReachesTurn
<1>20. Balanced'
  <2> SUFFICES ASSUME NEW u \in Tokens PROVE BalancedAt(u)' BY DEF Balanced
  <2>1. ASSUME NEW d \in Nat, d > low
        PROVE  /\ ~Is(th, d, {"release"}, u)' /\ ~Kept(th, d, u)'
               /\ \A c : ~Is(th, d, {"retain"}, c)'
    <3>1. d \in Depths(th)' => d \in (low + 1)..high BY <1>8, <2>1, NewDepths DEF Acts
    <3> QED BY <1>11, <3>1 DEF Is, Kept
  <2>2. Linked(u)' = Linked(u)
    <3>1. 1 \in Nat /\ 1 > low BY <1>7
    <3>2. \A c \in Tokens : Linking(c)' <=> Linking(c) BY <1>0, <1>8, <1>10, <2>1, <3>1, LinkedTurn
    <3> QED BY <1>1, <3>2 DEF Linked
  <2>3. CASE u # t
    <3>1. Handles(u)' = Handles(u) BY <1>0, <1>1, <2>3 DEF Handles, Shapes
    <3>2. refcount'[u] = refcount[u] BY <1>0, <1>1, <2>3 DEF Shapes
    <3> QED BY <1>8, <1>9, <1>10, <2>1, <2>2, <3>1, <3>2, SameCount
  <2>4. CASE u = t
    <3>1. BalancedAt(u) BY <1>0 DEF Balanced
    <3>2. Releases(u)' = Releases(u) BY <1>0, <1>8, <1>10, <2>1, ReleasesTurn
    <3>3. Snapshots(u)' = Snapshots(u) BY <1>0, <1>8, <1>10, <2>1, SnapshotsTurn
    <3>4. Handles(u)' = Handles(u) \cup {th} /\ th \notin Handles(u)
      BY <1>0, <1>1, <1>3, <2>4 DEF Handles, Shapes
    <3>5. IsFiniteSet(Handles(u)') /\ Cardinality(Handles(u)') = Cardinality(Handles(u)) + 1
      BY <3>1, <3>4, FS_AddElement DEF BalancedAt
    <3>6. /\ Cardinality(Handles(u)) \in Nat /\ Cardinality(Linked(u)) \in Nat
          /\ Cardinality(Releases(u)) \in Nat /\ Cardinality(Snapshots(u)) \in Nat
      BY <3>1, FS_CardinalityType DEF BalancedAt
    <3>7. refcount'[u] = refcount[u] + 1 BY <1>0, <1>1, <1>2, <2>4 DEF Shapes
    <3> QED BY <2>2, <3>1, <3>2, <3>3, <3>5, <3>6, <3>7 DEF BalancedAt
  <2> QED BY <2>3, <2>4
<1> QED BY <1>9, <1>12, <1>13, <1>14, <1>15, <1>16, <1>17, <1>18, <1>19, <1>20 DEF IInv

LEMMA LinkStep ==
  ASSUME IInv, NEW th \in Threads, Link(th)
  PROVE  IInv'
<1>0. /\ Shapes /\ Nested /\ Snapped /\ Held /\ Private /\ Balanced /\ Ends /\ Alive
      /\ Covered /\ Reaches
  BY DEF IInv
<1>1. ~Idle(th) /\ Top(th).do = "link" BY DEF Link, Doing
<1>2. PICK low \in Nat, f \in FrameType :
        /\ Len(stack[th]) = low + 1 /\ low + 1 \in Depths(th)
        /\ f = Top(th) /\ f = Call(th, low + 1) /\ Depths(th) = 1..(low + 1)
  BY <1>0, <1>1, Busy
<1>3. f.do = "link" BY <1>1, <1>2
<1>4. PICK c : c = f.tok OBVIOUS
<1>5. PICK p : p = f.of OBVIOUS
<1>6. NestedAt(th, low + 1) /\ SnappedAt(th, low + 1) /\ PrivateAt(th, low + 1)
  BY <1>0, <1>2 DEF Nested, Snapped, Private
<1>7. /\ low = 0 /\ c \in held[th] /\ p \in held[th] /\ f.more = {} /\ f.kids = {}
      /\ parent[c] = None /\ \A x \in Threads \ {th} : c \notin held[x]
  <2>1. low + 1 = 1 /\ c \in held[th] /\ p \in held[th] BY <1>2, <1>3, <1>4, <1>5, <1>6 DEF NestedAt
  <2>2. f.more = {} /\ f.kids = {} BY <1>2, <1>3, <1>6 DEF SnappedAt
  <2>3. parent[c] = None /\ \A x \in Threads \ {th} : c \notin held[x]
    BY <1>2, <1>3, <1>4, <1>6 DEF PrivateAt
  <2> QED BY <1>2, <2>1, <2>2, <2>3
<1>8. c \in Tokens /\ p \in Tokens /\ refcount[c] > 0 /\ refcount[p] > 0
  <2>1. c \in Tokens /\ p \in Tokens BY <1>0, <1>7 DEF Shapes
  <2> QED BY <1>0, <1>7, <2>1, CountFacts
<1>9. UNCHANGED <<memory, refcount, cancelled, deadline, mu, held, baked>> BY DEF Link
<1>10. PICK g \in FrameType :
         /\ Continue(th, <<g>>) /\ g.tok = c /\ g.more = {} /\ g.kids = {}
         /\ \/ cancelled[p] /\ g.do = "request" /\ g.of = None /\ parent' = parent
            \/ ~cancelled[p] /\ g.do = "retain" /\ g.of = p /\ parent' = [parent EXCEPT ![c] = p]
  <2>1. CASE cancelled[p]
    <3>1. Frame("request", c) \in FrameType BY <1>8, FrameTyped DEF Labels
    <3>2. Continue(th, <<Frame("request", c)>>) /\ parent' = parent
      BY <1>2, <1>4, <1>5, <2>1 DEF Link
    <3> QED BY <2>1, <3>1, <3>2 DEF Frame
  <2>2. CASE ~cancelled[p]
    <3>1. PICK g : g = [f EXCEPT !.do = "retain"] OBVIOUS
    <3>2. g \in FrameType /\ g.do = "retain" /\ g.tok = f.tok /\ g.of = f.of
          /\ g.more = f.more /\ g.kids = f.kids
      BY <1>2, <3>1 DEF FrameType, Labels
    <3>3. Continue(th, <<g>>) /\ parent' = [parent EXCEPT ![c] = p]
      BY <1>2, <1>4, <1>5, <2>2, <3>1 DEF Link
    <3> QED BY <1>4, <1>5, <1>7, <2>2, <3>2, <3>3
  <2> QED BY <2>1, <2>2
<1>11. PICK high : high = low + 1 OBVIOUS
<1>12. Acts(th, low, high) /\ stack' \in [Threads -> Seq(FrameType)] /\ Call(th, low + 1)' = g
  BY <1>0, <1>1, <1>2, <1>10, <1>11, OneTurn
<1>13. Shapes'
  <2>1. parent' \in [Tokens -> Tokens \cup {None}] BY <1>0, <1>8, <1>10 DEF Shapes
  <2> QED BY <1>0, <1>9, <1>12, <2>1 DEF Shapes
<1>14. Len(stack'[th]) = 1 /\ Depths(th)' = {1} /\ low + 1 = 1 /\ (low + 1)..high = {1} /\ ~(low > 0)
  BY <1>7, <1>11, <1>12 DEF Acts, Turns, Depths
<1>15. /\ NestedAt(th, 1)' /\ SnappedAt(th, 1)' /\ PrivateAt(th, 1)' /\ ReachesAt(th, 1)'
       /\ EndsAt(th, 1)' /\ Call(th, 1)'.do \notin Ending
  <2>1. Call(th, 1)' = g BY <1>12, <1>14
  <2>2. g.do \in {"request", "retain"} BY <1>10
  <2>3. NestedAt(th, 1)' BY <1>7, <1>9, <1>10, <1>14, <2>1 DEF NestedAt, Cascades
  <2>4. SnappedAt(th, 1)' BY <1>10, <2>1 DEF SnappedAt
  <2>5. PrivateAt(th, 1)' BY <1>0, <1>7, <1>8, <1>9, <1>10, <2>1 DEF PrivateAt, Shapes
  <2>6. ReachesAt(th, 1)' BY <2>1, <2>2 DEF ReachesAt
  <2>7. Call(th, 1)'.do \notin Ending BY <2>1, <2>2 DEF Ending
  <2> QED BY <2>3, <2>4, <2>5, <2>6, <2>7 DEF EndsAt
<1>16. /\ \A d \in Nat : d > low =>
            \A u : /\ ~Is(th, d, {"release"}, u) /\ ~Is(th, d, {"release"}, u)'
                   /\ ~Kept(th, d, u) /\ ~Kept(th, d, u)'
                   /\ ~Is(th, d, {"retain"}, u) /\ ~Is(th, d, {"scan"}, u)
                   /\ ~Is(th, d, {"scan"}, u)' /\ ~On(th, d, u)
                   /\ ~Is(th, d, Ending, u) /\ ~Is(th, d, Ending, u)'
                   /\ ~Is(th, d, Cascades, u)
                   /\ (Is(th, d, {"retain"}, u)' => u = c /\ ~cancelled[p])
       /\ ~cancelled[p] => Is(th, 1, {"retain"}, c)'
  <2>1. Call(th, 1)' = g /\ Call(th, 1) = f BY <1>2, <1>12, <1>14
  <2>2. Depths(th) = {1} BY <1>2, <1>14
  <2>3. g.do \in {"request", "retain"} BY <1>10
  <2> QED BY <1>3, <1>7, <1>10, <1>14, <2>1, <2>2, <2>3 DEF Is, Kept, On, Ending, Cascades
<1>17. 1 \in Nat /\ 1 > low BY <1>7
<1>18. \A x \in Tokens : parent'[x] = parent[x] \/ (x = c /\ parent'[x] = p /\ ~cancelled[p])
  BY <1>0, <1>10 DEF Shapes
<1>19. Nested' BY <1>0, <1>9, <1>12, <1>14, <1>15, NestedTurn
<1>20. Snapped' BY <1>0, <1>7, <1>12, <1>14, <1>15, <1>18, SnappedTurn
<1>21. Held'
  <2>1. \A u \in Tokens : mu[u] # th
    <3>1. \A d \in Depths(th) : \A u : ~Is(th, d, {"scan"}, u) BY <1>2, <1>14, <1>16, <1>17
    <3> QED BY <1>0, <3>1 DEF Held
  <2> QED BY <1>0, <1>9, <1>12, <1>14, <1>16, <1>17, <2>1, HeldTurn
<1>22. Private'
  <2>1. ASSUME NEW x \in Threads \ {th}, NEW u \in Tokens, Is(x, 1, {"link", "retain"}, u)
        PROVE  parent'[u] = parent[u]
    <3>1. u \notin held[th] BY <1>0, <2>1 DEF Private, PrivateAt, Is
    <3> QED BY <1>7, <1>18, <3>1
  <2> QED BY <1>0, <1>9, <1>12, <1>14, <1>15, <2>1, PrivateTurn
<1>23. Ends'
  <2>1. ASSUME NEW x \in Threads, NEW d, NEW u, Keeps(th, low, x, d), Is(x, d, Ending, u)
        PROVE  refcount'[u] = 0 /\ (parent'[u] = None <=> parent[u] = None)
    <3>1. d \in Depths(x) /\ Call(x, d).do \in Ending /\ Call(x, d).tok = u BY <2>1 DEF Is
    <3>2. refcount[u] = 0 /\ u \in Tokens BY <1>0, <3>1, CallTyped DEF Ends, EndsAt, FrameType
    <3>3. u # c BY <1>8, <3>2
    <3> QED BY <1>9, <1>18, <3>2, <3>3
  <2> QED BY <1>0, <1>12, <1>14, <1>15, <2>1, EndsTurn
<1>24. Alive'
  <2>1. ASSUME NEW u \in Tokens PROVE IsEnding(u)' <=> IsEnding(u)
    <3>1. IsEnding(u)' <=> \E x \in Threads : \E d : Keeps(th, low, x, d) /\ Is(x, d, Ending, u)
      BY <1>0, <1>12, <1>14, <1>16, <1>17, EndingTurn
    <3>2. IsEnding(u) <=> \E x \in Threads : \E d : Keeps(th, low, x, d) /\ Is(x, d, Ending, u)
      BY <1>0, <1>12, <1>14, <1>16, <1>17, EndingNow
    <3> QED BY <3>1, <3>2
  <2>2. memory[c] = "live" BY <1>0, <1>8 DEF Alive, AliveAt
  <2> QED BY <1>0, <1>9, <1>18, <2>1, <2>2 DEF Alive, AliveAt
<1>25. Covered'
  <2>1. \A x \in Tokens : Endangered(x)' => Endangered(x) BY <1>9, <1>18 DEF Endangered
  <2> QED BY <1>0, <1>12, <1>14, <1>16, <1>17, <2>1, CoveredTurn
<1>26. Reaches'
  <2>1. ASSUME NEW x \in Tokens, Complete(x) PROVE Complete(x)'
    BY <1>8, <1>9, <1>18, <2>1, CompleteStays
  <2>2. \A x \in Tokens : parent'[x] = None \/ parent'[x] = parent[x] \/ ~cancelled[parent'[x]]
    BY <1>18
  <2> QED BY <1>0, <1>9, <1>12, <1>14, <1>15, <1>16, <1>17, <2>1, <2>2, ReachesTurn
<1>27. Balanced'
  <2> SUFFICES ASSUME NEW u \in Tokens PROVE BalancedAt(u)' BY DEF Balanced
  <2>1. Linked(u)' = Linked(u)
    <3>1. ASSUME NEW x \in Tokens, x # c \/ cancelled[p] PROVE Linking(x)' <=> Linking(x)
      BY <1>0, <1>12, <1>16, <1>17, <3>1, LinkedTurn
    <3>2. ~cancelled[p] => Linking(c)' BY <1>16 DEF Linking
    <3> QED BY <1>7, <1>18, <3>1, <3>2, CancelTreeAssumption DEF Linked
  <2>2. Handles(u)' = Handles(u) BY <1>9 DEF Handles
  <2> QED BY <1>9, <1>12, <1>13, <1>16, <2>1, <2>2, SameCount
<1> QED BY <1>13, <1>19, <1>20, <1>21, <1>22, <1>23, <1>24, <1>25, <1>26, <1>27 DEF IInv

LEMMA RetainStep ==
  ASSUME IInv, NEW th \in Threads, Retain(th)
  PROVE  IInv'
<1>0. /\ Shapes /\ Nested /\ Snapped /\ Held /\ Private /\ Balanced /\ Ends /\ Alive
      /\ Covered /\ Reaches
  BY DEF IInv
<1>1. ~Idle(th) /\ Top(th).do = "retain" BY DEF Retain, Doing
<1>2. PICK low \in Nat, f \in FrameType :
        /\ Len(stack[th]) = low + 1 /\ low + 1 \in Depths(th)
        /\ f = Top(th) /\ f = Call(th, low + 1) /\ Depths(th) = 1..(low + 1)
  BY <1>0, <1>1, Busy
<1>3. f.do = "retain" BY <1>1, <1>2
<1>4. PICK c : c = f.tok OBVIOUS
<1>5. PICK p : p = f.of OBVIOUS
<1>6. NestedAt(th, low + 1) /\ SnappedAt(th, low + 1) /\ PrivateAt(th, low + 1)
  BY <1>0, <1>2 DEF Nested, Snapped, Private
<1>7. /\ low = 0 /\ c \in held[th] /\ p \in held[th] /\ f.more = {} /\ f.kids = {}
      /\ parent[c] = p /\ \A x \in Threads \ {th} : c \notin held[x]
  <2>1. low + 1 = 1 /\ c \in held[th] /\ p \in held[th] BY <1>2, <1>3, <1>4, <1>5, <1>6 DEF NestedAt
  <2>2. f.more = {} /\ f.kids = {} BY <1>2, <1>3, <1>6 DEF SnappedAt
  <2>3. parent[c] = p /\ \A x \in Threads \ {th} : c \notin held[x]
    BY <1>2, <1>3, <1>4, <1>5, <1>6 DEF PrivateAt
  <2> QED BY <1>2, <2>1, <2>2, <2>3
<1>8. c \in Tokens /\ p \in Tokens /\ refcount[p] \in Nat /\ refcount[p] > 0
  <2>1. c \in Tokens /\ p \in Tokens BY <1>0, <1>7 DEF Shapes
  <2> QED BY <1>0, <1>7, <2>1, CountFacts
<1>9. /\ refcount' = [refcount EXCEPT ![p] = @ + 1]
      /\ UNCHANGED <<memory, cancelled, deadline, parent, mu, held, baked>>
  BY <1>2, <1>5 DEF Retain, Plus
<1>10. Acts(th, low, low) /\ stack' \in [Threads -> Seq(FrameType)]
  BY <1>0, <1>1, <1>2, PopTurn DEF Retain
<1>11. Shapes'
  <2>1. refcount' \in [Tokens -> Int] BY <1>0, <1>8, <1>9 DEF Shapes
  <2> QED BY <1>0, <1>9, <1>10, <2>1 DEF Shapes
<1>12. Depths(th)' = {} /\ Depths(th) = {1} /\ low + 1 = 1 /\ (low + 1)..low = {} /\ ~(low > 0)
  BY <1>2, <1>7, <1>10 DEF Acts, Turns, Depths
<1>13. \A d, u : /\ ~Is(th, d, {"release"}, u) /\ ~Is(th, d, {"release"}, u)'
                 /\ ~Kept(th, d, u) /\ ~Kept(th, d, u)' /\ ~On(th, d, u)
                 /\ ~Is(th, d, {"scan"}, u) /\ ~Is(th, d, {"retain"}, u)'
                 /\ ~Is(th, d, Ending, u) /\ ~Is(th, d, Cascades, u)
                 /\ (Is(th, d, {"retain"}, u) => u = c)
  BY <1>2, <1>3, <1>4, <1>7, <1>12 DEF Is, Kept, On, Ending, Cascades
<1>14. \A u \in Tokens : /\ (refcount'[u] > 0 <=> refcount[u] > 0)
                         /\ (refcount'[u] = 0 <=> refcount[u] = 0)
  BY <1>0, <1>8, <1>9 DEF Shapes
<1>15. Nested' /\ Snapped' /\ Private' /\ Ends' /\ Alive' /\ Covered' /\ Reaches'
  <2>1. \A x \in Tokens : Endangered(x)' <=> Endangered(x) BY <1>9, <1>14 DEF Endangered
  <2> QED BY <1>9, <1>10, <1>11, <1>12, <1>13, <1>14, <2>1, Calm
<1>16. Held'
  <2>1. \A u \in Tokens : mu[u] # th BY <1>0, <1>13 DEF Held
  <2> QED BY <1>0, <1>9, <1>10, <1>12, <2>1, HeldTurn
<1>17. ~Linking(c)'
  <2>1. SUFFICES ASSUME NEW x \in Threads, Is(x, 1, {"retain"}, c)' PROVE FALSE BY DEF Linking
  <2>2. x # th BY <1>13, <2>1
  <2>3. Is(x, 1, {"retain"}, c) BY <1>0, <1>10, <2>1, <2>2, KeptRefs
  <2>4. c \in held[x] BY <1>0, <2>3 DEF Nested, NestedAt, Is
  <2> QED BY <1>7, <2>2, <2>4
<1>18. Linking(c)
  <2>1. Is(th, 1, {"retain"}, c) BY <1>2, <1>3, <1>4, <1>12 DEF Is
  <2> QED BY <2>1 DEF Linking
<1>19. ASSUME NEW x \in Tokens, x # c PROVE Linking(x)' <=> Linking(x)
  BY <1>0, <1>10, <1>13, <1>19, LinkedTurn
<1>20. Balanced'
  <2> SUFFICES ASSUME NEW u \in Tokens PROVE BalancedAt(u)' BY DEF Balanced
  <2>1. Handles(u)' = Handles(u) BY <1>9 DEF Handles
  <2>2. CASE u # p
    <3>1. Linked(u)' = Linked(u) BY <1>7, <1>9, <1>19, <2>2 DEF Linked
    <3>2. refcount'[u] = refcount[u] BY <1>0, <1>9, <2>2 DEF Shapes
    <3> QED BY <1>10, <1>11, <1>13, <2>1, <3>1, <3>2, SameCount
  <2>3. CASE u = p
    <3>1. BalancedAt(u) BY <1>0 DEF Balanced
    <3>2. Releases(u)' = Releases(u) BY <1>0, <1>10, <1>13, ReleasesTurn
    <3>3. Snapshots(u)' = Snapshots(u) BY <1>0, <1>10, <1>13, SnapshotsTurn
    <3>4. Linked(u)' = Linked(u) \cup {c} /\ c \notin Linked(u)
      BY <1>7, <1>8, <1>9, <1>17, <1>18, <1>19, <2>3 DEF Linked
    <3>5. IsFiniteSet(Linked(u)') /\ Cardinality(Linked(u)') = Cardinality(Linked(u)) + 1
      BY <3>1, <3>4, FS_AddElement DEF BalancedAt
    <3>6. /\ Cardinality(Handles(u)) \in Nat /\ Cardinality(Linked(u)) \in Nat
          /\ Cardinality(Releases(u)) \in Nat /\ Cardinality(Snapshots(u)) \in Nat
      BY <3>1, FS_CardinalityType DEF BalancedAt
    <3>7. refcount'[u] = refcount[u] + 1 BY <1>0, <1>9, <2>3 DEF Shapes
    <3> QED BY <2>1, <3>1, <3>2, <3>3, <3>5, <3>6, <3>7 DEF BalancedAt
  <2> QED BY <2>2, <2>3
<1> QED BY <1>11, <1>15, <1>16, <1>20 DEF IInv

(* A call of the cascade goes on: the reference it runs on is still there. *)
LEMMA CascadeNested ==
  ASSUME Shapes, Nested, Snapped, NEW th \in Threads, NEW low, NEW high, Acts(th, low, high),
         NEW d, d = low + 1, NEW t, Is(th, d, Cascades, t), held'[th] = held[th]
  PROVE  \/ d = 1 /\ t \in held'[th]
         \/ d > 1 /\ Is(th, d - 1, {"release"}, t)'
<1>1. low \in Nat /\ d - 1 = low BY DEF Acts
<1>2. PICK f : f = Call(th, d) OBVIOUS
<1>3. d \in Depths(th) /\ f.do \in Cascades /\ f.tok = t BY <1>2 DEF Is
<1>4. NestedAt(th, d) BY <1>3 DEF Nested
<1>5. (d = 1 /\ f.tok \in held[th]) \/ (d > 1 /\ Is(th, d - 1, {"release"}, f.tok))
  BY <1>2, <1>3, <1>4 DEF NestedAt
<1>6. ASSUME Is(th, d - 1, {"release"}, t) PROVE Is(th, d - 1, {"release"}, t)'
  <2>1. Is(th, low, {"release"}, t) BY <1>1, <1>6
  <2>2. low <= low BY <1>1
  <2>3. Keeps(th, low, th, low) BY <2>1, <2>2 DEF Keeps, Is
  <2>4. Is(th, low, {"release"}, t)' BY <2>1, <2>3, KeptIs
  <2> QED BY <1>1, <2>4
<1> QED BY <1>3, <1>5, <1>6

(* Calm, for a call of a cascade that goes on at its depth.                *)
LEMMA CalmCascade ==
  ASSUME IInv, Shapes', NEW th \in Threads, NEW low, NEW high, Acts(th, low, high),
         high = low + 1, memory' = memory, parent' = parent, held' = held,
         \A t \in Tokens : (refcount'[t] > 0 <=> refcount[t] > 0) /\ (refcount'[t] = 0 <=> refcount[t] = 0),
         \A t \in Tokens : cancelled[t] => cancelled'[t],
         NEW t, Is(th, low + 1, Cascades, t), Is(th, low + 1, Cascades, t)',
         SnappedAt(th, low + 1)', ReachesAt(th, low + 1)',
         \A c \in Tokens : Endangered(c)' => Endangered(c) \/ On(th, low + 1, c)',
         \A c \in Tokens : Endangered(c)' /\ On(th, low + 1, c) => On(th, low + 1, c)'
  PROVE  Nested' /\ Snapped' /\ Private' /\ Ends' /\ Alive' /\ Covered' /\ Reaches'
<1>0. Shapes /\ Nested /\ Snapped BY DEF IInv
<1>1. low \in Nat /\ low # high /\ low + 1 \in (low + 1)..high
      /\ \A d \in (low + 1)..high : d = low + 1
  BY DEF Acts
<1>2. PICK g : g = Call(th, low + 1)' OBVIOUS
<1>3. g.do \in Cascades /\ g.tok = t BY <1>2 DEF Is
<1>4. NestedAt(th, low + 1)'
  <2>1. PICK d : d = low + 1 OBVIOUS
  <2>2. \/ d = 1 /\ t \in held'[th]
        \/ d > 1 /\ Is(th, d - 1, {"release"}, t)'
    <3>1. Is(th, d, Cascades, t) BY <2>1
    <3> QED BY <1>0, <2>1, <3>1, CascadeNested
  <2>3. Len(stack'[th]) = d BY <2>1 DEF Acts, Turns
  <2>4. g.do \notin {"link", "retain", "sleep", "asleep", "release"} BY <1>3 DEF Cascades
  <2>5. NestedAt(th, d)' BY <1>2, <1>3, <2>1, <2>2, <2>3, <2>4 DEF NestedAt
  <2> QED BY <2>1, <2>5
<1>5. PrivateAt(th, low + 1)' BY <1>2, <1>3 DEF PrivateAt, Cascades
<1>6. g.do \notin Ending BY <1>3 DEF Cascades, Ending
<1>7. /\ \A d \in (low + 1)..high : NestedAt(th, d)'
      /\ \A d \in (low + 1)..high : SnappedAt(th, d)'
      /\ \A d \in (low + 1)..high : PrivateAt(th, d)'
      /\ \A d \in (low + 1)..high : ReachesAt(th, d)'
      /\ \A d \in (low + 1)..high : Call(th, d)'.do \notin Ending
  BY <1>1, <1>2, <1>4, <1>5, <1>6
<1>8. \A u : ~Is(th, low + 1, Ending, u) BY DEF Is, Ending, Cascades
<1>9. \A u \in Tokens : Is(th, low + 1, Cascades, u) => Is(th, low + 1, Cascades, u)' BY DEF Is
<1>10. \A c \in Tokens : On(th, low + 1, c)' => \E d \in (low + 1)..high : On(th, d, c)'
  BY <1>1
<1>11. \A c \in Tokens : Endangered(c)' => Endangered(c) \/ \E d \in (low + 1)..high : On(th, d, c)'
  BY <1>10
<1>12. \A c \in Tokens : Endangered(c)' /\ On(th, low + 1, c) =>
         \E d \in (low + 1)..high : On(th, d, c)'
  BY <1>10
<1> QED BY <1>1, <1>7, <1>8, <1>9, <1>11, <1>12, Calm

LEMMA CompleteCalm ==
  ASSUME parent' = parent, NEW t \in Tokens, Complete(t),
         \A u \in Tokens : refcount'[u] > 0 => refcount[u] > 0,
         \A u \in Tokens : cancelled[u] => cancelled'[u]
  PROVE  Complete(t)'
BY CompleteStays

LEMMA ScanEndStep ==
  ASSUME IInv, NEW th \in Threads, ScanEnd(th)
  PROVE  IInv'
<1>0. /\ Shapes /\ Nested /\ Snapped /\ Held /\ Private /\ Balanced /\ Ends /\ Alive
      /\ Covered /\ Reaches
  BY DEF IInv
<1>1. ~Idle(th) /\ Top(th).do = "scan" /\ Top(th).more = {} BY DEF ScanEnd, Doing
<1>2. PICK low \in Nat, f \in FrameType :
        /\ Len(stack[th]) = low + 1 /\ low + 1 \in Depths(th)
        /\ f = Top(th) /\ f = Call(th, low + 1) /\ Depths(th) = 1..(low + 1)
  BY <1>0, <1>1, Busy
<1>3. f.do = "scan" /\ f.more = {} BY <1>1, <1>2
<1>4. PICK t : t = f.tok OBVIOUS
<1>5. t \in Tokens /\ f.of = None
  BY <1>0, <1>2, <1>3, <1>4 DEF FrameType, Snapped, SnappedAt
<1>6. /\ mu' = [mu EXCEPT ![t] = None]
      /\ UNCHANGED <<memory, refcount, cancelled, deadline, parent, held, baked>>
  BY <1>2, <1>4 DEF ScanEnd
<1>7. PICK g \in FrameType : /\ Continue(th, <<g>>) /\ g.do = "cascade" /\ g.tok = t
                             /\ g.of = f.of /\ g.more = f.more /\ g.kids = f.kids
  <2>1. PICK g : g = [f EXCEPT !.do = "cascade"] OBVIOUS
  <2>2. g \in FrameType /\ g.do = "cascade" /\ g.tok = f.tok /\ g.of = f.of
        /\ g.more = f.more /\ g.kids = f.kids
    BY <1>2, <2>1 DEF FrameType, Labels
  <2>3. Continue(th, <<g>>) BY <1>2, <2>1 DEF ScanEnd
  <2> QED BY <1>4, <2>2, <2>3
<1>8. PICK high : high = low + 1 OBVIOUS
<1>9. Acts(th, low, high) /\ stack' \in [Threads -> Seq(FrameType)] /\ Call(th, low + 1)' = g
  BY <1>0, <1>1, <1>2, <1>7, <1>8, OneTurn
<1>10. Shapes'
  <2>1. mu' \in [Tokens -> Threads \cup {None}] BY <1>0, <1>6 DEF Shapes
  <2> QED BY <1>0, <1>6, <1>9, <2>1 DEF Shapes
<1>11. (low + 1)..high = {low + 1} /\ low + 1 \in Depths(th)'
       /\ \A d \in Nat : d > low => /\ (d \in Depths(th) <=> d = low + 1)
                                    /\ (d \in Depths(th)' <=> d = low + 1)
  <2>1. Depths(th)' = 1..(low + 1) BY <1>8, <1>9 DEF Acts, Turns, Depths
  <2> QED BY <1>2, <1>8, <2>1
<1>12. \A d \in Nat : d > low =>
         \A u : /\ ~Is(th, d, {"release"}, u) /\ ~Is(th, d, {"release"}, u)'
                /\ (Kept(th, d, u)' <=> Kept(th, d, u))
                /\ ~Is(th, d, {"retain"}, u) /\ ~Is(th, d, {"retain"}, u)'
                /\ ~Is(th, d, {"scan"}, u)' /\ (On(th, d, u) => On(th, d, u)')
                /\ ~Is(th, d, Ending, u) /\ (Is(th, d, Cascades, u) <=> u = t /\ d = low + 1)
                /\ (Is(th, d, Cascades, u) => Is(th, d, Cascades, u)')
  BY <1>2, <1>3, <1>4, <1>7, <1>9, <1>11 DEF Is, Kept, On, Ending, Cascades
<1>13. low + 1 \in Nat /\ low + 1 > low BY <1>2
<1>14. Is(th, low + 1, Cascades, t) /\ Is(th, low + 1, Cascades, t)' BY <1>12, <1>13
<1>15. Nested' /\ Snapped' /\ Private' /\ Ends' /\ Alive' /\ Covered' /\ Reaches'
  <2>1. SnappedAt(th, low + 1)'
    <3>1. SnappedAt(th, low + 1) BY <1>0, <1>2 DEF Snapped
    <3> QED BY <1>2, <1>3, <1>5, <1>7, <1>9, <3>1 DEF SnappedAt
  <2>2. ReachesAt(th, low + 1)'
    <3>1. cancelled[t] /\ \A c \in Children(t) :
            \/ c \in f.more \cup f.kids
            \/ low + 1 + 2 \in Depths(th) /\ Is(th, low + 1 + 1, {"release"}, c)
            \/ Complete(c)
      BY <1>0, <1>2, <1>3, <1>4 DEF Reaches, ReachesAt
    <3>2. low + 1 + 2 \notin Depths(th) BY <1>2
    <3>3. \A c \in Tokens : Complete(c) => Complete(c)' BY <1>6, CompleteCalm
    <3> QED BY <1>6, <1>7, <1>9, <3>1, <3>2, <3>3 DEF ReachesAt, Children
  <2>3. \A x \in Tokens : Endangered(x)' <=> Endangered(x) BY <1>6 DEF Endangered
  <2>4. \A x \in Tokens : On(th, low + 1, x) => On(th, low + 1, x)' BY <1>12, <1>13
  <2> QED BY <1>6, <1>8, <1>9, <1>10, <1>14, <2>1, <2>2, <2>3, <2>4, CalmCascade
<1>16. Held'
  <2>1. ASSUME NEW u \in Tokens, mu[u] = th PROVE u = t
    <3>1. PICK d \in Depths(th) : Is(th, d, {"scan"}, u) BY <1>0, <2>1 DEF Held
    <3>2. d = low + 1 BY <1>0, <1>2, <3>1 DEF Nested, NestedAt, Is
    <3> QED BY <1>2, <1>4, <3>1, <3>2 DEF Is
  <2>2. mu[t] = th BY <1>0, <1>2, <1>3, <1>4, <1>5 DEF Held, Is
  <2>3. \A u \in Tokens : mu'[u] # th BY <1>0, <1>6, <2>1, CancelTreeAssumption DEF Shapes
  <2>4. \A u \in Tokens : \A x \in Threads \ {th} : mu'[u] = x <=> mu[u] = x
    BY <1>0, <1>6, <2>2, CancelTreeAssumption DEF Shapes
  <2> QED BY <1>0, <1>9, <1>11, <1>12, <1>13, <2>3, <2>4, HeldTurn
<1>17. Balanced'
  <2> SUFFICES ASSUME NEW u \in Tokens PROVE BalancedAt(u)' BY DEF Balanced
  <2>1. Handles(u)' = Handles(u) /\ Linked(u)' = Linked(u)
    <3>1. low = 0 => \A c \in Tokens : (Is(th, 1, {"retain"}, c)' <=> Is(th, 1, {"retain"}, c))
      BY <1>12, <1>13
    <3> QED BY <1>0, <1>6, <1>9, <3>1, SameSets
  <2> QED BY <1>6, <1>9, <1>10, <1>12, <2>1, SameCount
<1> QED BY <1>10, <1>15, <1>16, <1>17 DEF IInv

LEMMA RequestStep ==
  ASSUME IInv, NEW th \in Threads, Request(th)
  PROVE  IInv'
<1>0. /\ Shapes /\ Nested /\ Snapped /\ Held /\ Private /\ Balanced /\ Ends /\ Alive
      /\ Covered /\ Reaches
  BY DEF IInv
<1>1. ~Idle(th) /\ Top(th).do = "request" BY DEF Request, Doing
<1>2. PICK low \in Nat, f \in FrameType :
        /\ Len(stack[th]) = low + 1 /\ low + 1 \in Depths(th)
        /\ f = Top(th) /\ f = Call(th, low + 1) /\ Depths(th) = 1..(low + 1)
  BY <1>0, <1>1, Busy
<1>3. f.do = "request" BY <1>1, <1>2
<1>4. PICK t : t = f.tok OBVIOUS
<1>5. t \in Tokens /\ f.of = None /\ f.more = {} /\ f.kids = {}
  <2>1. SnappedAt(th, low + 1) BY <1>0, <1>2 DEF Snapped
  <2> QED BY <1>2, <1>3, <1>4, <2>1 DEF FrameType, SnappedAt
<1>6. /\ mu[t] = None /\ mu' = [mu EXCEPT ![t] = th]
      /\ cancelled' = [cancelled EXCEPT ![t] = TRUE]
      /\ UNCHANGED <<memory, refcount, deadline, parent, held, baked>>
  BY <1>2, <1>4 DEF Request, Free
<1>7. PICK g \in FrameType : /\ stack' = [Broadcast(t) EXCEPT ![th] = <<g>> \o Tail(@)]
                             /\ g.do = "scan" /\ g.tok = t /\ g.of = None
                             /\ g.more = Children(t) /\ g.kids = {}
  <2>1. PICK g : g = [f EXCEPT !.do = "scan", !.more = Children(t)] OBVIOUS
  <2>2. g \in FrameType /\ g.do = "scan" /\ g.tok = f.tok /\ g.of = f.of
        /\ g.more = Children(t) /\ g.kids = f.kids
    BY <1>2, <2>1 DEF FrameType, Labels, Children
  <2>3. stack' = [Broadcast(t) EXCEPT ![th] = <<g>> \o Tail(@)] BY <1>2, <1>4, <2>1 DEF Request
  <2> QED BY <1>4, <1>5, <2>2, <2>3
<1>8. PICK high : high = low + 1 OBVIOUS
<1>9. Acts(th, low, high) /\ stack' \in [Threads -> Seq(FrameType)] /\ Call(th, low + 1)' = g
  <2>1. ~Asleep(th, t) BY <1>1 DEF Asleep, Doing
  <2> QED BY <1>0, <1>1, <1>2, <1>5, <1>7, <1>8, <2>1, BroadcastTurn
<1>10. Shapes'
  <2>1. mu' \in [Tokens -> Threads \cup {None}] BY <1>0, <1>6 DEF Shapes
  <2>2. cancelled' \in [Tokens -> BOOLEAN] BY <1>0, <1>6 DEF Shapes
  <2> QED BY <1>0, <1>6, <1>9, <2>1, <2>2 DEF Shapes
<1>11. (low + 1)..high = {low + 1} /\ low + 1 \in Depths(th)'
       /\ \A d \in Nat : d > low => /\ (d \in Depths(th) <=> d = low + 1)
                                    /\ (d \in Depths(th)' <=> d = low + 1)
  <2>1. Depths(th)' = 1..(low + 1) BY <1>8, <1>9 DEF Acts, Turns, Depths
  <2> QED BY <1>2, <1>8, <2>1
<1>12. \A d \in Nat : d > low =>
         \A u : /\ ~Is(th, d, {"release"}, u) /\ ~Is(th, d, {"release"}, u)'
                /\ ~Kept(th, d, u)' /\ ~Kept(th, d, u)
                /\ ~Is(th, d, {"retain"}, u) /\ ~Is(th, d, {"retain"}, u)'
                /\ ~Is(th, d, {"scan"}, u) /\ (Is(th, d, {"scan"}, u)' <=> u = t /\ d = low + 1)
  BY <1>2, <1>3, <1>4, <1>5, <1>7, <1>9, <1>11 DEF Is, Kept
<1>13. low + 1 \in Nat /\ low + 1 > low BY <1>2
<1>14. Is(th, low + 1, Cascades, t) /\ Is(th, low + 1, Cascades, t)'
  BY <1>2, <1>3, <1>4, <1>7, <1>9, <1>11 DEF Is, Cascades
<1>15. cancelled'[t] = TRUE /\ \A u \in Tokens : u # t => cancelled'[u] = cancelled[u]
  BY <1>0, <1>5, <1>6 DEF Shapes
<1>16. Nested' /\ Snapped' /\ Private' /\ Ends' /\ Alive' /\ Covered' /\ Reaches'
  <2>1. SnappedAt(th, low + 1)' BY <1>6, <1>7, <1>9 DEF SnappedAt, Children
  <2>2. ReachesAt(th, low + 1)' BY <1>6, <1>7, <1>9, <1>15 DEF ReachesAt, Children
  <2>3. ASSUME NEW x \in Tokens, Endangered(x)' PROVE Endangered(x) \/ On(th, low + 1, x)'
    <3>1. CASE parent[x] = t
      <4>1. x \in g.more BY <1>7, <3>1 DEF Children
      <4> QED BY <1>9, <1>11, <4>1 DEF On
    <3>2. CASE parent[x] # t
      <4>1. parent[x] \in Tokens BY <1>0, <1>6, <2>3 DEF Endangered, Shapes
      <4> QED BY <1>6, <1>15, <2>3, <3>2, <4>1 DEF Endangered
    <3> QED BY <3>1, <3>2
  <2>4. ASSUME NEW x \in Tokens, Endangered(x)', On(th, low + 1, x) PROVE FALSE
    <3>1. x = t BY <1>2, <1>4, <1>5, <2>4 DEF On, Is
    <3> QED BY <1>15, <2>4, <3>1 DEF Endangered
  <2>5. \A u \in Tokens : cancelled[u] => cancelled'[u] BY <1>15
  <2> QED BY <1>6, <1>8, <1>9, <1>10, <1>14, <2>1, <2>2, <2>3, <2>4, <2>5, CalmCascade
<1>17. Held'
  <2>1. ASSUME NEW u \in Tokens PROVE mu[u] # th
    <3>1. ASSUME NEW d \in Depths(th), Is(th, d, {"scan"}, u) PROVE FALSE
      <4>1. d = low + 1 BY <1>0, <1>2, <3>1 DEF Nested, NestedAt, Is
      <4> QED BY <1>12, <1>13, <3>1, <4>1
    <3> QED BY <1>0, <3>1 DEF Held
  <2>2. \A u \in Tokens : mu'[u] = th <=> u = t BY <1>0, <1>6, <2>1 DEF Shapes
  <2>3. \A u \in Tokens : \A x \in Threads \ {th} : mu'[u] = x <=> mu[u] = x
    BY <1>0, <1>6, CancelTreeAssumption DEF Shapes
  <2> QED BY <1>0, <1>9, <1>11, <1>12, <1>13, <2>2, <2>3, HeldTurn
<1>18. Balanced'
  <2> SUFFICES ASSUME NEW u \in Tokens PROVE BalancedAt(u)' BY DEF Balanced
  <2>1. Handles(u)' = Handles(u) /\ Linked(u)' = Linked(u)
    <3>1. low = 0 => \A c \in Tokens : (Is(th, 1, {"retain"}, c)' <=> Is(th, 1, {"retain"}, c))
      BY <1>12, <1>13
    <3> QED BY <1>0, <1>6, <1>9, <3>1, SameSets
  <2> QED BY <1>6, <1>9, <1>10, <1>12, <2>1, SameCount
<1> QED BY <1>10, <1>16, <1>17, <1>18 DEF IInv

LEMMA ScanStep ==
  ASSUME IInv, NEW th \in Threads, Scan(th)
  PROVE  IInv'
<1>0. /\ Shapes /\ Nested /\ Snapped /\ Held /\ Private /\ Balanced /\ Ends /\ Alive
      /\ Covered /\ Reaches
  BY DEF IInv
<1>1. ~Idle(th) /\ Top(th).do = "scan" BY DEF Scan, Doing
<1>2. PICK low \in Nat, f \in FrameType :
        /\ Len(stack[th]) = low + 1 /\ low + 1 \in Depths(th)
        /\ f = Top(th) /\ f = Call(th, low + 1) /\ Depths(th) = 1..(low + 1)
  BY <1>0, <1>1, Busy
<1>3. f.do = "scan" BY <1>1, <1>2
<1>4. PICK t : t = f.tok OBVIOUS
<1>5. /\ t \in Tokens /\ f.of = None /\ f.more \cap f.kids = {} /\ f.more \subseteq Children(t)
      /\ f.more \subseteq Tokens /\ f.kids \subseteq Tokens
  <2>1. SnappedAt(th, low + 1) BY <1>0, <1>2 DEF Snapped
  <2> QED BY <1>2, <1>3, <1>4, <2>1 DEF FrameType, SnappedAt
<1>6. UNCHANGED <<memory, cancelled, deadline, parent, mu, held, baked>> BY DEF Scan
<1>7. PICK c \in f.more :
        IF refcount[c] = 0
        THEN /\ Continue(th, <<[f EXCEPT !.more = @ \ {c}]>>)
             /\ UNCHANGED refcount
        ELSE /\ Continue(th, <<[f EXCEPT !.more = @ \ {c}, !.kids = @ \cup {c}]>>)
             /\ refcount' = [refcount EXCEPT ![c] = @ + 1]
  BY <1>2 DEF Scan, Plus
<1>8. c \in Tokens /\ c \notin f.kids /\ refcount[c] \in Nat BY <1>0, <1>5, CountFacts
<1>9. PICK g \in FrameType :
        /\ Continue(th, <<g>>) /\ g.do = "scan" /\ g.tok = t /\ g.of = None /\ g.more = f.more \ {c}
        /\ \/ refcount[c] = 0 /\ g.kids = f.kids /\ refcount' = refcount
           \/ /\ refcount[c] # 0 /\ g.kids = f.kids \cup {c}
              /\ refcount' = [refcount EXCEPT ![c] = @ + 1]
  <2>1. CASE refcount[c] = 0
    <3>1. PICK g : g = [f EXCEPT !.more = @ \ {c}] OBVIOUS
    <3>2. g \in FrameType /\ g.do = f.do /\ g.tok = f.tok /\ g.of = f.of
          /\ g.more = f.more \ {c} /\ g.kids = f.kids
      BY <1>2, <3>1 DEF FrameType
    <3>3. Continue(th, <<g>>) /\ refcount' = refcount BY <1>7, <2>1, <3>1
    <3> QED BY <1>3, <1>4, <1>5, <2>1, <3>2, <3>3
  <2>2. CASE refcount[c] # 0
    <3>1. PICK g : g = [f EXCEPT !.more = @ \ {c}, !.kids = @ \cup {c}] OBVIOUS
    <3>2. g \in FrameType /\ g.do = f.do /\ g.tok = f.tok /\ g.of = f.of
          /\ g.more = f.more \ {c} /\ g.kids = f.kids \cup {c}
      BY <1>2, <1>8, <3>1 DEF FrameType
    <3>3. Continue(th, <<g>>) /\ refcount' = [refcount EXCEPT ![c] = @ + 1] BY <1>7, <2>2, <3>1
    <3> QED BY <1>3, <1>4, <1>5, <2>2, <3>2, <3>3
  <2> QED BY <2>1, <2>2
<1>10. PICK high : high = low + 1 OBVIOUS
<1>11. Acts(th, low, high) /\ stack' \in [Threads -> Seq(FrameType)] /\ Call(th, low + 1)' = g
  BY <1>0, <1>1, <1>2, <1>9, <1>10, OneTurn
<1>12. Shapes'
  <2>1. refcount' \in [Tokens -> Int] BY <1>0, <1>8, <1>9 DEF Shapes
  <2> QED BY <1>0, <1>6, <1>11, <2>1 DEF Shapes
<1>13. (low + 1)..high = {low + 1} /\ low + 1 \in Depths(th)'
       /\ \A d \in Nat : d > low => /\ (d \in Depths(th) <=> d = low + 1)
                                    /\ (d \in Depths(th)' <=> d = low + 1)
  <2>1. Depths(th)' = 1..(low + 1) BY <1>10, <1>11 DEF Acts, Turns, Depths
  <2> QED BY <1>2, <1>10, <2>1
<1>14. \A d \in Nat : d > low =>
         \A u : /\ ~Is(th, d, {"release"}, u) /\ ~Is(th, d, {"release"}, u)'
                /\ (Kept(th, d, u) <=> d = low + 1 /\ u \in f.kids)
                /\ (Kept(th, d, u)' <=> d = low + 1 /\ u \in g.kids)
                /\ ~Is(th, d, {"retain"}, u) /\ ~Is(th, d, {"retain"}, u)'
                /\ (Is(th, d, {"scan"}, u) <=> u = t /\ d = low + 1)
                /\ (Is(th, d, {"scan"}, u)' <=> u = t /\ d = low + 1)
  BY <1>2, <1>3, <1>4, <1>9, <1>11, <1>13 DEF Is, Kept
<1>15. low + 1 \in Nat /\ low + 1 > low BY <1>2
<1>16. Is(th, low + 1, Cascades, t) /\ Is(th, low + 1, Cascades, t)'
  BY <1>2, <1>3, <1>4, <1>9, <1>11, <1>13 DEF Is, Cascades
<1>17. \A u \in Tokens : /\ (refcount'[u] > 0 <=> refcount[u] > 0)
                         /\ (refcount'[u] = 0 <=> refcount[u] = 0)
  BY <1>0, <1>8, <1>9 DEF Shapes
<1>18. Nested' /\ Snapped' /\ Private' /\ Ends' /\ Alive' /\ Covered' /\ Reaches'
  <2>1. SnappedAt(th, low + 1)'
    <3>1. g.more \cap g.kids = {} /\ g.more \subseteq Children(t) BY <1>5, <1>8, <1>9
    <3> QED BY <1>6, <1>9, <1>11, <3>1 DEF SnappedAt, Children
  <2>2. ReachesAt(th, low + 1)'
    <3>1. cancelled[t] /\ \A x \in Children(t) :
            \/ x \in f.more \cup f.kids
            \/ low + 1 + 2 \in Depths(th) /\ Is(th, low + 1 + 1, {"release"}, x)
            \/ Complete(x)
      BY <1>0, <1>2, <1>3, <1>4 DEF Reaches, ReachesAt
    <3>2. low + 1 + 2 \notin Depths(th) BY <1>2
    <3>3. \A x \in Tokens : Complete(x) => Complete(x)' BY <1>6, <1>17, CompleteCalm
    <3>4. refcount[c] = 0 => Complete(c) BY <1>0, <1>8, DeadComplete
    <3>5. \A x \in Children(t) : x \in g.more \cup g.kids \/ Complete(x)'
      BY <1>9, <3>1, <3>2, <3>3, <3>4 DEF Children
    <3> QED BY <1>6, <1>9, <1>11, <3>1, <3>5 DEF ReachesAt, Children
  <2>3. \A x \in Tokens : Endangered(x)' <=> Endangered(x) BY <1>6, <1>17 DEF Endangered
  <2>4. ASSUME NEW x \in Tokens, Endangered(x), On(th, low + 1, x) PROVE On(th, low + 1, x)'
    <3>1. x \in f.more \cup f.kids BY <1>2, <1>3, <2>4 DEF On, Is
    <3>2. x \in g.more \cup g.kids
      <4>1. CASE x = c /\ refcount[c] = 0 BY <2>4, <4>1 DEF Endangered
      <4> QED BY <1>9, <3>1, <4>1
    <3> QED BY <1>11, <1>13, <3>2 DEF On
  <2> QED BY <1>6, <1>10, <1>11, <1>12, <1>16, <1>17, <2>1, <2>2, <2>3, <2>4, CalmCascade
<1>19. Held'
  <2>1. ASSUME NEW u \in Tokens PROVE mu[u] = th <=> u = t
    <3>1. ASSUME NEW d \in Depths(th), Is(th, d, {"scan"}, u) PROVE u = t
      <4>1. d = low + 1 BY <1>0, <1>2, <3>1 DEF Nested, NestedAt, Is
      <4> QED BY <1>14, <1>15, <3>1, <4>1
    <3>2. Is(th, low + 1, {"scan"}, t) BY <1>14, <1>15
    <3> QED BY <1>0, <1>2, <3>1, <3>2 DEF Held
  <2> QED BY <1>0, <1>6, <1>11, <1>13, <1>14, <1>15, <2>1, HeldTurn
<1>20. Balanced'
  <2> SUFFICES ASSUME NEW u \in Tokens PROVE BalancedAt(u)' BY DEF Balanced
  <2>1. Handles(u)' = Handles(u) /\ Linked(u)' = Linked(u)
    <3>1. low = 0 => \A x \in Tokens : (Is(th, 1, {"retain"}, x)' <=> Is(th, 1, {"retain"}, x))
      BY <1>14, <1>15
    <3> QED BY <1>0, <1>6, <1>11, <3>1, SameSets
  <2>2. CASE u # c \/ refcount[c] = 0
    <3>1. refcount'[u] = refcount[u] BY <1>0, <1>9, <2>2 DEF Shapes
    <3>2. u \in g.kids <=> u \in f.kids BY <1>9, <2>2
    <3> QED BY <1>11, <1>12, <1>14, <2>1, <3>1, <3>2, SameCount
  <2>3. CASE u = c /\ refcount[c] # 0
    <3>1. BalancedAt(u) BY <1>0 DEF Balanced
    <3>2. Releases(u)' = Releases(u) BY <1>0, <1>11, <1>14, ReleasesTurn
    <3>3. /\ Kept(th, low + 1, u)' /\ ~Kept(th, low + 1, u)
          /\ \A d \in Nat : d > low /\ d # low + 1 => (Kept(th, d, u)' <=> Kept(th, d, u))
      BY <1>8, <1>9, <1>14, <1>15, <2>3
    <3>4. IsFiniteSet(Snapshots(u)') /\ Cardinality(Snapshots(u)') = Cardinality(Snapshots(u)) + 1
      BY <1>0, <1>11, <1>15, <3>1, <3>3, SnapshotsTurn DEF BalancedAt
    <3>5. /\ Cardinality(Handles(u)) \in Nat /\ Cardinality(Linked(u)) \in Nat
          /\ Cardinality(Releases(u)) \in Nat /\ Cardinality(Snapshots(u)) \in Nat
      BY <3>1, FS_CardinalityType DEF BalancedAt
    <3>6. refcount'[u] = refcount[u] + 1 BY <1>0, <1>8, <1>9, <2>3 DEF Shapes
    <3> QED BY <2>1, <3>1, <3>2, <3>4, <3>5, <3>6 DEF BalancedAt
  <2> QED BY <2>2, <2>3
<1> QED BY <1>12, <1>18, <1>19, <1>20 DEF IInv

LEMMA NoScan ==
  ASSUME Shapes, Nested, Held, NEW th \in Threads, NEW low \in Nat, Len(stack[th]) = low + 1,
         Call(th, low + 1).do # "scan"
  PROVE  \A u \in Tokens : mu[u] # th
<1>1. ASSUME NEW u \in Tokens, NEW d \in Depths(th), Is(th, d, {"scan"}, u) PROVE FALSE
  <2>1. d = low + 1 BY <1>1 DEF Nested, NestedAt, Is
  <2> QED BY <1>1, <2>1 DEF Is
<1> QED BY <1>1 DEF Held

LEMMA CascadeEnds ==
  ASSUME IInv, NEW th \in Threads, Cascade(th), Top(th).kids = {}
  PROVE  IInv'
<1>0. /\ Shapes /\ Nested /\ Snapped /\ Held /\ Private /\ Balanced /\ Ends /\ Alive
      /\ Covered /\ Reaches
  BY DEF IInv
<1>1. ~Idle(th) /\ Top(th).do = "cascade" BY DEF Cascade, Doing
<1>2. PICK low \in Nat, f \in FrameType :
        /\ Len(stack[th]) = low + 1 /\ low + 1 \in Depths(th)
        /\ f = Top(th) /\ f = Call(th, low + 1) /\ Depths(th) = 1..(low + 1)
  BY <1>0, <1>1, Busy
<1>3. f.do = "cascade" /\ f.kids = {} BY <1>1, <1>2
<1>4. PICK t : t = f.tok OBVIOUS
<1>5. t \in Tokens /\ f.more = {}
  <2>1. SnappedAt(th, low + 1) BY <1>0, <1>2 DEF Snapped
  <2> QED BY <1>2, <1>3, <1>4, <2>1 DEF FrameType, SnappedAt
<1>6. UNCHANGED <<memory, refcount, cancelled, deadline, parent, mu, held, baked>> BY DEF Cascade
<1>7. PICK high : high = low OBVIOUS
<1>8. Acts(th, low, high) /\ stack' \in [Threads -> Seq(FrameType)]
  BY <1>0, <1>1, <1>2, <1>7, PopTurn DEF Cascade
<1>9. Shapes' BY <1>0, <1>6, <1>8 DEF Shapes
<1>10. /\ (low + 1)..high = {} /\ ~(high > low)
       /\ \A d \in Nat : d > low => (d \in Depths(th) <=> d = low + 1) /\ d \notin Depths(th)'
  <2>1. Depths(th)' = 1..low BY <1>7, <1>8 DEF Acts, Turns, Depths
  <2> QED BY <1>2, <1>7, <2>1
<1>11. \A d \in Nat : d > low =>
         \A u : /\ ~Is(th, d, {"release"}, u) /\ ~Is(th, d, {"release"}, u)'
                /\ ~Kept(th, d, u) /\ ~Kept(th, d, u)'
                /\ ~Is(th, d, {"retain"}, u) /\ ~Is(th, d, {"retain"}, u)'
                /\ ~On(th, d, u) /\ ~Is(th, d, Ending, u) /\ (Is(th, d, Cascades, u) => u = t)
  BY <1>2, <1>3, <1>4, <1>5, <1>10 DEF Is, Kept, On, Ending, Cascades
<1>12. low + 1 \in Nat /\ low + 1 > low BY <1>2
<1>13. Complete(t)
  <2>1. cancelled[t] /\ \A c \in Children(t) :
          \/ c \in f.more \cup f.kids
          \/ low + 1 + 2 \in Depths(th) /\ Is(th, low + 1 + 1, {"release"}, c)
          \/ Complete(c)
    BY <1>0, <1>2, <1>3, <1>4 DEF Reaches, ReachesAt
  <2>2. low + 1 + 2 \notin Depths(th) BY <1>2
  <2>3. \A c \in Children(t) : Complete(c) BY <1>3, <1>5, <2>1, <2>2
  <2> QED BY <1>5, <2>1, <2>3, CompleteByChildren
<1>14. Nested' /\ Snapped' /\ Private' /\ Ends' /\ Alive' /\ Covered' /\ Reaches'
  <2>1. \A x \in Tokens : Endangered(x)' <=> Endangered(x) BY <1>6 DEF Endangered
  <2>2. \A u \in Tokens : high = low /\ Is(th, low + 1, Cascades, u) => Complete(u)
    BY <1>11, <1>12, <1>13
  <2>3. \A u : ~Is(th, low + 1, Ending, u) /\ ~On(th, low + 1, u) BY <1>11, <1>12
  <2> QED BY <1>6, <1>8, <1>9, <1>10, <2>1, <2>2, <2>3, Calm
<1>15. Held'
  <2>1. \A u \in Tokens : mu[u] # th BY <1>0, <1>2, <1>3, NoScan
  <2> QED BY <1>0, <1>6, <1>8, <1>10, <2>1, HeldTurn
<1>16. Balanced'
  <2> SUFFICES ASSUME NEW u \in Tokens PROVE BalancedAt(u)' BY DEF Balanced
  <2>1. Handles(u)' = Handles(u) /\ Linked(u)' = Linked(u)
    <3>1. low = 0 => \A c \in Tokens : (Is(th, 1, {"retain"}, c)' <=> Is(th, 1, {"retain"}, c))
      BY <1>11, <1>12
    <3> QED BY <1>0, <1>6, <1>8, <3>1, SameSets
  <2> QED BY <1>6, <1>8, <1>9, <1>11, <2>1, SameCount
<1> QED BY <1>9, <1>14, <1>15, <1>16 DEF IInv

LEMMA CascadeOn ==
  ASSUME IInv, NEW th \in Threads, Cascade(th), Top(th).kids # {}
  PROVE  IInv'
<1>0. /\ Shapes /\ Nested /\ Snapped /\ Held /\ Private /\ Balanced /\ Ends /\ Alive
      /\ Covered /\ Reaches
  BY DEF IInv
<1>1. ~Idle(th) /\ Top(th).do = "cascade" BY DEF Cascade, Doing
<1>2. PICK low \in Nat, f \in FrameType :
        /\ Len(stack[th]) = low + 1 /\ low + 1 \in Depths(th)
        /\ f = Top(th) /\ f = Call(th, low + 1) /\ Depths(th) = 1..(low + 1)
  BY <1>0, <1>1, Busy
<1>3. f.do = "cascade" BY <1>1, <1>2
<1>4. PICK t : t = f.tok OBVIOUS
<1>5. t \in Tokens /\ f.of = None /\ f.more = {} /\ f.kids \subseteq Tokens
  <2>1. SnappedAt(th, low + 1) BY <1>0, <1>2 DEF Snapped
  <2> QED BY <1>2, <1>3, <1>4, <2>1 DEF FrameType, SnappedAt
<1>6. UNCHANGED <<memory, refcount, cancelled, deadline, parent, mu, held, baked>> BY DEF Cascade
<1>7. PICK c \in f.kids :
        Continue(th, <<Frame("request", c), Frame("release", c), [f EXCEPT !.kids = @ \ {c}]>>)
  BY <1>2 DEF Cascade
<1>8. c \in Tokens BY <1>5
<1>9. PICK h \in FrameType : /\ h = [f EXCEPT !.kids = @ \ {c}] /\ h.do = "cascade" /\ h.tok = t
                             /\ h.of = None /\ h.more = {} /\ h.kids = f.kids \ {c}
  <2>1. PICK h : h = [f EXCEPT !.kids = @ \ {c}] OBVIOUS
  <2>2. h \in FrameType /\ h.do = f.do /\ h.tok = f.tok /\ h.of = f.of
        /\ h.more = f.more /\ h.kids = f.kids \ {c}
    BY <1>2, <2>1 DEF FrameType
  <2> QED BY <1>3, <1>4, <1>5, <2>1, <2>2
<1>10. PICK g \in FrameType : /\ g = Frame("release", c) /\ g.do = "release" /\ g.tok = c
                              /\ g.of = None /\ g.more = {} /\ g.kids = {}
  <2>1. Frame("release", c) \in FrameType BY <1>8, FrameTyped DEF Labels
  <2> QED BY <2>1 DEF Frame
<1>11. PICK e \in FrameType : /\ e = Frame("request", c) /\ e.do = "request" /\ e.tok = c
                              /\ e.of = None /\ e.more = {} /\ e.kids = {}
  <2>1. Frame("request", c) \in FrameType BY <1>8, FrameTyped DEF Labels
  <2> QED BY <2>1 DEF Frame
<1>12. PICK high : high = low + 3 OBVIOUS
<1>13. /\ Acts(th, low, high) /\ stack' \in [Threads -> Seq(FrameType)]
       /\ Call(th, low + 1)' = h /\ Call(th, low + 2)' = g /\ Call(th, low + 3)' = e
  <2>1. Continue(th, <<e, g, h>>) BY <1>7, <1>9, <1>10, <1>11
  <2>2. /\ Acts(th, low, low + 3) /\ stack' \in [Threads -> Seq(FrameType)]
        /\ Call(th, low + 1)' = h /\ Call(th, low + 2)' = g /\ Call(th, low + 3)' = e
    BY <1>0, <1>1, <1>2, <2>1, ThreeTurn
  <2> QED BY <1>12, <2>2
<1>14. Shapes' BY <1>0, <1>6, <1>13 DEF Shapes
<1>15. Len(stack'[th]) = low + 3 /\ Depths(th)' = 1..(low + 3)
  BY <1>12, <1>13 DEF Acts, Turns, Depths
<1>16. /\ \A d \in (low + 1)..high : d = low + 1 \/ d = low + 2 \/ d = low + 3
       /\ low + 1 \in (low + 1)..high /\ low + 2 \in (low + 1)..high /\ low + 3 \in (low + 1)..high
       /\ low + 1 \in Depths(th)' /\ low + 2 \in Depths(th)' /\ low + 3 \in Depths(th)'
       /\ low + 1 \in Nat /\ low + 2 \in Nat /\ low + 3 \in Nat
       /\ low + 1 > low /\ low + 2 > low /\ low + 2 # low + 1 /\ low + 3 # low + 2
       /\ low + 3 # low + 1 /\ high # low
       /\ \A d \in Nat : d > low =>
            /\ d \in Depths(th) <=> d = low + 1
            /\ d \in Depths(th)' <=> d = low + 1 \/ d = low + 2 \/ d = low + 3
  BY <1>2, <1>12, <1>15
<1>17. \A d \in Nat : d > low =>
         \A u : /\ ~Is(th, d, {"release"}, u)
                /\ (Is(th, d, {"release"}, u)' <=> u = c /\ d = low + 2)
                /\ (Kept(th, d, u) <=> d = low + 1 /\ u \in f.kids)
                /\ (Kept(th, d, u)' <=> d = low + 1 /\ u \in f.kids /\ u # c)
                /\ ~Is(th, d, {"retain"}, u) /\ ~Is(th, d, {"retain"}, u)'
                /\ ~Is(th, d, {"scan"}, u)'
                /\ ~Is(th, d, Ending, u) /\ (Is(th, d, Cascades, u) <=> u = t /\ d = low + 1)
  BY <1>2, <1>3, <1>4, <1>5, <1>9, <1>10, <1>11, <1>13, <1>16 DEF Is, Kept, Ending, Cascades
<1>18. /\ Is(th, low + 1, Cascades, t) /\ Is(th, low + 1, Cascades, t)'
       /\ Is(th, low + 2, {"release"}, c)' /\ Is(th, low + 3, {"request"}, c)'
       /\ Is(th, low + 3, Cascades, c)'
  BY <1>2, <1>3, <1>4, <1>9, <1>10, <1>11, <1>13, <1>16 DEF Is, Cascades
<1>19. ASSUME NEW d \in (low + 1)..high
       PROVE  /\ NestedAt(th, d)' /\ SnappedAt(th, d)' /\ PrivateAt(th, d)' /\ ReachesAt(th, d)'
              /\ Call(th, d)'.do \notin Ending
  <2>1. CASE d = low + 1
    <3>1. Call(th, d)' = h BY <1>13, <2>1
    <3>2. \/ d = 1 /\ t \in held'[th]
          \/ d > 1 /\ Is(th, d - 1, {"release"}, t)'
      <4>1. Is(th, d, Cascades, t) BY <1>18, <2>1
      <4> QED BY <1>0, <1>6, <1>13, <2>1, <4>1, CascadeNested
    <3>3. NestedAt(th, d)' BY <1>9, <3>1, <3>2 DEF NestedAt
    <3>4. SnappedAt(th, d)' BY <1>9, <3>1 DEF SnappedAt
    <3>5. PrivateAt(th, d)' BY <1>9, <3>1 DEF PrivateAt
    <3>6. ReachesAt(th, d)'
      <4>1. cancelled[t] /\ \A x \in Children(t) :
              \/ x \in f.more \cup f.kids
              \/ low + 1 + 2 \in Depths(th) /\ Is(th, low + 1 + 1, {"release"}, x)
              \/ Complete(x)
        BY <1>0, <1>2, <1>3, <1>4 DEF Reaches, ReachesAt
      <4>2. low + 1 + 2 \notin Depths(th) BY <1>2
      <4>3. \A x \in Tokens : Complete(x) => Complete(x)' BY <1>6, CompleteCalm
      <4>4. d + 2 \in Depths(th)' /\ Is(th, d + 1, {"release"}, c)'
        <5>1. d + 2 = low + 3 /\ d + 1 = low + 2 BY <1>2, <2>1
        <5> QED BY <1>16, <1>18, <5>1
      <4>5. \A x \in Children(t) : x \in h.kids \/ x = c \/ Complete(x)'
        BY <1>5, <1>9, <4>1, <4>2, <4>3 DEF Children
      <4> QED BY <1>6, <1>9, <3>1, <4>1, <4>4, <4>5 DEF ReachesAt, Children
    <3> QED BY <1>9, <3>1, <3>3, <3>4, <3>5, <3>6 DEF Ending
  <2>2. CASE d = low + 2
    <3>1. Call(th, d)' = g BY <1>13, <2>2
    <3>2. Is(th, d + 1, Cascades, c)'
      <4>1. d + 1 = low + 3 BY <1>2, <2>2
      <4> QED BY <1>18, <4>1
    <3>3. NestedAt(th, d)' BY <1>10, <3>1, <3>2 DEF NestedAt, Cascades
    <3>4. SnappedAt(th, d)' BY <1>10, <3>1 DEF SnappedAt
    <3>5. PrivateAt(th, d)' BY <1>10, <3>1 DEF PrivateAt
    <3>6. ReachesAt(th, d)' BY <1>10, <3>1 DEF ReachesAt
    <3> QED BY <1>10, <3>1, <3>3, <3>4, <3>5, <3>6 DEF Ending
  <2>3. CASE d = low + 3
    <3>1. Call(th, d)' = e BY <1>13, <2>3
    <3>2. Is(th, d - 1, {"release"}, c)' /\ d > 1
      <4>1. d - 1 = low + 2 /\ d > 1 BY <1>2, <2>3
      <4> QED BY <1>18, <4>1
    <3>3. NestedAt(th, d)' BY <1>11, <3>1, <3>2 DEF NestedAt
    <3>4. SnappedAt(th, d)' BY <1>11, <3>1 DEF SnappedAt
    <3>5. PrivateAt(th, d)' BY <1>11, <3>1 DEF PrivateAt
    <3>6. ReachesAt(th, d)' BY <1>11, <3>1 DEF ReachesAt
    <3> QED BY <1>11, <3>1, <3>3, <3>4, <3>5, <3>6 DEF Ending
  <2> QED BY <1>16, <2>1, <2>2, <2>3
<1>20. Nested' /\ Snapped' /\ Private' /\ Ends' /\ Alive' /\ Covered' /\ Reaches'
  <2>1. \A x \in Tokens : Endangered(x)' <=> Endangered(x) BY <1>6 DEF Endangered
  <2>2. \A u : ~Is(th, low + 1, Ending, u) BY <1>16, <1>17
  <2>3. ASSUME NEW x \in Tokens, On(th, low + 1, x) PROVE \E d \in (low + 1)..high : On(th, d, x)'
    <3>1. x \in f.kids BY <1>2, <1>3, <1>5, <2>3 DEF On, Is
    <3>2. CASE x = c
      <4>1. On(th, low + 3, x)' BY <1>18, <3>2 DEF On
      <4> QED BY <1>16, <4>1
    <3>3. CASE x # c
      <4>1. On(th, low + 1, x)' BY <1>9, <1>13, <1>16, <3>1, <3>3 DEF On
      <4> QED BY <1>16, <4>1
    <3> QED BY <3>2, <3>3
  <2>4. \A u \in Tokens : Is(th, low + 1, Cascades, u) => Is(th, low + 1, Cascades, u)'
    BY <1>16, <1>17, <1>18
  <2> QED BY <1>6, <1>13, <1>14, <1>16, <1>19, <2>1, <2>2, <2>3, <2>4, Calm
<1>21. Held'
  <2>1. \A u \in Tokens : mu[u] # th BY <1>0, <1>2, <1>3, NoScan
  <2>2. \A d \in (low + 1)..high : \A u : ~Is(th, d, {"scan"}, u)'
    <3>1. \A d \in (low + 1)..high : d \in Nat /\ d > low BY <1>16, <1>2
    <3> QED BY <1>17, <3>1
  <2> QED BY <1>0, <1>6, <1>13, <2>1, <2>2, HeldTurn
<1>22. Balanced'
  <2> SUFFICES ASSUME NEW u \in Tokens PROVE BalancedAt(u)' BY DEF Balanced
  <2>1. Handles(u)' = Handles(u) /\ Linked(u)' = Linked(u)
    <3>1. low = 0 => \A x \in Tokens : (Is(th, 1, {"retain"}, x)' <=> Is(th, 1, {"retain"}, x))
      BY <1>16, <1>17
    <3> QED BY <1>0, <1>6, <1>13, <3>1, SameSets
  <2>2. CASE u # c BY <1>6, <1>13, <1>14, <1>17, <2>1, <2>2, SameCount
  <2>3. CASE u = c
    <3>1. BalancedAt(u) BY <1>0 DEF Balanced
    <3>2. IsFiniteSet(Releases(u)') /\ Cardinality(Releases(u)') = Cardinality(Releases(u)) + 1
      <4>1. /\ Is(th, low + 2, {"release"}, u)' /\ ~Is(th, low + 2, {"release"}, u)
            /\ \A d \in Nat : d > low /\ d # low + 2 =>
                 (Is(th, d, {"release"}, u)' <=> Is(th, d, {"release"}, u))
        BY <1>16, <1>17, <2>3
      <4> QED BY <1>0, <1>13, <1>16, <3>1, <4>1, ReleasesTurn DEF BalancedAt
    <3>3. IsFiniteSet(Snapshots(u)') /\ Cardinality(Snapshots(u)') = Cardinality(Snapshots(u)) - 1
      <4>1. /\ ~Kept(th, low + 1, u)' /\ Kept(th, low + 1, u)
            /\ \A d \in Nat : d > low /\ d # low + 1 => (Kept(th, d, u)' <=> Kept(th, d, u))
        BY <1>7, <1>16, <1>17, <2>3
      <4> QED BY <1>0, <1>13, <1>16, <3>1, <4>1, SnapshotsTurn DEF BalancedAt
    <3>4. /\ Cardinality(Handles(u)) \in Nat /\ Cardinality(Linked(u)) \in Nat
          /\ Cardinality(Releases(u)) \in Nat /\ Cardinality(Snapshots(u)) \in Nat
      BY <3>1, FS_CardinalityType DEF BalancedAt
    <3> QED BY <1>6, <2>1, <3>1, <3>2, <3>3, <3>4 DEF BalancedAt
  <2> QED BY <2>2, <2>3
<1> QED BY <1>14, <1>20, <1>21, <1>22 DEF IInv

(* The calls that take a token apart.                                      *)
LEMMA ReleaseKeeps ==
  ASSUME IInv, NEW th \in Threads, Release(th), refcount[Top(th).tok] # 1
  PROVE  IInv'
<1>0. /\ Shapes /\ Nested /\ Snapped /\ Held /\ Private /\ Balanced /\ Ends /\ Alive
      /\ Covered /\ Reaches
  BY DEF IInv
<1>1. ~Idle(th) /\ Top(th).do = "release" BY DEF Release, Doing
<1>2. PICK low \in Nat, f \in FrameType :
        /\ Len(stack[th]) = low + 1 /\ low + 1 \in Depths(th)
        /\ f = Top(th) /\ f = Call(th, low + 1) /\ Depths(th) = 1..(low + 1)
  BY <1>0, <1>1, Busy
<1>3. f.do = "release" BY <1>1, <1>2
<1>4. PICK t : t = f.tok OBVIOUS
<1>5. t \in Tokens /\ f.more = {} /\ f.kids = {}
  <2>1. SnappedAt(th, low + 1) BY <1>0, <1>2 DEF Snapped
  <2> QED BY <1>2, <1>3, <1>4, <2>1 DEF FrameType, SnappedAt
<1>6. /\ refcount' = [refcount EXCEPT ![t] = @ + (-1)]
      /\ UNCHANGED <<memory, cancelled, deadline, parent, mu, held, baked>>
  BY <1>2, <1>4 DEF Release, Plus
<1>7. PICK high : high = low OBVIOUS
<1>8. Acts(th, low, high) /\ stack' \in [Threads -> Seq(FrameType)]
  BY <1>0, <1>1, <1>2, <1>7, PopTurn DEF Release
<1>9. refcount[t] \in Nat /\ refcount[t] > 1
  <2>1. low + 1 \in Nat /\ Is(th, low + 1, {"release"}, t) BY <1>2, <1>3, <1>4 DEF Is
  <2>2. refcount[t] \in Nat /\ refcount[t] > 0 BY <1>0, <1>5, <2>1, CountFacts
  <2>3. refcount[t] # 1 BY <1>2, <1>4
  <2> QED BY <2>2, <2>3
<1>10. Shapes' /\ refcount'[t] = refcount[t] - 1 /\ \A u \in Tokens : u # t => refcount'[u] = refcount[u]
  <2>0. PICK n \in Int : n = refcount[t] + (-1)
    <3>1. refcount[t] \in Int BY <1>0, <1>5 DEF Shapes
    <3> QED BY <3>1
  <2>1. refcount' \in [Tokens -> Int] BY <1>0, <1>6, <2>0 DEF Shapes
  <2>2. Shapes' BY <1>0, <1>6, <1>8, <2>1 DEF Shapes
  <2> QED BY <1>0, <1>5, <1>6, <1>9, <2>2 DEF Shapes
<1>11. /\ (low + 1)..high = {} /\ ~(high > low)
       /\ \A d \in Nat : d > low => (d \in Depths(th) <=> d = low + 1) /\ d \notin Depths(th)'
  <2>1. Depths(th)' = 1..low BY <1>7, <1>8 DEF Acts, Turns, Depths
  <2> QED BY <1>2, <1>7, <2>1
<1>12. \A d \in Nat : d > low =>
         \A u : /\ (Is(th, d, {"release"}, u) <=> d = low + 1 /\ u = t)
                /\ ~Is(th, d, {"release"}, u)'
                /\ ~Kept(th, d, u) /\ ~Kept(th, d, u)'
                /\ ~Is(th, d, {"retain"}, u) /\ ~Is(th, d, {"retain"}, u)'
                /\ ~On(th, d, u) /\ ~Is(th, d, Ending, u) /\ ~Is(th, d, Cascades, u)
  BY <1>2, <1>3, <1>4, <1>5, <1>11 DEF Is, Kept, On, Ending, Cascades
<1>13. low + 1 \in Nat /\ low + 1 > low BY <1>2
<1>14. \A u \in Tokens : /\ (refcount'[u] > 0 <=> refcount[u] > 0)
                         /\ (refcount'[u] = 0 <=> refcount[u] = 0)
  BY <1>9, <1>10
<1>15. Nested' /\ Snapped' /\ Private' /\ Ends' /\ Alive' /\ Covered' /\ Reaches'
  <2>1. \A x \in Tokens : Endangered(x)' <=> Endangered(x) BY <1>6, <1>14 DEF Endangered
  <2>2. \A u : ~Is(th, low + 1, Ending, u) /\ ~On(th, low + 1, u) /\ ~Is(th, low + 1, Cascades, u)
    BY <1>12, <1>13
  <2> QED BY <1>6, <1>8, <1>10, <1>11, <1>14, <2>1, <2>2, Calm
<1>16. Held'
  <2>1. \A u \in Tokens : mu[u] # th BY <1>0, <1>2, <1>3, NoScan
  <2> QED BY <1>0, <1>6, <1>8, <1>11, <2>1, HeldTurn
<1>17. Balanced'
  <2> SUFFICES ASSUME NEW u \in Tokens PROVE BalancedAt(u)' BY DEF Balanced
  <2>1. Handles(u)' = Handles(u) /\ Linked(u)' = Linked(u)
    <3>1. low = 0 => \A c \in Tokens : (Is(th, 1, {"retain"}, c)' <=> Is(th, 1, {"retain"}, c))
      BY <1>12, <1>13
    <3> QED BY <1>0, <1>6, <1>8, <3>1, SameSets
  <2>2. CASE u # t BY <1>8, <1>10, <1>12, <2>1, <2>2, SameCount
  <2>3. CASE u = t
    <3>1. BalancedAt(u) BY <1>0 DEF Balanced
    <3>2. IsFiniteSet(Releases(u)') /\ Cardinality(Releases(u)') = Cardinality(Releases(u)) - 1
      <4>1. /\ ~Is(th, low + 1, {"release"}, u)' /\ Is(th, low + 1, {"release"}, u)
            /\ \A d \in Nat : d > low /\ d # low + 1 =>
                 (Is(th, d, {"release"}, u)' <=> Is(th, d, {"release"}, u))
        BY <1>12, <1>13, <2>3
      <4> QED BY <1>0, <1>8, <1>13, <3>1, <4>1, ReleasesTurn DEF BalancedAt
    <3>3. Snapshots(u)' = Snapshots(u) BY <1>0, <1>8, <1>12, SnapshotsTurn
    <3>4. /\ Cardinality(Handles(u)) \in Nat /\ Cardinality(Linked(u)) \in Nat
          /\ Cardinality(Releases(u)) \in Nat /\ Cardinality(Snapshots(u)) \in Nat
      BY <3>1, FS_CardinalityType DEF BalancedAt
    <3> QED BY <1>10, <2>1, <2>3, <3>1, <3>2, <3>3, <3>4 DEF BalancedAt
  <2> QED BY <2>2, <2>3
<1> QED BY <1>10, <1>15, <1>16, <1>17 DEF IInv

(* The last reference: the token's count drops to 0 and its end begins.    *)
LEMMA ReleaseEnds ==
  ASSUME IInv, NEW th \in Threads, Release(th), refcount[Top(th).tok] = 1
  PROVE  IInv'
<1>0. /\ Shapes /\ Nested /\ Snapped /\ Held /\ Private /\ Balanced /\ Ends /\ Alive
      /\ Covered /\ Reaches
  BY DEF IInv
<1>1. ~Idle(th) /\ Top(th).do = "release" BY DEF Release, Doing
<1>2. PICK low \in Nat, f \in FrameType :
        /\ Len(stack[th]) = low + 1 /\ low + 1 \in Depths(th)
        /\ f = Top(th) /\ f = Call(th, low + 1) /\ Depths(th) = 1..(low + 1)
  BY <1>0, <1>1, Busy
<1>3. f.do = "release" BY <1>1, <1>2
<1>4. PICK t : t = f.tok OBVIOUS
<1>5. t \in Tokens /\ f.more = {} /\ f.kids = {} /\ refcount[t] = 1
  <2>1. SnappedAt(th, low + 1) BY <1>0, <1>2 DEF Snapped
  <2> QED BY <1>2, <1>3, <1>4, <2>1 DEF FrameType, SnappedAt
<1>6. /\ refcount' = [refcount EXCEPT ![t] = @ + (-1)]
      /\ UNCHANGED <<memory, cancelled, deadline, parent, mu, held, baked>>
  BY <1>2, <1>4 DEF Release, Plus
<1>7. PICK g \in FrameType : /\ Continue(th, <<g>>) /\ g.do \in Ending /\ g.tok = t
                             /\ g.of = None /\ g.more = {} /\ g.kids = {}
                             /\ (g.do = "free" <=> parent[t] = None)
  <2>1. PICK do : do = IF parent[t] = None THEN "free" ELSE "detach" OBVIOUS
  <2>2. do \in Labels /\ do \in Ending /\ (do = "free" <=> parent[t] = None)
    BY <2>1 DEF Labels, Ending
  <2>3. Continue(th, <<Frame(do, t)>>) BY <1>2, <1>4, <1>5, <2>1 DEF Release
  <2>4. Frame(do, t) \in FrameType BY <1>5, <2>2, FrameTyped
  <2> QED BY <2>2, <2>3, <2>4 DEF Frame
<1>8. PICK high : high = low + 1 OBVIOUS
<1>9. Acts(th, low, high) /\ stack' \in [Threads -> Seq(FrameType)] /\ Call(th, low + 1)' = g
  BY <1>0, <1>1, <1>2, <1>7, <1>8, OneTurn
<1>10. Shapes' /\ refcount'[t] = 0 /\ \A u \in Tokens : u # t => refcount'[u] = refcount[u]
  <2>0. PICK n \in Int : n = refcount[t] + (-1)
    <3>1. refcount[t] \in Int BY <1>0, <1>5 DEF Shapes
    <3> QED BY <3>1
  <2>1. refcount' \in [Tokens -> Int] BY <1>0, <1>6, <2>0 DEF Shapes
  <2>2. Shapes' BY <1>0, <1>6, <1>9, <2>1 DEF Shapes
  <2> QED BY <1>0, <1>5, <1>6, <2>2 DEF Shapes
<1>11. /\ \A d \in (low + 1)..high : d = low + 1
       /\ low + 1 \in (low + 1)..high /\ low # high
       /\ low + 1 \in Depths(th)'
       /\ \A d \in Nat : d > low => /\ (d \in Depths(th) <=> d = low + 1)
                                    /\ (d \in Depths(th)' <=> d = low + 1)
  <2>1. Depths(th)' = 1..(low + 1) BY <1>8, <1>9 DEF Acts, Turns, Depths
  <2> QED BY <1>2, <1>8, <2>1
<1>12. \A d \in Nat : d > low =>
         \A u : /\ (Is(th, d, {"release"}, u) <=> d = low + 1 /\ u = t)
                /\ ~Is(th, d, {"release"}, u)'
                /\ ~Kept(th, d, u) /\ ~Kept(th, d, u)'
                /\ ~Is(th, d, {"retain"}, u) /\ ~Is(th, d, {"retain"}, u)'
                /\ ~Is(th, d, {"scan"}, u)' /\ ~On(th, d, u) /\ ~Is(th, d, Ending, u)
                /\ ~Is(th, d, Cascades, u) /\ (Is(th, d, Ending, u)' <=> d = low + 1 /\ u = t)
  BY <1>2, <1>3, <1>4, <1>5, <1>7, <1>9, <1>11 DEF Is, Kept, On, Ending, Cascades
<1>13. low + 1 \in Nat /\ low + 1 > low BY <1>2
<1>14. \A u : /\ ~Is(th, low + 1, Ending, u) /\ ~On(th, low + 1, u) /\ ~Is(th, low + 1, Cascades, u)
  BY <1>12, <1>13
<1>15. ASSUME NEW x \in Threads, NEW d \in Depths(x), NEW u, Is(x, d, Ending, u)
       PROVE  u \in Tokens /\ u # t /\ refcount[u] = 0
  <2>1. Call(x, d).do \in Ending /\ Call(x, d).tok = u BY <1>15 DEF Is
  <2>2. refcount[u] = 0 /\ u \in Tokens BY <1>0, <2>1, CallTyped DEF Ends, EndsAt, FrameType
  <2> QED BY <1>5, <2>2
<1>16. ASSUME NEW d \in (low + 1)..high
       PROVE  /\ NestedAt(th, d)' /\ SnappedAt(th, d)' /\ PrivateAt(th, d)' /\ ReachesAt(th, d)'
              /\ EndsAt(th, d)'
  <2>1. d = low + 1 /\ Call(th, d)' = g BY <1>9, <1>11
  <2>2. NestedAt(th, d)' BY <1>7, <2>1 DEF NestedAt, Ending, Cascades
  <2>3. SnappedAt(th, d)' BY <1>7, <2>1 DEF SnappedAt
  <2>4. PrivateAt(th, d)' BY <1>7, <2>1 DEF PrivateAt, Ending
  <2>5. ReachesAt(th, d)' BY <1>7, <2>1 DEF ReachesAt, Ending
  <2>6. ASSUME NEW x \in Threads, NEW e \in Depths(x)', Is(x, e, Ending, t)' PROVE x = th /\ e = d
    <3>1. Keeps(th, low, x, e) \/ (x = th /\ e \in (low + 1)..high) BY <1>0, <1>9, NewCall
    <3>2. ~Keeps(th, low, x, e)
      <4>1. SUFFICES ASSUME Keeps(th, low, x, e) PROVE FALSE OBVIOUS
      <4>2. "asleep" \notin Ending /\ "sleep" \notin Ending BY DEF Ending
      <4>3. Is(x, e, Ending, t) /\ e \in Depths(x) BY <1>0, <1>9, <2>6, <4>1, <4>2, KeptIs DEF Keeps
      <4> QED BY <1>15, <4>3
    <3> QED BY <1>11, <2>1, <3>1, <3>2
  <2>7. EndsAt(th, d)' BY <1>6, <1>7, <1>10, <2>1, <2>6 DEF EndsAt
  <2> QED BY <2>2, <2>3, <2>4, <2>5, <2>7
<1>17. Nested' BY <1>0, <1>6, <1>9, <1>14, <1>16, NestedTurn
<1>18. Snapped' BY <1>0, <1>6, <1>9, <1>16, SnappedTurn
<1>19. Held'
  <2>1. \A u \in Tokens : mu[u] # th BY <1>0, <1>2, <1>3, NoScan
  <2>2. \A d \in (low + 1)..high : \A u : ~Is(th, d, {"scan"}, u)' BY <1>11, <1>12, <1>13
  <2> QED BY <1>0, <1>6, <1>9, <2>1, <2>2, HeldTurn
<1>20. Private' BY <1>0, <1>6, <1>9, <1>16, PrivateTurn
<1>21. Ends'
  <2>1. ASSUME NEW x \in Threads, NEW d, NEW u, Keeps(th, low, x, d), Is(x, d, Ending, u)
        PROVE  refcount'[u] = 0 /\ (parent'[u] = None <=> parent[u] = None)
    <3>1. d \in Depths(x) BY <2>1 DEF Keeps
    <3> QED BY <1>6, <1>10, <1>15, <2>1, <3>1
  <2> QED BY <1>0, <1>9, <1>16, <2>1, EndsTurn
<1>22. Alive'
  <2>1. SUFFICES ASSUME NEW u \in Tokens PROVE AliveAt(u)' BY DEF Alive
  <2>2. AliveAt(u) BY <1>0 DEF Alive
  <2>3. CASE u = t
    <3>1. IsEnding(u)'
      <4>1. Is(th, low + 1, Ending, u)' BY <1>12, <1>13, <2>3
      <4> QED BY <1>11, <4>1 DEF IsEnding
    <3> QED BY <1>5, <1>6, <2>2, <2>3, <3>1 DEF AliveAt
  <2>4. CASE u # t
    <3>1. \A d \in (low + 1)..high : ~Is(th, d, Ending, u)' BY <1>11, <1>12, <1>13, <2>4
    <3>2. IsEnding(u)' <=> \E x \in Threads : \E d : Keeps(th, low, x, d) /\ Is(x, d, Ending, u)
      BY <1>0, <1>9, <3>1, EndingTurn
    <3>3. IsEnding(u) <=> \E x \in Threads : \E d : Keeps(th, low, x, d) /\ Is(x, d, Ending, u)
      BY <1>0, <1>9, <1>14, EndingNow
    <3> QED BY <1>6, <1>10, <2>2, <2>4, <3>2, <3>3 DEF AliveAt
  <2> QED BY <2>3, <2>4
<1>23. \A u \in Tokens : refcount'[u] > 0 => refcount[u] > 0 BY <1>5, <1>10
<1>24. Covered'
  <2>1. \A x \in Tokens : Endangered(x)' => Endangered(x) BY <1>6, <1>23 DEF Endangered
  <2> QED BY <1>0, <1>9, <1>14, <2>1, CoveredTurn
<1>25. Reaches'
  <2>1. \A x \in Tokens : Complete(x) => Complete(x)' BY <1>6, <1>23, CompleteCalm
  <2> QED BY <1>0, <1>6, <1>9, <1>11, <1>16, <2>1, ReachesTurn
<1>26. Balanced'
  <2> SUFFICES ASSUME NEW u \in Tokens PROVE BalancedAt(u)' BY DEF Balanced
  <2>1. Handles(u)' = Handles(u) /\ Linked(u)' = Linked(u)
    <3>1. low = 0 => \A c \in Tokens : (Is(th, 1, {"retain"}, c)' <=> Is(th, 1, {"retain"}, c))
      BY <1>12, <1>13
    <3> QED BY <1>0, <1>6, <1>9, <3>1, SameSets
  <2>2. CASE u # t BY <1>9, <1>10, <1>12, <2>1, <2>2, SameCount
  <2>3. CASE u = t
    <3>1. BalancedAt(u) BY <1>0 DEF Balanced
    <3>2. IsFiniteSet(Releases(u)') /\ Cardinality(Releases(u)') = Cardinality(Releases(u)) - 1
      <4>1. /\ ~Is(th, low + 1, {"release"}, u)' /\ Is(th, low + 1, {"release"}, u)
            /\ \A d \in Nat : d > low /\ d # low + 1 =>
                 (Is(th, d, {"release"}, u)' <=> Is(th, d, {"release"}, u))
        BY <1>12, <1>13, <2>3
      <4> QED BY <1>0, <1>9, <1>13, <3>1, <4>1, ReleasesTurn DEF BalancedAt
    <3>3. Snapshots(u)' = Snapshots(u) BY <1>0, <1>9, <1>12, SnapshotsTurn
    <3>4. /\ Cardinality(Handles(u)) \in Nat /\ Cardinality(Linked(u)) \in Nat
          /\ Cardinality(Releases(u)) \in Nat /\ Cardinality(Snapshots(u)) \in Nat
      BY <3>1, FS_CardinalityType DEF BalancedAt
    <3> QED BY <1>5, <1>10, <2>1, <2>3, <3>1, <3>2, <3>3, <3>4 DEF BalancedAt
  <2> QED BY <2>2, <2>3
<1> QED BY <1>10, <1>17, <1>18, <1>19, <1>20, <1>21, <1>22, <1>24, <1>25, <1>26 DEF IInv

LEMMA DetachStep ==
  ASSUME IInv, NEW th \in Threads, Detach(th)
  PROVE  IInv'
<1>0. /\ Shapes /\ Nested /\ Snapped /\ Held /\ Private /\ Balanced /\ Ends /\ Alive
      /\ Covered /\ Reaches
  BY DEF IInv
<1>1. ~Idle(th) /\ Top(th).do = "detach" BY DEF Detach, Doing
<1>2. PICK low \in Nat, f \in FrameType :
        /\ Len(stack[th]) = low + 1 /\ low + 1 \in Depths(th)
        /\ f = Top(th) /\ f = Call(th, low + 1) /\ Depths(th) = 1..(low + 1)
  BY <1>0, <1>1, Busy
<1>3. f.do = "detach" BY <1>1, <1>2
<1>4. PICK t : t = f.tok OBVIOUS
<1>5. PICK p : p = parent[t] OBVIOUS
<1>6. /\ t \in Tokens /\ f.more = {} /\ f.kids = {} /\ refcount[t] = 0 /\ p # None /\ p \in Tokens
      /\ \A x \in Threads : \A e \in Depths(x) : Is(x, e, Ending, t) => x = th /\ e = low + 1
  <2>1. SnappedAt(th, low + 1) /\ EndsAt(th, low + 1) BY <1>0, <1>2 DEF Snapped, Ends
  <2>2. t \in Tokens /\ f.more = {} /\ f.kids = {}
    BY <1>2, <1>3, <1>4, <2>1 DEF FrameType, SnappedAt
  <2>3. /\ refcount[t] = 0 /\ p # None
        /\ \A x \in Threads : \A e \in Depths(x) : Is(x, e, Ending, t) => x = th /\ e = low + 1
    BY <1>2, <1>3, <1>4, <1>5, <2>1 DEF EndsAt, Ending
  <2> QED BY <1>0, <1>5, <2>2, <2>3 DEF Shapes
<1>7. /\ mu[p] = None /\ parent' = [parent EXCEPT ![t] = None]
      /\ Continue(th, <<Frame("release", p), Frame("free", t)>>)
      /\ UNCHANGED <<memory, refcount, cancelled, deadline, mu, held, baked>>
  BY <1>2, <1>4, <1>5 DEF Detach, Free
<1>8. PICK g \in FrameType : /\ g = Frame("release", p) /\ g.do = "release" /\ g.tok = p
                             /\ g.of = None /\ g.more = {} /\ g.kids = {}
  <2>1. Frame("release", p) \in FrameType BY <1>6, FrameTyped DEF Labels
  <2> QED BY <2>1 DEF Frame
<1>9. PICK h \in FrameType : /\ h = Frame("free", t) /\ h.do = "free" /\ h.tok = t
                             /\ h.of = None /\ h.more = {} /\ h.kids = {}
  <2>1. Frame("free", t) \in FrameType BY <1>6, FrameTyped DEF Labels
  <2> QED BY <2>1 DEF Frame
<1>10. PICK high : high = low + 2 OBVIOUS
<1>11. /\ Acts(th, low, high) /\ stack' \in [Threads -> Seq(FrameType)]
       /\ Call(th, low + 1)' = h /\ Call(th, low + 2)' = g
  <2>1. Continue(th, <<g, h>>) BY <1>7, <1>8, <1>9
  <2>2. /\ Acts(th, low, low + 2) /\ stack' \in [Threads -> Seq(FrameType)]
        /\ Call(th, low + 1)' = h /\ Call(th, low + 2)' = g
    BY <1>0, <1>1, <1>2, <2>1, TwoTurn
  <2> QED BY <1>10, <2>2
<1>12. Shapes' /\ parent'[t] = None /\ \A u \in Tokens : u # t => parent'[u] = parent[u]
  <2>1. parent' \in [Tokens -> Tokens \cup {None}] BY <1>0, <1>7 DEF Shapes
  <2>2. Shapes' BY <1>0, <1>7, <1>11, <2>1 DEF Shapes
  <2> QED BY <1>0, <1>6, <1>7, <2>2 DEF Shapes
<1>13. Len(stack'[th]) = low + 2 /\ Depths(th)' = 1..(low + 2)
  BY <1>10, <1>11 DEF Acts, Turns, Depths
<1>14. /\ \A d \in (low + 1)..high : (d = low + 1 \/ d = low + 2) /\ d \in Nat /\ d > low
       /\ low + 1 \in (low + 1)..high /\ low + 2 \in (low + 1)..high
       /\ low + 1 \in Depths(th)' /\ low + 2 \in Depths(th)'
       /\ low + 1 \in Nat /\ low + 2 \in Nat /\ low + 1 > low /\ low + 2 > low
       /\ low + 2 # low + 1 /\ high # low /\ ~(low + 2 < low + 2)
       /\ \A d \in Nat : d > low =>
            /\ d \in Depths(th) <=> d = low + 1
            /\ d \in Depths(th)' <=> d = low + 1 \/ d = low + 2
  BY <1>2, <1>10, <1>13
<1>15. \A d \in Nat : d > low =>
         \A u : /\ ~Is(th, d, {"release"}, u)
                /\ (Is(th, d, {"release"}, u)' <=> u = p /\ d = low + 2)
                /\ ~Kept(th, d, u) /\ ~Kept(th, d, u)'
                /\ ~Is(th, d, {"retain"}, u) /\ ~Is(th, d, {"retain"}, u)'
                /\ ~Is(th, d, {"scan"}, u)' /\ ~On(th, d, u) /\ ~Is(th, d, Cascades, u)
                /\ (Is(th, d, Ending, u) <=> u = t /\ d = low + 1)
                /\ (Is(th, d, Ending, u)' <=> u = t /\ d = low + 1)
  BY <1>2, <1>3, <1>4, <1>6, <1>8, <1>9, <1>11, <1>14 DEF Is, Kept, On, Ending, Cascades
<1>16. \A u : ~On(th, low + 1, u) /\ ~Is(th, low + 1, Cascades, u) BY <1>14, <1>15
<1>17. ASSUME NEW x \in Threads, NEW d, NEW u, Keeps(th, low, x, d), Is(x, d, Ending, u)
       PROVE  u \in Tokens /\ u # t /\ refcount[u] = 0
  <2>1. d \in Depths(x) /\ (x # th \/ d <= low) BY <1>17 DEF Keeps
  <2>2. Call(x, d).do \in Ending /\ Call(x, d).tok = u BY <1>17 DEF Is
  <2>3. refcount[u] = 0 /\ u \in Tokens BY <1>0, <2>1, <2>2, CallTyped DEF Ends, EndsAt, FrameType
  <2>4. ~(low + 1 <= low) BY <1>2
  <2>5. u # t BY <1>6, <1>17, <2>1, <2>4
  <2> QED BY <2>3, <2>5
<1>18. ASSUME NEW d \in (low + 1)..high
       PROVE  /\ NestedAt(th, d)' /\ SnappedAt(th, d)' /\ PrivateAt(th, d)' /\ ReachesAt(th, d)'
              /\ EndsAt(th, d)'
  <2>1. CASE d = low + 1
    <3>1. Call(th, d)' = h BY <1>11, <2>1
    <3>2. NestedAt(th, d)' BY <1>9, <3>1 DEF NestedAt, Cascades
    <3>3. SnappedAt(th, d)' BY <1>9, <3>1 DEF SnappedAt
    <3>4. PrivateAt(th, d)' BY <1>9, <3>1 DEF PrivateAt
    <3>5. ReachesAt(th, d)' BY <1>9, <3>1 DEF ReachesAt
    <3>6. ASSUME NEW x \in Threads, NEW e \in Depths(x)', Is(x, e, Ending, t)' PROVE x = th /\ e = d
      <4>1. Keeps(th, low, x, e) \/ (x = th /\ e \in (low + 1)..high) BY <1>0, <1>11, NewCall
      <4>2. ~Keeps(th, low, x, e)
        <5>1. SUFFICES ASSUME Keeps(th, low, x, e) PROVE FALSE OBVIOUS
        <5>2. "asleep" \notin Ending /\ "sleep" \notin Ending BY DEF Ending
        <5>3. Is(x, e, Ending, t) BY <1>0, <1>11, <3>6, <5>1, <5>2, KeptIs
        <5> QED BY <1>17, <5>1, <5>3
      <4>3. x = th /\ e \in Nat /\ e > low BY <1>14, <4>1, <4>2
      <4>4. e = low + 1 BY <1>15, <3>6, <4>3
      <4> QED BY <2>1, <4>3, <4>4
    <3>7. EndsAt(th, d)' BY <1>6, <1>7, <1>9, <1>12, <3>1, <3>6 DEF EndsAt
    <3> QED BY <3>2, <3>3, <3>4, <3>5, <3>7
  <2>2. CASE d = low + 2
    <3>1. Call(th, d)' = g BY <1>11, <2>2
    <3>2. ~(d < Len(stack'[th])) BY <1>13, <1>14, <2>2
    <3>3. NestedAt(th, d)' BY <1>8, <3>1, <3>2 DEF NestedAt, Cascades
    <3>4. SnappedAt(th, d)' BY <1>8, <3>1 DEF SnappedAt
    <3>5. PrivateAt(th, d)' BY <1>8, <3>1 DEF PrivateAt
    <3>6. ReachesAt(th, d)' BY <1>8, <3>1 DEF ReachesAt
    <3>7. EndsAt(th, d)' BY <1>8, <3>1 DEF EndsAt, Ending
    <3> QED BY <3>3, <3>4, <3>5, <3>6, <3>7
  <2> QED BY <1>14, <2>1, <2>2
<1>19. Nested' BY <1>0, <1>7, <1>11, <1>16, <1>18, NestedTurn
<1>20. Snapped'
  <2>1. \A c \in Tokens : \/ parent'[c] = parent[c] \/ parent[c] = None
                          \/ (parent[c] \in Tokens /\ mu[parent[c]] = None)
    BY <1>5, <1>6, <1>7, <1>12
  <2> QED BY <1>0, <1>11, <1>18, <2>1, SnappedTurn
<1>21. Held'
  <2>1. \A u \in Tokens : mu[u] # th BY <1>0, <1>2, <1>3, NoScan
  <2>2. \A d \in (low + 1)..high : \A u : ~Is(th, d, {"scan"}, u)' BY <1>14, <1>15
  <2> QED BY <1>0, <1>7, <1>11, <2>1, <2>2, HeldTurn
<1>22. Private'
  <2>1. ASSUME NEW x \in Threads \ {th}, NEW u \in Tokens, Is(x, 1, {"link", "retain"}, u)
        PROVE  parent'[u] = parent[u]
    <3>1. u \in held[x] BY <1>0, <2>1 DEF Nested, NestedAt, Is
    <3>2. refcount[u] > 0 BY <1>0, <3>1, CountFacts
    <3> QED BY <1>6, <1>12, <3>2
  <2> QED BY <1>0, <1>7, <1>11, <1>18, <2>1, PrivateTurn
<1>23. Ends'
  <2>1. ASSUME NEW x \in Threads, NEW d, NEW u, Keeps(th, low, x, d), Is(x, d, Ending, u)
        PROVE  refcount'[u] = 0 /\ (parent'[u] = None <=> parent[u] = None)
    BY <1>7, <1>12, <1>17, <2>1
  <2> QED BY <1>0, <1>11, <1>18, <2>1, EndsTurn
<1>24. Alive'
  <2>1. SUFFICES ASSUME NEW u \in Tokens PROVE AliveAt(u)' BY DEF Alive
  <2>2. AliveAt(u) BY <1>0 DEF Alive
  <2>3. IsEnding(u)' <=> IsEnding(u)
    <3>1. /\ Is(th, low + 1, Ending, u)' <=> u = t
          /\ Is(th, low + 1, Ending, u) <=> u = t
          /\ ~Is(th, low + 2, Ending, u)'
      BY <1>14, <1>15
    <3>2. (\E d \in (low + 1)..high : Is(th, d, Ending, u)') <=> u = t BY <1>14, <3>1
    <3>3. IsEnding(u)' <=> \/ \E x \in Threads : \E d : Keeps(th, low, x, d) /\ Is(x, d, Ending, u)
                           \/ u = t
      BY <1>0, <1>11, <3>2, EndingTurn
    <3>4. IsEnding(u) <=> \/ \E x \in Threads : \E d : Keeps(th, low, x, d) /\ Is(x, d, Ending, u)
                          \/ u = t
      BY <1>0, <1>11, <3>1, EndingNow
    <3> QED BY <3>3, <3>4
  <2> QED BY <1>7, <1>12, <2>2, <2>3 DEF AliveAt
<1>25. Covered'
  <2>1. \A x \in Tokens : Endangered(x)' => Endangered(x) BY <1>7, <1>12 DEF Endangered
  <2> QED BY <1>0, <1>11, <1>16, <2>1, CoveredTurn
<1>26. Reaches'
  <2>1. ASSUME NEW x \in Tokens, Complete(x) PROVE Complete(x)'
    BY <1>7, <1>12, <2>1, CompleteStays
  <2> QED BY <1>0, <1>7, <1>11, <1>12, <1>14, <1>18, <2>1, ReachesTurn
<1>27. \A x \in Tokens : Linking(x)' <=> Linking(x)
  <2>1. low = 0 => \A x \in Tokens : (Is(th, 1, {"retain"}, x)' <=> Is(th, 1, {"retain"}, x))
    BY <1>14, <1>15
  <2> QED BY <1>0, <1>11, <2>1, LinkedTurn
<1>28. ~Linking(t)
  <2>1. SUFFICES ASSUME Linking(t) PROVE FALSE OBVIOUS
  <2>2. PICK x \in Threads : t \in held[x] BY <1>0, <2>1, LinkingHeld
  <2>3. refcount[t] > 0 BY <1>0, <1>6, <2>2, CountFacts
  <2> QED BY <1>6, <2>3
<1>29. Balanced'
  <2> SUFFICES ASSUME NEW u \in Tokens PROVE BalancedAt(u)' BY DEF Balanced
  <2>1. Handles(u)' = Handles(u) BY <1>7 DEF Handles
  <2>2. refcount'[u] = refcount[u] BY <1>7
  <2>3. CASE u # p
    <3>1. Linked(u)' = Linked(u) BY <1>5, <1>12, <1>27, <2>3, CancelTreeAssumption DEF Linked
    <3> QED BY <1>11, <1>12, <1>15, <2>1, <2>2, <2>3, <3>1, SameCount
  <2>4. CASE u = p
    <3>1. BalancedAt(u) BY <1>0 DEF Balanced
    <3>2. IsFiniteSet(Releases(u)') /\ Cardinality(Releases(u)') = Cardinality(Releases(u)) + 1
      <4>1. /\ Is(th, low + 2, {"release"}, u)' /\ ~Is(th, low + 2, {"release"}, u)
            /\ \A d \in Nat : d > low /\ d # low + 2 =>
                 (Is(th, d, {"release"}, u)' <=> Is(th, d, {"release"}, u))
        BY <1>14, <1>15, <2>4
      <4> QED BY <1>0, <1>11, <1>14, <3>1, <4>1, ReleasesTurn DEF BalancedAt
    <3>3. Snapshots(u)' = Snapshots(u) BY <1>0, <1>11, <1>15, SnapshotsTurn
    <3>4. Linked(u)' = Linked(u) \ {t} /\ t \in Linked(u)
      BY <1>5, <1>6, <1>12, <1>27, <1>28, <2>4 DEF Linked
    <3>5. IsFiniteSet(Linked(u)') /\ Cardinality(Linked(u)') = Cardinality(Linked(u)) - 1
      BY <3>1, <3>4, FS_RemoveElement DEF BalancedAt
    <3>6. /\ Cardinality(Handles(u)) \in Nat /\ Cardinality(Linked(u)) \in Nat
          /\ Cardinality(Releases(u)) \in Nat /\ Cardinality(Snapshots(u)) \in Nat
      BY <3>1, FS_CardinalityType DEF BalancedAt
    <3> QED BY <2>1, <2>2, <3>1, <3>2, <3>3, <3>5, <3>6 DEF BalancedAt
  <2> QED BY <2>3, <2>4
<1> QED BY <1>12, <1>19, <1>20, <1>21, <1>22, <1>23, <1>24, <1>25, <1>26, <1>29 DEF IInv

LEMMA DestroyStep ==
  ASSUME IInv, NEW th \in Threads, Destroy(th)
  PROVE  IInv'
<1>0. /\ Shapes /\ Nested /\ Snapped /\ Held /\ Private /\ Balanced /\ Ends /\ Alive
      /\ Covered /\ Reaches
  BY DEF IInv
<1>1. ~Idle(th) /\ Top(th).do = "free" BY DEF Destroy, Doing
<1>2. PICK low \in Nat, f \in FrameType :
        /\ Len(stack[th]) = low + 1 /\ low + 1 \in Depths(th)
        /\ f = Top(th) /\ f = Call(th, low + 1) /\ Depths(th) = 1..(low + 1)
  BY <1>0, <1>1, Busy
<1>3. f.do = "free" BY <1>1, <1>2
<1>4. PICK t : t = f.tok OBVIOUS
<1>5. /\ t \in Tokens /\ f.more = {} /\ f.kids = {} /\ refcount[t] = 0 /\ parent[t] = None
      /\ \A x \in Threads : \A e \in Depths(x) : Is(x, e, Ending, t) => x = th /\ e = low + 1
  <2>1. SnappedAt(th, low + 1) /\ EndsAt(th, low + 1) BY <1>0, <1>2 DEF Snapped, Ends
  <2>2. t \in Tokens /\ f.more = {} /\ f.kids = {}
    BY <1>2, <1>3, <1>4, <2>1 DEF FrameType, SnappedAt
  <2> QED BY <1>2, <1>3, <1>4, <2>1, <2>2 DEF EndsAt, Ending
<1>6. /\ memory' = [memory EXCEPT ![t] = "freed"]
      /\ UNCHANGED <<refcount, cancelled, deadline, parent, mu, held, baked>>
  BY <1>2, <1>4 DEF Destroy
<1>7. PICK high : high = low OBVIOUS
<1>8. Acts(th, low, high) /\ stack' \in [Threads -> Seq(FrameType)]
  BY <1>0, <1>1, <1>2, <1>7, PopTurn DEF Destroy
<1>9. Shapes' /\ memory'[t] = "freed" /\ \A u \in Tokens : u # t => memory'[u] = memory[u]
  <2>1. memory' \in [Tokens -> {"unborn", "live", "freed"}] BY <1>0, <1>6 DEF Shapes
  <2>2. Shapes' BY <1>0, <1>6, <1>8, <2>1 DEF Shapes
  <2> QED BY <1>0, <1>5, <1>6, <2>2 DEF Shapes
<1>10. /\ (low + 1)..high = {} /\ ~(high > low)
       /\ \A d \in Nat : d > low => (d \in Depths(th) <=> d = low + 1) /\ d \notin Depths(th)'
  <2>1. Depths(th)' = 1..low BY <1>7, <1>8 DEF Acts, Turns, Depths
  <2> QED BY <1>2, <1>7, <2>1
<1>11. \A d \in Nat : d > low =>
         \A u : /\ ~Is(th, d, {"release"}, u) /\ ~Is(th, d, {"release"}, u)'
                /\ ~Kept(th, d, u) /\ ~Kept(th, d, u)'
                /\ ~Is(th, d, {"retain"}, u) /\ ~Is(th, d, {"retain"}, u)'
                /\ ~On(th, d, u) /\ ~Is(th, d, Cascades, u) /\ (Is(th, d, Ending, u) => u = t)
  BY <1>2, <1>3, <1>4, <1>5, <1>10 DEF Is, Kept, On, Ending, Cascades
<1>12. low + 1 \in Nat /\ low + 1 > low BY <1>2
<1>13. \A u : ~On(th, low + 1, u) /\ ~Is(th, low + 1, Cascades, u) BY <1>11, <1>12
<1>14. Nested' BY <1>0, <1>6, <1>8, <1>10, NestedTurn
<1>15. Snapped' BY <1>0, <1>6, <1>8, <1>10, SnappedTurn
<1>16. Held'
  <2>1. \A u \in Tokens : mu[u] # th BY <1>0, <1>2, <1>3, NoScan
  <2> QED BY <1>0, <1>6, <1>8, <1>10, <2>1, HeldTurn
<1>17. Private' BY <1>0, <1>6, <1>8, <1>10, PrivateTurn
<1>18. Ends'
  <2>1. ASSUME NEW x \in Threads, NEW d, NEW u, Keeps(th, low, x, d), Is(x, d, Ending, u)
        PROVE  refcount'[u] = 0 /\ (parent'[u] = None <=> parent[u] = None)
    <3>1. d \in Depths(x) /\ Call(x, d).do \in Ending /\ Call(x, d).tok = u BY <2>1 DEF Is
    <3>2. refcount[u] = 0 BY <1>0, <3>1 DEF Ends, EndsAt
    <3> QED BY <1>6, <3>2
  <2> QED BY <1>0, <1>8, <1>10, <2>1, EndsTurn
<1>19. Alive'
  <2>1. SUFFICES ASSUME NEW u \in Tokens PROVE AliveAt(u)' BY DEF Alive
  <2>2. AliveAt(u) BY <1>0 DEF Alive
  <2>3. IsEnding(u)' <=> \E x \in Threads : \E d : Keeps(th, low, x, d) /\ Is(x, d, Ending, u)
    BY <1>0, <1>8, <1>10, EndingTurn
  <2>4. CASE u = t
    <3>1. ~IsEnding(u)'
      <4>1. SUFFICES ASSUME NEW x \in Threads, NEW d, Keeps(th, low, x, d), Is(x, d, Ending, t)
                     PROVE  FALSE
        BY <2>3, <2>4
      <4>2. d \in Depths(x) /\ (x # th \/ d <= low) BY <4>1 DEF Keeps
      <4>3. x = th /\ d = low + 1 BY <1>5, <4>1, <4>2
      <4> QED BY <1>2, <4>2, <4>3
    <3> QED BY <1>5, <1>6, <1>9, <2>4, <3>1 DEF AliveAt
  <2>5. CASE u # t
    <3>1. ~Is(th, low + 1, Ending, u) BY <1>11, <1>12, <2>5
    <3>2. IsEnding(u) <=> \E x \in Threads : \E d : Keeps(th, low, x, d) /\ Is(x, d, Ending, u)
      BY <1>0, <1>8, <3>1, EndingNow
    <3> QED BY <1>6, <1>9, <2>2, <2>3, <2>5, <3>2 DEF AliveAt
  <2> QED BY <2>4, <2>5
<1>20. Covered'
  <2>1. \A x \in Tokens : Endangered(x)' => Endangered(x) BY <1>6 DEF Endangered
  <2> QED BY <1>0, <1>8, <1>13, <2>1, CoveredTurn
<1>21. Reaches'
  <2>1. \A x \in Tokens : Complete(x) => Complete(x)' BY <1>6, CompleteCalm
  <2> QED BY <1>0, <1>6, <1>8, <1>10, <1>13, <2>1, ReachesTurn
<1>22. Balanced'
  <2> SUFFICES ASSUME NEW u \in Tokens PROVE BalancedAt(u)' BY DEF Balanced
  <2>1. Handles(u)' = Handles(u) /\ Linked(u)' = Linked(u)
    <3>1. low = 0 => \A c \in Tokens : (Is(th, 1, {"retain"}, c)' <=> Is(th, 1, {"retain"}, c))
      BY <1>11, <1>12
    <3> QED BY <1>0, <1>6, <1>8, <3>1, SameSets
  <2> QED BY <1>6, <1>8, <1>9, <1>11, <2>1, SameCount
<1> QED BY <1>9, <1>14, <1>15, <1>16, <1>17, <1>18, <1>19, <1>20, <1>21, <1>22 DEF IInv

-----------------------------------------------------------------------------
LEMMA Initially == Init => IInv
<1> SUFFICES ASSUME Init PROVE IInv OBVIOUS
<1>1. Shapes
  <2>1. stack \in [Threads -> Seq(FrameType)] BY DEF Init
  <2> QED BY <2>1 DEF Init, Shapes
<1>2. \A th \in Threads : Depths(th) = {}
  <2>1. ASSUME NEW th \in Threads PROVE Depths(th) = {}
    <3>1. Idle(th) BY DEF Init, Idle
    <3> QED BY <3>1, IdleFacts
  <2> QED BY <2>1
<1>3. \A th \in Threads : \A d, ops, t : ~Is(th, d, ops, t) /\ ~Kept(th, d, t)
  BY <1>2 DEF Is, Kept
<1>4. Nested /\ Snapped /\ Private /\ Ends /\ Reaches
  BY <1>2 DEF Nested, Snapped, Private, Ends, Reaches
<1>5. Held BY <1>2, CancelTreeAssumption DEF Held, Init
<1>6. Balanced
  <2>1. SUFFICES ASSUME NEW t \in Tokens PROVE BalancedAt(t) BY DEF Balanced
  <2>2. Handles(t) = {} BY DEF Handles, Init
  <2>3. Linked(t) = {} BY CancelTreeAssumption DEF Linked, Init
  <2>4. Releases(t) = {} /\ Snapshots(t) = {} BY <1>3 DEF Releases, Snapshots
  <2>5. IsFiniteSet({}) /\ Cardinality({}) = 0 BY FS_EmptySet
  <2>6. refcount[t] = 0 BY DEF Init
  <2> QED BY <2>2, <2>3, <2>4, <2>5, <2>6 DEF BalancedAt
<1>7. Alive
  <2>1. \A t \in Tokens : ~IsEnding(t) BY <1>2 DEF IsEnding
  <2> QED BY <2>1 DEF Alive, AliveAt, Init
<1>8. Covered BY DEF Covered, Endangered, Init
<1> QED BY <1>1, <1>4, <1>5, <1>6, <1>7, <1>8 DEF IInv

LEMMA Inductive == IInv /\ [Next]_vars => IInv'
<1> SUFFICES ASSUME IInv, [Next]_vars PROVE IInv' OBVIOUS
<1>1. ASSUME NEW th \in Threads, Client(th) PROVE IInv'
  <2>1. ASSUME NEW t \in Tokens, New(th, t) PROVE IInv' BY <2>1, CreateStep
  <2>2. ASSUME NEW t \in Tokens, SetDeadline(th, t) PROVE IInv' BY <2>2, SetDeadlineStep
  <2>3. ASSUME NEW c \in Tokens, NEW p \in Tokens, ChildOf(th, c, p) PROVE IInv'
    BY <2>3, CreateStep
  <2>4. ASSUME NEW other \in Threads \ {th}, NEW t \in Tokens, Share(th, other, t) PROVE IInv'
    BY <2>4, ShareStep
  <2>5. ASSUME NEW do \in {"request", "release", "sleep"}, NEW t \in Tokens, Invoke(th, do, t)
        PROVE  IInv'
    BY <2>5, InvokeStep
  <2> QED BY <1>1, <2>1, <2>2, <2>3, <2>4, <2>5 DEF Client
<1>2. ASSUME NEW th \in Threads, Step(th) PROVE IInv'
  <2>1. CASE Link(th) BY <2>1, LinkStep
  <2>2. CASE Retain(th) BY <2>2, RetainStep
  <2>3. CASE Request(th) BY <2>3, RequestStep
  <2>4. CASE Scan(th) BY <2>4, ScanStep
  <2>5. CASE ScanEnd(th) BY <2>5, ScanEndStep
  <2>6. CASE Cascade(th) BY <2>6, CascadeEnds, CascadeOn
  <2>7. CASE Release(th) BY <2>7, ReleaseKeeps, ReleaseEnds
  <2>8. CASE Detach(th) BY <2>8, DetachStep
  <2>9. CASE Destroy(th) BY <2>9, DestroyStep
  <2>10. CASE SleepEnd(th) \/ Sleep(th) BY <2>10, SleepStep
  <2> QED BY <1>2, <2>1, <2>2, <2>3, <2>4, <2>5, <2>6, <2>7, <2>8, <2>9, <2>10 DEF Step
<1>3. ASSUME NEW th \in Threads, WakeUp(th) PROVE IInv' BY <1>3, SleepStep
<1>4. CASE UNCHANGED vars
  <2>1. UNCHANGED <<memory, refcount, cancelled, deadline, parent, mu, held, stack, baked>>
    BY <1>4 DEF vars
  <2>2. Shapes' <=> Shapes BY <2>1 DEF Shapes
  <2>3. Nested' <=> Nested BY <2>1 DEF Nested, NestedAt, Is, Call, Depths
  <2>4. Snapped' <=> Snapped BY <2>1 DEF Snapped, SnappedAt, Children, Call, Depths
  <2>5. Held' <=> Held BY <2>1 DEF Held, Is, Call, Depths
  <2>6. Private' <=> Private BY <2>1 DEF Private, PrivateAt, Call, Depths
  <2>7. Balanced' <=> Balanced
    BY <2>1 DEF Balanced, BalancedAt, Handles, Linked, Linking, Releases, Snapshots, Kept, Is,
       Call, Depths
  <2>8. Ends' <=> Ends BY <2>1 DEF Ends, EndsAt, Is, Call, Depths
  <2>9. Alive' <=> Alive BY <2>1 DEF Alive, AliveAt, IsEnding, Is, Call, Depths
  <2>10. Covered' <=> Covered BY <2>1 DEF Covered, Endangered, On, Is, Call, Depths
  <2>11. Reaches' <=> Reaches
    BY <2>1 DEF Reaches, ReachesAt, Complete, Below, Closed, Children, Is, Call, Depths
  <2> QED BY <2>2, <2>3, <2>4, <2>5, <2>6, <2>7, <2>8, <2>9, <2>10, <2>11 DEF IInv
<1> QED BY <1>1, <1>2, <1>3, <1>4 DEF Next

(* At every moment the counts, the stacks and the tree agree: IInv.        *)
THEOREM InductiveInvariant == Spec => []IInv
BY Initially, Inductive, PTL DEF Spec

-----------------------------------------------------------------------------
(* Every value has its type: no count ever drops below 0, and the mutex of *)
(* a token is held exactly by the thread that scans its children.          *)
THEOREM TypeCorrect == Spec => []TypeOK
<1>1. IInv => TypeOK
  <2> SUFFICES ASSUME IInv PROVE TypeOK OBVIOUS
  <2>0. Shapes /\ Nested /\ Held /\ Balanced BY DEF IInv
  <2>1. refcount \in [Tokens -> Nat]
    <3>1. \A t \in Tokens : refcount[t] \in Nat BY <2>0, CountFacts
    <3> QED BY <2>0, <3>1 DEF Shapes
  <2>2. ASSUME NEW t \in Tokens, NEW th \in Threads
        PROVE  mu[t] = th <=> Doing(th, "scan") /\ Top(th).tok = t
    <3>1. ASSUME mu[t] = th PROVE Doing(th, "scan") /\ Top(th).tok = t
      <4>1. PICK d \in Depths(th) : Is(th, d, {"scan"}, t) BY <2>0, <3>1 DEF Held
      <4>2. d = Len(stack[th]) BY <2>0, <4>1 DEF Nested, NestedAt, Is
      <4>3. ~Idle(th) BY <4>1, IdleFacts
      <4>4. Top(th) = Call(th, d) BY <2>0, <4>2, <4>3, TopTyped
      <4> QED BY <4>1, <4>3, <4>4 DEF Doing, Is
    <3>2. ASSUME Doing(th, "scan"), Top(th).tok = t PROVE mu[t] = th
      <4>1. ~Idle(th) /\ Top(th).do = "scan" BY <3>2 DEF Doing
      <4>2. PICK n : n = Len(stack[th]) OBVIOUS
      <4>3. n \in Depths(th) /\ Top(th) = Call(th, n) BY <2>0, <4>1, <4>2, TopTyped
      <4>4. Is(th, n, {"scan"}, t) BY <3>2, <4>1, <4>3 DEF Is
      <4> QED BY <2>0, <4>3, <4>4 DEF Held
    <3> QED BY <3>1, <3>2
  <2> QED BY <2>0, <2>1, <2>2 DEF TypeOK, Shapes, FrameType
<1> QED BY <1>1, InductiveInvariant, PTL

(* The calls of a thread are the frames of its stack.                      *)
LEMMA FramesAreCalls ==
  ASSUME Shapes, NEW th \in Threads
  PROVE  \A f : f \in Frames(th) <=> \E d \in Depths(th) : f = Call(th, d)
<1>1. Len(stack[th]) \in Nat BY DEF Shapes
<1>2. ASSUME NEW i \in 1..Len(stack[th])
      PROVE  \E d \in Depths(th) : stack[th][i] = Call(th, d)
  <2>1. PICK d : d = Len(stack[th]) + 1 - i OBVIOUS
  <2>2. d \in Depths(th) /\ Len(stack[th]) + 1 - d = i BY <1>1, <2>1 DEF Depths
  <2> QED BY <2>2 DEF Call
<1>3. ASSUME NEW d \in Depths(th) PROVE Len(stack[th]) + 1 - d \in 1..Len(stack[th])
  BY <1>1 DEF Depths
<1> QED BY <1>2, <1>3 DEF Frames, Call

(* Nothing that was freed is touched, and a token that nothing refers to   *)
(* any more has been freed: whatever the order in which handles, links and *)
(* cascades give their references back.                                    *)
THEOREM FreedWhenUnusedHolds == Spec => []FreedWhenUnused
<1>1. IInv => NoUseAfterFree
  <2> SUFFICES ASSUME IInv PROVE NoUseAfterFree OBVIOUS
  <2>0. Shapes /\ Nested /\ Snapped /\ Private /\ Balanced /\ Ends /\ Alive BY DEF IInv
  <2>1. \A t \in Tokens : refcount[t] > 0 => memory[t] = "live" BY <2>0 DEF Alive, AliveAt
  <2>2. ASSUME NEW th \in Threads, NEW t \in held[th] PROVE memory[t] = "live"
    <3>1. t \in Tokens BY <2>0 DEF Shapes
    <3> QED BY <2>0, <2>1, <3>1, CountFacts
  <2>3. ASSUME NEW c \in Tokens, parent[c] # None
        PROVE  memory[c] = "live" /\ memory[parent[c]] = "live"
    <3>1. parent[c] \in Tokens BY <2>0, <2>3 DEF Shapes
    <3>2. refcount[parent[c]] > 0 BY <2>0, <3>1, ParentCounts
    <3> QED BY <2>0, <2>1, <2>3, <3>1, <3>2 DEF Alive, AliveAt
  <2>4. ASSUME NEW th \in Threads, NEW d \in Depths(th), NEW f, f = Call(th, d)
        PROVE  \A t \in {f.tok} \cup ({f.of} \ {None}) \cup f.more \cup f.kids : memory[t] = "live"
    <3>1. f \in FrameType /\ d \in Nat BY <2>0, <2>4, CallTyped
    <3>2. f.tok \in Tokens /\ f.do \in Labels BY <3>1 DEF FrameType
    <3>3. NestedAt(th, d) /\ SnappedAt(th, d) /\ EndsAt(th, d) BY <2>0 DEF Nested, Snapped, Ends
    <3>4. memory[f.tok] = "live"
      <4>1. CASE f.do \in {"link", "retain", "sleep", "asleep"}
        BY <2>2, <2>4, <3>3, <4>1 DEF NestedAt
      <4>2. CASE f.do \in Cascades
        <5>1. CASE d = 1 /\ f.tok \in held[th] BY <2>2, <5>1
        <5>2. CASE d > 1 /\ Is(th, d - 1, {"release"}, f.tok)
          <6>1. d - 1 \in Nat BY <3>1, <5>2
          <6> QED BY <2>0, <2>1, <3>2, <5>2, <6>1, CountFacts
        <5> QED BY <2>4, <3>3, <4>2, <5>1, <5>2 DEF NestedAt
      <4>3. CASE f.do = "release"
        <5>1. Is(th, d, {"release"}, f.tok) BY <2>4, <4>3 DEF Is
        <5> QED BY <2>0, <2>1, <3>1, <3>2, <5>1, CountFacts
      <4>4. CASE f.do \in Ending
        <5>1. Is(th, d, Ending, f.tok) BY <2>4, <4>4 DEF Is
        <5>2. IsEnding(f.tok) BY <5>1 DEF IsEnding
        <5> QED BY <2>0, <3>2, <5>2 DEF Alive, AliveAt
      <4> QED BY <3>2, <4>1, <4>2, <4>3, <4>4 DEF Labels, Cascades, Ending
    <3>5. f.of # None => memory[f.of] = "live"
      <4>1. f.of # None => f.do \in {"link", "retain"} BY <2>4, <3>3 DEF SnappedAt
      <4>2. f.do \in {"link", "retain"} => f.of \in held[th] BY <2>4, <3>3 DEF NestedAt
      <4> QED BY <2>2, <4>1, <4>2
    <3>6. ASSUME NEW t \in f.more PROVE memory[t] = "live"
      <4>1. t \in Tokens /\ parent[t] = f.tok BY <2>4, <3>3 DEF SnappedAt, Children
      <4>2. parent[t] # None BY <3>2, <4>1, CancelTreeAssumption
      <4> QED BY <2>3, <4>1, <4>2
    <3>7. ASSUME NEW t \in f.kids PROVE memory[t] = "live"
      <4>1. t \in Tokens /\ Kept(th, d, t) BY <2>4, <3>1 DEF FrameType, Kept
      <4> QED BY <2>0, <2>1, <3>1, <4>1, CountFacts
    <3> QED BY <3>4, <3>5, <3>6, <3>7
  <2>5. ASSUME NEW th \in Threads, NEW f \in Frames(th)
        PROVE  \A t \in {f.tok} \cup ({f.of} \ {None}) \cup f.more \cup f.kids : memory[t] = "live"
    <3>1. PICK d \in Depths(th) : f = Call(th, d) BY <2>0, FramesAreCalls
    <3> QED BY <2>4, <3>1
  <2> QED BY <2>2, <2>3, <2>5 DEF NoUseAfterFree
<1>2. IInv => NothingLeaks
  <2> SUFFICES ASSUME IInv, \A th \in Threads : Idle(th), NEW t \in Tokens, memory[t] = "live"
               PROVE  (\E th \in Threads : t \in held[th]) \/ Children(t) # {}
    BY DEF NothingLeaks
  <2>0. Balanced /\ Alive BY DEF IInv
  <2>1. \A th \in Threads : Depths(th) = {} BY IdleFacts
  <2>2. ~IsEnding(t) BY <2>1 DEF IsEnding
  <2>3. refcount[t] > 0 BY <2>0, <2>2 DEF Alive, AliveAt
  <2> QED BY <2>0, <2>1, <2>3, CountFacts
<1>3. IInv => FreedWhenUnused BY <1>1, <1>2 DEF FreedWhenUnused
<1> QED BY <1>3, InductiveInvariant, PTL

(* No live child of a cancelled token slips out of the cascade: it is      *)
(* cancelled, or some call on some thread still has it to do.              *)
LEMMA NoneEscapesHolds == Spec => []NoneEscapes
<1>1. IInv => NoneEscapes
  <2> SUFFICES ASSUME IInv, NEW c \in Tokens, parent[c] # None, cancelled[parent[c]],
                      refcount[c] > 0, ~cancelled[c]
               PROVE  Underway(c)
    BY DEF NoneEscapes
  <2>0. Shapes /\ Covered BY DEF IInv
  <2>1. Endangered(c) BY DEF Endangered
  <2>2. PICK th \in Threads : \E d \in Depths(th) : On(th, d, c) BY <2>0, <2>1 DEF Covered
  <2>3. PICK d \in Depths(th) : On(th, d, c) BY <2>2
  <2>4. PICK f : f = Call(th, d) OBVIOUS
  <2>5. (f.do = "request" /\ f.tok = c) \/ c \in f.more \cup f.kids BY <2>3, <2>4 DEF On, Is
  <2>6. f \in Frames(th) BY <2>0, <2>4, FramesAreCalls
  <2> QED BY <2>5, <2>6 DEF Underway
<1> QED BY <1>1, InductiveInvariant, PTL

(* A cancellation that is about to return has reached everything below its *)
(* token that is not being destroyed, however many others cancel, link and *)
(* release at the same time.                                               *)
LEMMA RequestIsCompleteHolds == Spec => []RequestIsComplete
<1>1. IInv => RequestIsComplete
  <2> SUFFICES ASSUME IInv, NEW th \in Threads, Doing(th, "cascade"), Top(th).kids = {}
               PROVE  Complete(Top(th).tok)
    BY DEF RequestIsComplete, Complete
  <2>0. Shapes /\ Snapped /\ Reaches BY DEF IInv
  <2>1. ~Idle(th) /\ Top(th).do = "cascade" BY DEF Doing
  <2>2. PICK low \in Nat, f \in FrameType :
          /\ Len(stack[th]) = low + 1 /\ low + 1 \in Depths(th)
          /\ f = Top(th) /\ f = Call(th, low + 1) /\ Depths(th) = 1..(low + 1)
    BY <2>0, <2>1, Busy
  <2>3. f.do = "cascade" /\ f.kids = {} BY <2>1, <2>2
  <2>4. PICK t : t = f.tok OBVIOUS
  <2>5. t \in Tokens /\ f.more = {}
    <3>1. SnappedAt(th, low + 1) BY <2>0, <2>2 DEF Snapped
    <3> QED BY <2>2, <2>3, <2>4, <3>1 DEF FrameType, SnappedAt
  <2>6. cancelled[t] /\ \A c \in Children(t) :
          \/ c \in f.more \cup f.kids
          \/ low + 1 + 2 \in Depths(th) /\ Is(th, low + 1 + 1, {"release"}, c)
          \/ Complete(c)
    BY <2>0, <2>2, <2>3, <2>4 DEF Reaches, ReachesAt
  <2>7. low + 1 + 2 \notin Depths(th) BY <2>2
  <2>8. \A c \in Children(t) : Complete(c) BY <2>3, <2>5, <2>6, <2>7
  <2>9. Complete(t) BY <2>5, <2>6, <2>8, CompleteByChildren
  <2> QED BY <2>2, <2>4, <2>9
<1> QED BY <1>1, InductiveInvariant, PTL

(* Both: no child slips out on the way, and none is missing at the end.    *)
THEOREM CascadeReachesAllHolds == Spec => []CascadeReachesAll
BY NoneEscapesHolds, RequestIsCompleteHolds, PTL DEF CascadeReachesAll

-----------------------------------------------------------------------------
(***************************************************************************)
(* The tokens implement TokenTree.  Beside IInv this needs where a         *)
(* cancellation comes from, and that a token about to be linked is a leaf  *)
(* (FromAbove): what is cancelled is held by the thread that cancels it,   *)
(* or is, and until its cascade is over stays, a child of a cancelled one. *)
(***************************************************************************)
Above(th, f) ==
  /\ f.kids \subseteq Children(f.tok)
  /\ f.do = "link" => f.of # f.tok /\ Children(f.tok) = {}
  /\ f.do = "request" =>
       f.tok \in held[th] \/ (parent[f.tok] # None /\ cancelled[parent[f.tok]])
FromAbove == \A th \in Threads : \A f \in Frames(th) : Above(th, f)

(* What IInv says of a call, and of the newest one.                        *)
LEMMA FrameFacts ==
  ASSUME IInv, NEW th \in Threads, NEW f \in Frames(th)
  PROVE  /\ f \in FrameType
         /\ \A t \in f.kids : t \in Tokens /\ refcount[t] > 0
         /\ f.more \subseteq Children(f.tok)
         /\ f.do = "request" => refcount[f.tok] > 0
         /\ f.do \in {"scan", "cascade"} => cancelled[f.tok]
         /\ f.do = "link" => /\ f.tok \in held[th] /\ f.of \in held[th] /\ parent[f.tok] = None
                             /\ \A x \in Threads \ {th} : f.tok \notin held[x]
                             /\ f = Top(th)
         /\ f.do \in Ending => /\ refcount[f.tok] = 0 /\ memory[f.tok] = "live"
                               /\ f.do = "free" <=> parent[f.tok] = None
<1>0. Shapes /\ Nested /\ Snapped /\ Private /\ Balanced /\ Ends /\ Alive /\ Reaches BY DEF IInv
<1>1. PICK d \in Depths(th) : f = Call(th, d) BY <1>0, FramesAreCalls
<1>2. f \in FrameType /\ d \in Nat BY <1>0, <1>1, CallTyped
<1>3. /\ NestedAt(th, d) /\ SnappedAt(th, d) /\ PrivateAt(th, d) /\ EndsAt(th, d)
      /\ ReachesAt(th, d)
  BY <1>0 DEF Nested, Snapped, Private, Ends, Reaches
<1>4. f.tok \in Tokens BY <1>2 DEF FrameType
<1>5. ASSUME NEW t \in f.kids PROVE t \in Tokens /\ refcount[t] > 0
  <2>1. t \in Tokens /\ Kept(th, d, t) BY <1>1, <1>2 DEF FrameType, Kept
  <2> QED BY <1>0, <1>2, <2>1, CountFacts
<1>6. f.more \subseteq Children(f.tok) BY <1>1, <1>3 DEF SnappedAt
<1>7. ASSUME f.do = "request" PROVE refcount[f.tok] > 0
  <2>1. f.tok \in held[th] \/ (d > 1 /\ Is(th, d - 1, {"release"}, f.tok))
    BY <1>1, <1>3, <1>7 DEF NestedAt, Cascades
  <2>2. d > 1 => d - 1 \in Nat BY <1>2
  <2> QED BY <1>0, <1>4, <2>1, <2>2, CountFacts
<1>8. f.do \in {"scan", "cascade"} => cancelled[f.tok] BY <1>1, <1>3 DEF ReachesAt
<1>9. f.do = "link" => /\ f.tok \in held[th] /\ f.of \in held[th] /\ parent[f.tok] = None
                       /\ \A x \in Threads \ {th} : f.tok \notin held[x]
                       /\ f = Top(th)
  <2>1. ASSUME f.do = "link" PROVE f = Top(th)
    <3>1. Len(stack[th]) = 1 BY <1>1, <1>3, <2>1 DEF NestedAt
    <3>2. d = 1 BY <1>1, <3>1 DEF Depths
    <3> QED BY <1>1, <3>1, <3>2 DEF Call, Top
  <2> QED BY <1>1, <1>3, <2>1 DEF NestedAt, PrivateAt
<1>10. ASSUME f.do \in Ending
       PROVE  /\ refcount[f.tok] = 0 /\ memory[f.tok] = "live"
              /\ f.do = "free" <=> parent[f.tok] = None
  <2>1. Is(th, d, Ending, f.tok) BY <1>1, <1>10 DEF Is
  <2>2. IsEnding(f.tok) BY <2>1 DEF IsEnding
  <2>3. memory[f.tok] = "live" BY <1>0, <1>4, <2>2 DEF Alive, AliveAt
  <2> QED BY <1>1, <1>3, <1>10, <2>3 DEF EndsAt
<1> QED BY <1>2, <1>5, <1>6, <1>7, <1>8, <1>9, <1>10

LEMMA TopFrame ==
  ASSUME Shapes, NEW th \in Threads, ~Idle(th)
  PROVE  Top(th) \in Frames(th) /\ Top(th) \in FrameType
<1>1. PICK n : n = Len(stack[th]) OBVIOUS
<1>2. n \in Depths(th) /\ Top(th) = Call(th, n) /\ Top(th) \in FrameType BY <1>1, TopTyped
<1> QED BY <1>2, FramesAreCalls

(* What a step leaves on the stacks: what was there, and what it pushes.   *)
LEMMA FramesOver ==
  ASSUME NEW s \in Seq(FrameType), s # <<>>, NEW fs \in Seq(FrameType), NEW r, r = fs \o Tail(s)
  PROVE  {r[i] : i \in 1..Len(r)} \subseteq {fs[i] : i \in 1..Len(fs)} \cup {s[i] : i \in 1..Len(s)}
<1>1. Len(s) \in Nat \ {0} /\ Len(fs) \in Nat BY EmptySeq, LenProperties
<1>2. /\ Len(r) = Len(fs) + Len(s) - 1
      /\ \A d \in 1..(Len(s) - 1) : r[Len(r) + 1 - d] = s[Len(s) + 1 - d]
      /\ \A i \in 1..Len(fs) : r[i] = fs[i]
  BY OverTail
<1>3. ASSUME NEW i \in 1..Len(r)
      PROVE  r[i] \in {fs[j] : j \in 1..Len(fs)} \cup {s[j] : j \in 1..Len(s)}
  <2>1. CASE i <= Len(fs) BY <1>1, <1>2, <2>1
  <2>2. CASE i > Len(fs)
    <3>1. PICK d : d = Len(r) + 1 - i OBVIOUS
    <3>2. d \in 1..(Len(s) - 1) /\ Len(r) + 1 - d = i /\ Len(s) + 1 - d \in 1..Len(s)
      BY <1>1, <1>2, <2>2, <3>1
    <3>3. r[i] = s[Len(s) + 1 - d] BY <1>2, <3>2
    <3> QED BY <3>2, <3>3
  <2> QED BY <1>1, <1>2, <2>1, <2>2
<1> QED BY <1>3

LEMMA FramesContinued ==
  ASSUME Shapes, NEW th \in Threads, ~Idle(th), NEW fs \in Seq(FrameType), Continue(th, fs)
  PROVE  \A x \in Threads : \A f \in Frames(x)' :
           f \in Frames(x) \/ (x = th /\ \E i \in 1..Len(fs) : f = fs[i])
<1>1. stack[th] \in Seq(FrameType) /\ stack[th] # <<>> BY DEF Shapes, Idle
<1>2. stack'[th] = fs \o Tail(stack[th]) /\ \A x \in Threads \ {th} : stack'[x] = stack[x]
  BY DEF Continue, Shapes
<1>3. {stack'[th][i] : i \in 1..Len(stack'[th])} \subseteq
        {fs[i] : i \in 1..Len(fs)} \cup {stack[th][i] : i \in 1..Len(stack[th])}
  BY <1>1, <1>2, FramesOver
<1> QED BY <1>2, <1>3 DEF Frames

LEMMA FramesWoken ==
  ASSUME Shapes, NEW t \in Tokens, NEW x \in Threads, stack'[x] = Broadcast(t)[x]
  PROVE  \A f \in Frames(x)' : f \in Frames(x) \/ f = Frame("sleep", t)
<1>1. CASE ~Asleep(x, t)
  <2>1. stack'[x] = stack[x] BY <1>1 DEF Broadcast
  <2> QED BY <2>1 DEF Frames
<1>2. CASE Asleep(x, t)
  <2>1. ~Idle(x) BY <1>2 DEF Asleep, Doing
  <2>2. stack[x] \in Seq(FrameType) /\ stack[x] # <<>> BY <2>1 DEF Shapes, Idle
  <2>3. Frame("sleep", t) \in FrameType BY FrameTyped DEF Labels
  <2>4. PICK fs : fs = <<Frame("sleep", t)>> OBVIOUS
  <2>5. fs \in Seq(FrameType) BY <2>3, <2>4
  <2>6. Len(fs) = 1 /\ fs[1] = Frame("sleep", t) BY <2>4
  <2>7. PICK r : r = stack'[x] OBVIOUS
  <2>8. r = fs \o Tail(stack[x]) BY <1>2, <2>4, <2>7 DEF Broadcast
  <2>9. {r[i] : i \in 1..Len(r)} \subseteq
          {fs[i] : i \in 1..Len(fs)} \cup {stack[x][i] : i \in 1..Len(stack[x])}
    BY <2>2, <2>5, <2>8, FramesOver
  <2>10. Frames(x)' = {r[i] : i \in 1..Len(r)} BY <2>7 DEF Frames
  <2>11. \A i \in 1..Len(fs) : fs[i] = Frame("sleep", t) BY <2>6
  <2> QED BY <2>9, <2>10, <2>11 DEF Frames
<1> QED BY <1>1, <1>2

-----------------------------------------------------------------------------
(* FromAbove is kept by a step that changes no link, takes no cancellation *)
(* back and leaves handles to whoever is in a call.                        *)
LEMMA AboveKept ==
  ASSUME IInv, FromAbove, UNCHANGED parent, \A t \in Tokens : cancelled[t] => cancelled'[t],
         NEW x \in Threads, held[x] \subseteq held'[x], NEW f \in Frames(x)
  PROVE  Above(x, f)'
<1>1. Above(x, f) BY DEF FromAbove
<1>2. f \in FrameType /\ parent \in [Tokens -> Tokens \cup {None}] BY FrameFacts DEF IInv, Shapes
<1>3. f.tok \in Tokens /\ (parent[f.tok] # None => parent[f.tok] \in Tokens)
  BY <1>2 DEF FrameType
<1> QED BY <1>1, <1>3 DEF Above, Children

LEMMA AboveStep ==
  ASSUME IInv, FromAbove, UNCHANGED parent, \A t \in Tokens : cancelled[t] => cancelled'[t],
         \A x \in Threads : held[x] \subseteq held'[x] \/ Frames(x) = {},
         \A x \in Threads : \A f \in Frames(x)' : f \in Frames(x) \/ Above(x, f)'
  PROVE  FromAbove'
<1> SUFFICES ASSUME NEW x \in Threads, NEW f \in Frames(x)' PROVE Above(x, f)'
  BY DEF FromAbove
<1> QED BY AboveKept

(* A call that is not a request, a link or a cascade has nothing to say.   *)
LEMMA Plain ==
  ASSUME NEW do \in Labels \ {"link", "request"}, NEW t \in Tokens
  PROVE  \A x : Above(x, Frame(do, t))'
BY DEF Above, Frame

LEMMA IdleFrames ==
  ASSUME NEW th \in Threads, Idle(th)
  PROVE  Frames(th) = {}
BY DEF Idle, Frames

LEMMA StartsFrame ==
  ASSUME Shapes, NEW th \in Threads, Idle(th), NEW g, stack' = [stack EXCEPT ![th] = <<g>>]
  PROVE  \A x \in Threads : \A f \in Frames(x)' : f \in Frames(x) \/ (x = th /\ f = g)
<1>1. stack'[th] = <<g>> /\ \A x \in Threads \ {th} : stack'[x] = stack[x] BY DEF Shapes
<1>2. Len(<<g>>) = 1 /\ <<g>>[1] = g OBVIOUS
<1>3. \A f \in Frames(th)' : f = g BY <1>1, <1>2 DEF Frames
<1>4. \A x \in Threads \ {th} : Frames(x)' = Frames(x) BY <1>1 DEF Frames
<1> QED BY <1>3, <1>4

LEMMA HeldCounts ==
  ASSUME IInv, NEW th \in Threads, NEW t \in held[th]
  PROVE  t \in Tokens /\ refcount[t] > 0 /\ memory[t] = "live"
<1>0. Shapes /\ Balanced /\ Alive BY DEF IInv
<1>1. t \in Tokens BY <1>0 DEF Shapes
<1>2. refcount[t] > 0 BY <1>0, <1>1, CountFacts
<1> QED BY <1>0, <1>1, <1>2 DEF Alive, AliveAt

(* Nobody needs a token whose count is 0.                                  *)
LEMMA CountlessIsUnneeded ==
  ASSUME IInv, NEW t \in Tokens, ~(refcount[t] > 0)
  PROVE  Children(t) = {} /\ \A th \in Threads : t \notin held[th]
<1>0. Shapes /\ Nested /\ Private /\ Balanced BY DEF IInv
<1>1. Children(t) = {} BY <1>0, ParentCounts DEF Children
<1> QED BY <1>1, HeldCounts

LEMMA CreateAbove ==
  ASSUME IInv, FromAbove, NEW th \in Threads, NEW c \in Tokens, NEW p \in Tokens,
         ChildOf(th, c, p)
  PROVE  FromAbove'
<1>0. Shapes /\ Alive /\ Balanced BY DEF IInv
<1>1. PICK g : g = [Frame("link", c) EXCEPT !.of = p] OBVIOUS
<1>2. /\ Idle(th) /\ p \in held[th] /\ memory[c] = "unborn"
      /\ stack' = [stack EXCEPT ![th] = <<g>>]
      /\ held' = [held EXCEPT ![th] = @ \cup {c}]
      /\ UNCHANGED <<parent, cancelled>>
  BY <1>1 DEF ChildOf, Create
<1>3. g.do = "link" /\ g.tok = c /\ g.of = p /\ g.kids = {} BY <1>1 DEF Frame
<1>4. p # c BY <1>2, HeldCounts
<1>5. ~(refcount[c] > 0) BY <1>0, <1>2 DEF Alive, AliveAt
<1>6. Children(c)' = {} BY <1>2, <1>5, CountlessIsUnneeded DEF Children
<1>7. Above(th, g)' BY <1>3, <1>4, <1>6 DEF Above
<1>8. \A x \in Threads : \A f \in Frames(x)' : f \in Frames(x) \/ (x = th /\ f = g)
  BY <1>0, <1>2, StartsFrame
<1>9. \A x \in Threads : held[x] \subseteq held'[x] BY <1>0, <1>2 DEF Shapes
<1> QED BY <1>2, <1>7, <1>8, <1>9, AboveStep

LEMMA InvokeAbove ==
  ASSUME IInv, FromAbove, NEW th \in Threads, NEW t \in Tokens,
         NEW do \in {"request", "release", "sleep"}, Invoke(th, do, t)
  PROVE  FromAbove'
<1>0. Shapes BY DEF IInv
<1>2. /\ Idle(th) /\ t \in held[th] /\ stack' = [stack EXCEPT ![th] = <<Frame(do, t)>>]
      /\ held' = IF do = "release" THEN [held EXCEPT ![th] = @ \ {t}] ELSE held
      /\ UNCHANGED <<parent, cancelled>>
  BY DEF Invoke
<1>3. Above(th, Frame(do, t))'
  <2>1. CASE do # "request" BY <2>1, Plain DEF Labels
  <2>2. CASE do = "request" BY <1>2, <2>2 DEF Above, Frame
  <2> QED BY <2>1, <2>2
<1>4. \A x \in Threads : \A f \in Frames(x)' : f \in Frames(x) \/ (x = th /\ f = Frame(do, t))
  BY <1>0, <1>2, StartsFrame
<1>5. \A x \in Threads : held[x] \subseteq held'[x] \/ Frames(x) = {}
  BY <1>0, <1>2, IdleFrames DEF Shapes
<1> QED BY <1>2, <1>3, <1>4, <1>5, AboveStep

(* New, Share, SetDeadline and the sleeps.                                 *)
LEMMA ClientAbove ==
  ASSUME IInv, FromAbove, NEW th \in Threads, Client(th)
  PROVE  FromAbove'
<1>0. Shapes BY DEF IInv
<1>1. ASSUME NEW t \in Tokens, New(th, t) PROVE FromAbove'
  <2>1. /\ UNCHANGED <<parent, cancelled, stack>> /\ held' = [held EXCEPT ![th] = @ \cup {t}]
    BY <1>1 DEF New, Create
  <2>2. \A x \in Threads : Frames(x)' = Frames(x) /\ held[x] \subseteq held'[x]
    BY <1>0, <2>1 DEF Frames, Shapes
  <2> QED BY <2>1, <2>2, AboveStep
<1>2. ASSUME NEW t \in Tokens, SetDeadline(th, t) PROVE FromAbove'
  <2>1. UNCHANGED <<parent, cancelled, held>> /\ stack' = Broadcast(t) BY <1>2 DEF SetDeadline
  <2>2. \A x \in Threads : \A f \in Frames(x)' : f \in Frames(x) \/ f = Frame("sleep", t)
    BY <1>0, <2>1, FramesWoken
  <2>3. \A x : Above(x, Frame("sleep", t))' BY Plain DEF Labels
  <2> QED BY <2>1, <2>2, <2>3, AboveStep
<1>3. ASSUME NEW other \in Threads \ {th}, NEW t \in Tokens, Share(th, other, t) PROVE FromAbove'
  <2>1. /\ UNCHANGED <<parent, cancelled, stack>> /\ held' = [held EXCEPT ![other] = @ \cup {t}]
    BY <1>3 DEF Share
  <2>2. \A x \in Threads : Frames(x)' = Frames(x) /\ held[x] \subseteq held'[x]
    BY <1>0, <2>1 DEF Frames, Shapes
  <2> QED BY <2>1, <2>2, AboveStep
<1> QED BY <1>1, <1>2, <1>3, CreateAbove, InvokeAbove DEF Client

(* A call that goes on changes its newest frame, and keeps the rest.       *)
LEMMA ContinuedAbove ==
  ASSUME IInv, FromAbove, NEW th \in Threads, ~Idle(th), NEW fs \in Seq(FrameType),
         Continue(th, fs), UNCHANGED <<parent, cancelled, held>>,
         \A i \in 1..Len(fs) : Above(th, fs[i])'
  PROVE  FromAbove'
<1>1. \A x \in Threads : \A f \in Frames(x)' :
        f \in Frames(x) \/ (x = th /\ \E i \in 1..Len(fs) : f = fs[i])
  BY FramesContinued DEF IInv
<1>2. \A x \in Threads : \A f \in Frames(x)' : f \in Frames(x) \/ Above(x, f)' BY <1>1
<1> QED BY <1>2, AboveStep

LEMMA ContinuedByOne ==
  ASSUME IInv, FromAbove, NEW th \in Threads, ~Idle(th), NEW g \in FrameType,
         Continue(th, <<g>>), UNCHANGED <<parent, cancelled, held>>, Above(th, g)'
  PROVE  FromAbove'
<1>1. <<g>> \in Seq(FrameType) /\ \A i \in 1..Len(<<g>>) : <<g>>[i] = g OBVIOUS
<1> QED BY <1>1, ContinuedAbove

LEMMA ReturnAbove ==
  ASSUME IInv, FromAbove, NEW th \in Threads, ~Idle(th), Return(th),
         UNCHANGED <<parent, cancelled, held>>
  PROVE  FromAbove'
<1>1. <<>> \in Seq(FrameType) /\ 1..Len(<<>>) = {} OBVIOUS
<1>2. Continue(th, <<>>) BY DEF Return
<1> QED BY <1>1, <1>2, ContinuedAbove

LEMMA RequestAbove ==
  ASSUME IInv, FromAbove, NEW th \in Threads, Request(th)
  PROVE  FromAbove'
<1>0. Shapes BY DEF IInv
<1>1. ~Idle(th) /\ Top(th).do = "request" BY DEF Request, Doing
<1>2. PICK f \in FrameType : f = Top(th) /\ f \in Frames(th) BY <1>0, <1>1, TopFrame
<1>3. PICK t \in Tokens : t = f.tok BY DEF FrameType
<1>4. PICK g : g = [f EXCEPT !.do = "scan", !.more = Children(t)] OBVIOUS
<1>5. /\ UNCHANGED <<parent, held>> /\ cancelled' = [cancelled EXCEPT ![t] = TRUE]
      /\ stack' = [Broadcast(t) EXCEPT ![th] = <<g>> \o Tail(@)]
  BY <1>2, <1>3, <1>4 DEF Request
<1>6. g \in FrameType /\ g.do = "scan" /\ g.tok = t /\ g.kids = f.kids
  BY <1>2, <1>3, <1>4 DEF FrameType, Labels, Children
<1>7. Above(th, g)'
  <2>1. Above(th, f) BY <1>2 DEF FromAbove
  <2> QED BY <1>3, <1>5, <1>6, <2>1 DEF Above, Children
<1>8. \A x \in Threads \ {th} : stack'[x] = Broadcast(t)[x] BY <1>5 DEF Broadcast
<1>9. Broadcast(t)[th] = stack[th] BY <1>1 DEF Broadcast, Asleep, Doing
<1>10. stack'[th] = <<g>> \o Tail(stack[th]) BY <1>5, <1>9 DEF Broadcast
<1>11. \A f2 \in Frames(th)' : f2 \in Frames(th) \/ f2 = g
  <2>1. stack[th] \in Seq(FrameType) /\ stack[th] # <<>> BY <1>0, <1>1 DEF Shapes, Idle
  <2>2. <<g>> \in Seq(FrameType) /\ \A i \in 1..Len(<<g>>) : <<g>>[i] = g BY <1>6
  <2>3. {stack'[th][i] : i \in 1..Len(stack'[th])} \subseteq
          {<<g>>[i] : i \in 1..Len(<<g>>)} \cup {stack[th][i] : i \in 1..Len(stack[th])}
    BY <1>10, <2>1, <2>2, FramesOver
  <2> QED BY <2>2, <2>3 DEF Frames
<1>12. \A x \in Threads \ {th} : \A f2 \in Frames(x)' : f2 \in Frames(x) \/ f2 = Frame("sleep", t)
  BY <1>0, <1>8, FramesWoken
<1>13. \A x : Above(x, Frame("sleep", t))' BY Plain DEF Labels
<1>14. \A x \in Threads : \A f2 \in Frames(x)' : f2 \in Frames(x) \/ Above(x, f2)'
  BY <1>7, <1>11, <1>12, <1>13
<1>15. \A y \in Tokens : cancelled[y] => cancelled'[y] BY <1>0, <1>5 DEF Shapes
<1> QED BY <1>5, <1>14, <1>15, AboveStep

LEMMA ScanAbove ==
  ASSUME IInv, FromAbove, NEW th \in Threads, Scan(th) \/ ScanEnd(th)
  PROVE  FromAbove'
<1>0. Shapes BY DEF IInv
<1>1. ~Idle(th) /\ Top(th).do = "scan" /\ UNCHANGED <<parent, cancelled, held>>
  BY DEF Scan, ScanEnd, Doing
<1>2. PICK f \in FrameType : f = Top(th) /\ f \in Frames(th) BY <1>0, <1>1, TopFrame
<1>3. Above(th, f) /\ f.more \subseteq Children(f.tok) BY <1>2, FrameFacts DEF FromAbove
<1>4. PICK g \in FrameType :
        /\ Continue(th, <<g>>) /\ g.do \in {"scan", "cascade"} /\ g.tok = f.tok
        /\ g.kids \subseteq f.kids \cup f.more
  <2>1. CASE Scan(th)
    <3>1. PICK c \in f.more :
            \/ Continue(th, <<[f EXCEPT !.more = @ \ {c}]>>)
            \/ Continue(th, <<[f EXCEPT !.more = @ \ {c}, !.kids = @ \cup {c}]>>)
      BY <1>2, <2>1 DEF Scan
    <3>2. CASE Continue(th, <<[f EXCEPT !.more = @ \ {c}]>>)
      <4>1. PICK g : g = [f EXCEPT !.more = @ \ {c}] OBVIOUS
      <4>2. c \in Tokens BY <1>2, <3>1 DEF FrameType
      <4>3. g \in FrameType /\ g.do = "scan" /\ g.tok = f.tok /\ g.kids = f.kids
        BY <1>1, <1>2, <4>1, <4>2 DEF FrameType
      <4>4. Continue(th, <<g>>) BY <3>2, <4>1
      <4>5. g.kids \subseteq f.kids \cup f.more BY <4>3
      <4> QED BY <4>3, <4>4, <4>5
    <3>3. CASE Continue(th, <<[f EXCEPT !.more = @ \ {c}, !.kids = @ \cup {c}]>>)
      <4>1. PICK g : g = [f EXCEPT !.more = @ \ {c}, !.kids = @ \cup {c}] OBVIOUS
      <4>2. c \in Tokens BY <1>2, <3>1 DEF FrameType
      <4>3. g \in FrameType /\ g.do = "scan" /\ g.tok = f.tok /\ g.kids = f.kids \cup {c}
        BY <1>1, <1>2, <4>1, <4>2 DEF FrameType
      <4>4. Continue(th, <<g>>) BY <3>3, <4>1
      <4>5. g.kids \subseteq f.kids \cup f.more BY <4>3
      <4> QED BY <4>3, <4>4, <4>5
    <3> QED BY <3>1, <3>2, <3>3
  <2>2. CASE ScanEnd(th)
    <3>1. PICK g : g = [f EXCEPT !.do = "cascade"] OBVIOUS
    <3>2. Continue(th, <<g>>) BY <1>2, <2>2, <3>1 DEF ScanEnd
    <3> QED BY <1>2, <3>1, <3>2 DEF FrameType, Labels
  <2> QED BY <2>1, <2>2
<1>5. Above(th, g)' BY <1>1, <1>3, <1>4 DEF Above, Children
<1> QED BY <1>1, <1>4, <1>5, ContinuedByOne

LEMMA CascadeAbove ==
  ASSUME IInv, FromAbove, NEW th \in Threads, Cascade(th)
  PROVE  FromAbove'
<1>0. Shapes BY DEF IInv
<1>1. ~Idle(th) /\ Top(th).do = "cascade" /\ UNCHANGED <<parent, cancelled, held>>
  BY DEF Cascade, Doing
<1>2. PICK f \in FrameType : f = Top(th) /\ f \in Frames(th) BY <1>0, <1>1, TopFrame
<1>3. CASE f.kids = {}
  <2>1. Return(th) BY <1>2, <1>3 DEF Cascade
  <2> QED BY <1>1, <2>1, ReturnAbove
<1>4. CASE f.kids # {}
  <2>1. PICK c \in f.kids :
          Continue(th, <<Frame("request", c), Frame("release", c), [f EXCEPT !.kids = @ \ {c}]>>)
    BY <1>2, <1>4 DEF Cascade
  <2>2. PICK g : g = [f EXCEPT !.kids = @ \ {c}] OBVIOUS
  <2>3. /\ g \in FrameType /\ g.do = "cascade" /\ g.tok = f.tok /\ g.kids \subseteq f.kids
        /\ c \in Tokens /\ f.tok \in Tokens
    BY <1>1, <1>2, <2>2 DEF FrameType
  <2>4. Above(th, f) /\ cancelled[f.tok] BY <1>1, <1>2, FrameFacts DEF FromAbove
  <2>5. Above(th, g)' BY <1>1, <2>3, <2>4 DEF Above, Children
  <2>6. Above(th, Frame("release", c))' BY <2>3, Plain DEF Labels
  <2>7. Above(th, Frame("request", c))'
    <3>1. parent[c] = f.tok BY <2>4 DEF Above, Children
    <3>2. parent'[c] # None /\ cancelled'[parent'[c]]
      BY <1>1, <2>3, <2>4, <3>1, CancelTreeAssumption
    <3> QED BY <3>2 DEF Above, Frame
  <2>8. PICK fs : fs = <<Frame("request", c), Frame("release", c), g>> OBVIOUS
  <2>9. Frame("request", c) \in FrameType /\ Frame("release", c) \in FrameType
    BY <2>3, FrameTyped DEF Labels
  <2>10. /\ fs \in Seq(FrameType) /\ Continue(th, fs)
         /\ \A i \in 1..Len(fs) : fs[i] \in {Frame("request", c), Frame("release", c), g}
    BY <2>1, <2>2, <2>3, <2>8, <2>9
  <2>11. \A i \in 1..Len(fs) : Above(th, fs[i])' BY <2>5, <2>6, <2>7, <2>10
  <2> QED BY <1>1, <2>10, <2>11, ContinuedAbove
<1> QED BY <1>3, <1>4

LEMMA CallAbove ==
  ASSUME IInv, FromAbove, NEW th \in Threads,
         Retain(th) \/ Release(th) \/ Destroy(th) \/ SleepEnd(th) \/ Sleep(th) \/ WakeUp(th)
  PROVE  FromAbove'
<1>0. Shapes BY DEF IInv
<1>1. ~Idle(th) /\ UNCHANGED <<parent, cancelled, held>>
  BY DEF Retain, Release, Destroy, SleepEnd, Sleep, WakeUp, Doing
<1>2. Top(th) \in FrameType BY <1>0, <1>1, TopFrame
<1>3. Top(th).tok \in Tokens BY <1>2 DEF FrameType
<1>4. \/ Return(th)
      \/ \E do \in {"free", "detach", "asleep", "sleep"} : Continue(th, <<Frame(do, Top(th).tok)>>)
  BY DEF Retain, Release, Destroy, SleepEnd, Sleep, WakeUp
<1>5. ASSUME NEW do \in {"free", "detach", "asleep", "sleep"},
             Continue(th, <<Frame(do, Top(th).tok)>>)
      PROVE  FromAbove'
  <2>1. do \in Labels \ {"link", "request"} BY DEF Labels
  <2>2. Frame(do, Top(th).tok) \in FrameType BY <1>3, <2>1, FrameTyped
  <2>3. Above(th, Frame(do, Top(th).tok))
    BY <1>3, <2>1 DEF Above, Frame
  <2>4. PICK g : g = Frame(do, Top(th).tok) OBVIOUS
  <2>5. Above(th, g)' BY <1>1, <2>3, <2>4, <2>1 DEF Above, Frame, Children
  <2> QED BY <1>1, <1>5, <2>2, <2>4, <2>5, ContinuedByOne
<1> QED BY <1>1, <1>4, <1>5, ReturnAbove

LEMMA LinkAbove ==
  ASSUME IInv, FromAbove, NEW th \in Threads, Link(th)
  PROVE  FromAbove'
<1>0. Shapes BY DEF IInv
<1>1. ~Idle(th) /\ Top(th).do = "link" /\ UNCHANGED <<cancelled, held>> BY DEF Link, Doing
<1>2. PICK f \in FrameType : f = Top(th) /\ f \in Frames(th) BY <1>0, <1>1, TopFrame
<1>3. PICK c, p : c = f.tok /\ p = f.of OBVIOUS
<1>4. /\ c \in held[th] /\ p \in held[th] /\ c \in Tokens /\ parent[c] = None
      /\ c # p /\ Children(c) = {} /\ f.kids = {}
  BY <1>0, <1>1, <1>2, <1>3, FrameFacts DEF FromAbove, Above, Shapes
<1>5. parent' = parent \/ parent' = [parent EXCEPT ![c] = p] BY <1>2, <1>3 DEF Link
<1>6. \A k \in Tokens : parent[k] # None => parent'[k] = parent[k] BY <1>0, <1>4, <1>5 DEF Shapes
<1>7. \A t \in Tokens : t # p => Children(t)' \subseteq Children(t)
  BY <1>0, <1>5 DEF Children, Shapes
<1>8. PICK g \in FrameType : Continue(th, <<g>>) /\ Above(th, g)'
  <2>1. CASE cancelled[p]
    <3>1. Frame("request", c) \in FrameType BY <1>4, FrameTyped DEF Labels
    <3>2. Continue(th, <<Frame("request", c)>>) BY <1>2, <1>3, <2>1 DEF Link
    <3>3. Above(th, Frame("request", c))' BY <1>1, <1>4 DEF Above, Frame
    <3> QED BY <3>1, <3>2, <3>3
  <2>2. CASE ~cancelled[p]
    <3>1. PICK g : g = [f EXCEPT !.do = "retain"] OBVIOUS
    <3>2. g \in FrameType /\ g.do = "retain" /\ g.kids = {} BY <1>2, <1>4, <3>1 DEF FrameType, Labels
    <3>3. Continue(th, <<g>>) BY <1>2, <1>3, <2>2, <3>1 DEF Link
    <3> QED BY <3>2, <3>3 DEF Above
  <2> QED BY <2>1, <2>2
<1>9. ASSUME NEW x \in Threads, NEW h \in Frames(x) PROVE Above(x, h)'
  <2>1. Above(x, h) /\ h \in FrameType BY <1>9, FrameFacts DEF FromAbove
  <2>2. h.tok \in Tokens /\ h.kids \subseteq Tokens BY <2>1 DEF FrameType
  <2>3. h.kids \subseteq Children(h.tok)' BY <1>6, <2>1, <2>2, CancelTreeAssumption DEF Above, Children
  <2>4. ASSUME h.do = "link" PROVE h.of # h.tok /\ Children(h.tok)' = {}
    <3>1. CASE x = th
      <4>1. h = f BY <1>2, <2>4, <3>1, FrameFacts
      <4> QED BY <1>3, <1>4, <1>7, <2>2, <4>1
    <3>2. CASE x # th
      <4>1. h.tok # p BY <1>4, <2>4, <3>2, FrameFacts
      <4> QED BY <1>7, <2>1, <2>2, <2>4, <4>1 DEF Above
    <3> QED BY <3>1, <3>2
  <2>5. h.do = "request" =>
          h.tok \in held'[x] \/ (parent'[h.tok] # None /\ cancelled'[parent'[h.tok]])
    BY <1>1, <1>6, <2>1, <2>2 DEF Above
  <2> QED BY <2>3, <2>4, <2>5 DEF Above
<1>10. <<g>> \in Seq(FrameType) /\ \A i \in 1..Len(<<g>>) : <<g>>[i] = g OBVIOUS
<1>11. \A x \in Threads : \A h \in Frames(x)' : h \in Frames(x) \/ (x = th /\ h = g)
  <2>1. \A x \in Threads : \A h \in Frames(x)' :
          h \in Frames(x) \/ (x = th /\ \E i \in 1..Len(<<g>>) : h = <<g>>[i])
    BY <1>0, <1>1, <1>8, <1>10, FramesContinued
  <2> QED BY <1>10, <2>1
<1> QED BY <1>8, <1>9, <1>11 DEF FromAbove

LEMMA DetachAbove ==
  ASSUME IInv, FromAbove, NEW th \in Threads, Detach(th)
  PROVE  FromAbove'
<1>0. Shapes BY DEF IInv
<1>1. ~Idle(th) /\ Top(th).do = "detach" /\ UNCHANGED <<cancelled, held>> BY DEF Detach, Doing
<1>2. PICK f \in FrameType : f = Top(th) /\ f \in Frames(th) BY <1>0, <1>1, TopFrame
<1>3. PICK t \in Tokens : t = f.tok BY DEF FrameType
<1>4. refcount[t] = 0 /\ parent[t] # None BY <1>1, <1>2, <1>3, FrameFacts DEF Ending
<1>5. PICK p \in Tokens : p = parent[t] BY <1>0, <1>4 DEF Shapes
<1>6. parent' = [parent EXCEPT ![t] = None] /\ Continue(th, <<Frame("release", p), Frame("free", t)>>)
  BY <1>2, <1>3, <1>5 DEF Detach
<1>7. /\ Frame("release", p) \in FrameType /\ Above(th, Frame("release", p))'
      /\ Frame("free", t) \in FrameType /\ Above(th, Frame("free", t))'
  BY FrameTyped, Plain DEF Labels
<1>8. \A k \in Tokens : k # t => parent'[k] = parent[k] BY <1>0, <1>6 DEF Shapes
<1>9. ASSUME NEW x \in Threads, NEW h \in Frames(x) PROVE Above(x, h)'
  <2>1. Above(x, h) /\ h \in FrameType BY <1>9, FrameFacts DEF FromAbove
  <2>2. h.tok \in Tokens BY <2>1 DEF FrameType
  <2>3. \A k \in h.kids : k \in Tokens /\ k # t BY <1>4, FrameFacts
  <2>4. h.kids \subseteq Children(h.tok)' BY <1>8, <2>1, <2>3 DEF Above, Children
  <2>5. Children(h.tok)' \subseteq Children(h.tok)
    BY <1>0, <1>6, <2>2, CancelTreeAssumption DEF Children, Shapes
  <2>6. h.do = "request" => h.tok # t BY <1>4, FrameFacts
  <2>7. h.do = "request" =>
          h.tok \in held'[x] \/ (parent'[h.tok] # None /\ cancelled'[parent'[h.tok]])
    BY <1>1, <1>8, <2>1, <2>2, <2>6 DEF Above
  <2> QED BY <2>1, <2>4, <2>5, <2>7 DEF Above
<1>10. PICK fs : fs = <<Frame("release", p), Frame("free", t)>> OBVIOUS
<1>11. fs \in Seq(FrameType) /\ \A i \in 1..Len(fs) : fs[i] \in {Frame("release", p), Frame("free", t)}
  BY <1>7, <1>10
<1>12. \A x \in Threads : \A h \in Frames(x)' :
         h \in Frames(x) \/ (x = th /\ \E i \in 1..Len(fs) : h = fs[i])
  BY <1>0, <1>1, <1>6, <1>10, <1>11, FramesContinued
<1>13. \A x \in Threads : \A h \in Frames(x)' : h \in Frames(x) \/ Above(x, h)'
  BY <1>7, <1>11, <1>12
<1> QED BY <1>9, <1>13 DEF FromAbove

LEMMA AboveNext == ASSUME IInv, FromAbove, [Next]_vars PROVE FromAbove'
<1>1. ASSUME NEW th \in Threads, Step(th) PROVE FromAbove'
  BY <1>1, LinkAbove, RequestAbove, ScanAbove, CascadeAbove, DetachAbove, CallAbove DEF Step
<1>2. CASE UNCHANGED vars
  <2>1. UNCHANGED <<parent, cancelled, held, stack>> BY <1>2 DEF vars
  <2> QED BY <2>1 DEF FromAbove, Frames, Above, Children
<1> QED BY <1>1, <1>2, ClientAbove, CallAbove DEF Next

(* A token is cancelled by who holds it, or because its parent is.         *)
THEOREM CancelComesFromAbove == Spec => [](IInv /\ FromAbove)
<1>1. Init => FromAbove
  <2>1. Init => \A th \in Threads : Frames(th) = {} BY IdleFrames DEF Init, Idle
  <2> QED BY <2>1 DEF FromAbove
<1>2. IInv /\ FromAbove /\ [Next]_vars => FromAbove' BY AboveNext
<1> QED BY <1>1, <1>2, InductiveInvariant, PTL DEF Spec

-----------------------------------------------------------------------------
(* The step of TokenTree that each step implements, unless it stutters.    *)
Owned == UNION {held[th] : th \in Threads}

LEMMA OwnedFacts ==
  ASSUME Shapes
  PROVE  /\ Owned \subseteq Tokens
         /\ \A t : t \in Owned <=> \E th \in Threads : t \in held[th]
BY DEF Owned, Shapes

LEMMA ClientTree ==
  ASSUME IInv, FromAbove, NEW th \in Threads, Client(th)
  PROVE  Tree!Next \/ UNCHANGED Tree!vars
<1>0. Shapes BY DEF IInv
<1>1. ASSUME NEW t \in Tokens, Create(th, t), UNCHANGED <<parent, cancelled>> PROVE Tree!Next
  <2>1. Owned' = Owned \cup {t} BY <1>0, <1>1 DEF Create, Owned, Shapes
  <2>2. Tree!Create(t) BY <1>1, <2>1 DEF Create, Owned, Tree!Create
  <2> QED BY <2>2 DEF Tree!Next
<1>2. ASSUME NEW other \in Threads, NEW t \in Tokens, Share(th, other, t) PROVE UNCHANGED Tree!vars
  <2>1. t \in held[th] /\ held' = [held EXCEPT ![other] = @ \cup {t}]
        /\ UNCHANGED <<memory, parent, cancelled>>
    BY <1>2 DEF Share
  <2>2. Owned' = Owned BY <1>0, <2>1 DEF Owned, Shapes
  <2> QED BY <2>1, <2>2 DEF Owned, Tree!vars
<1>3. ASSUME NEW do, NEW t \in Tokens, Invoke(th, do, t)
      PROVE  Tree!Next \/ UNCHANGED Tree!vars
  <2>1. /\ t \in held[th] /\ UNCHANGED <<memory, parent, cancelled>>
        /\ held' = IF do = "release" THEN [held EXCEPT ![th] = @ \ {t}] ELSE held
    BY <1>3 DEF Invoke
  <2>2. CASE held' = held BY <2>1, <2>2 DEF Tree!vars
  <2>3. CASE held' = [held EXCEPT ![th] = @ \ {t}]
    <3>1. CASE \E x \in Threads \ {th} : t \in held[x]
      <4>1. Owned' = Owned BY <1>0, <2>3, <3>1 DEF Owned, Shapes
      <4> QED BY <2>1, <4>1 DEF Owned, Tree!vars
    <3>2. CASE ~\E x \in Threads \ {th} : t \in held[x]
      <4>1. t \in Owned /\ Owned' = Owned \ {t} BY <1>0, <2>1, <2>3, <3>2 DEF Owned, Shapes
      <4>2. Tree!LetGo(t) BY <2>1, <4>1 DEF Owned, Tree!LetGo
      <4> QED BY <4>2 DEF Tree!Next
    <3> QED BY <3>1, <3>2
  <2> QED BY <2>1, <2>2, <2>3
<1>4. ASSUME NEW t \in Tokens, SetDeadline(th, t) PROVE UNCHANGED Tree!vars
  BY <1>4 DEF SetDeadline, Tree!vars
<1> QED BY <1>1, <1>2, <1>3, <1>4 DEF Client, New, ChildOf

LEMMA LinkTree ==
  ASSUME IInv, FromAbove, NEW th \in Threads, Link(th)
  PROVE  Tree!Next \/ UNCHANGED Tree!vars
<1>0. Shapes BY DEF IInv
<1>1. ~Idle(th) /\ Top(th).do = "link" /\ UNCHANGED <<memory, cancelled, held>> BY DEF Link, Doing
<1>2. PICK f \in FrameType : f = Top(th) /\ f \in Frames(th) BY <1>0, <1>1, TopFrame
<1>3. PICK c, p : c = f.tok /\ p = f.of OBVIOUS
<1>4. /\ c \in held[th] /\ p \in held[th] /\ c \in Tokens /\ p \in Tokens /\ parent[c] = None
      /\ c # p /\ Children(c) = {}
  BY <1>0, <1>1, <1>2, <1>3, FrameFacts DEF FromAbove, Above, Shapes
<1>5. CASE cancelled[p] BY <1>1, <1>2, <1>3, <1>5 DEF Link, Tree!vars
<1>6. CASE ~cancelled[p]
  <2>1. parent' = [parent EXCEPT ![c] = p] BY <1>2, <1>3, <1>6 DEF Link
  <2>2. c \in Owned /\ p \in Owned /\ Owned' = Owned BY <1>0, <1>1, <1>4 DEF Owned
  <2>3. Tree!Link(c, p)
    BY <1>1, <1>4, <1>6, <2>1, <2>2 DEF Owned, Children, Tree!Link, Tree!Children
  <2> QED BY <1>4, <2>3 DEF Tree!Next
<1> QED BY <1>5, <1>6

LEMMA RequestTree ==
  ASSUME IInv, FromAbove, NEW th \in Threads, Request(th)
  PROVE  Tree!Next
<1>0. Shapes /\ Alive BY DEF IInv
<1>1. ~Idle(th) /\ Top(th).do = "request" /\ UNCHANGED <<memory, parent, held>>
  BY DEF Request, Doing
<1>2. PICK f \in FrameType : f = Top(th) /\ f \in Frames(th) BY <1>0, <1>1, TopFrame
<1>3. PICK t \in Tokens : t = f.tok BY DEF FrameType
<1>4. cancelled' = [cancelled EXCEPT ![t] = TRUE] BY <1>2, <1>3 DEF Request
<1>5. memory[t] = "live" BY <1>0, <1>1, <1>2, <1>3, FrameFacts DEF Alive, AliveAt
<1>6. t \in held[th] \/ (parent[t] # None /\ cancelled[parent[t]])
  BY <1>1, <1>2, <1>3 DEF FromAbove, Above
<1>7. t \in held[th] => t \in Owned BY DEF Owned
<1>8. Owned' = Owned BY <1>1 DEF Owned
<1>9. Tree!Cancel(t) BY <1>1, <1>4, <1>5, <1>6, <1>7, <1>8 DEF Owned, Tree!Cancel
<1> QED BY <1>9 DEF Tree!Next

LEMMA EndTree ==
  ASSUME IInv, FromAbove, NEW th \in Threads, Detach(th) \/ Destroy(th)
  PROVE  Tree!Next
<1>0. Shapes BY DEF IInv
<1>1. ~Idle(th) /\ Top(th).do \in Ending /\ UNCHANGED <<cancelled, held>>
  BY DEF Detach, Destroy, Doing, Ending
<1>2. PICK f \in FrameType : f = Top(th) /\ f \in Frames(th) BY <1>0, <1>1, TopFrame
<1>3. PICK t \in Tokens : t = f.tok BY DEF FrameType
<1>4. refcount[t] = 0 /\ memory[t] = "live" /\ (f.do = "free" <=> parent[t] = None)
  BY <1>1, <1>2, <1>3, FrameFacts
<1>5. Children(t) = {} /\ \A x \in Threads : t \notin held[x] BY <1>4, CountlessIsUnneeded
<1>6. t \notin Owned /\ Owned' = Owned BY <1>0, <1>1, <1>5 DEF Owned
<1>7. Tree!Unneeded(t) BY <1>5, <1>6 DEF Owned, Children, Tree!Unneeded, Tree!Children
<1>8. CASE Detach(th)
  <2>1. f.do = "detach" /\ parent' = [parent EXCEPT ![t] = None] /\ UNCHANGED memory
    BY <1>2, <1>3, <1>8 DEF Detach, Doing
  <2>2. Tree!Unlink(t) BY <1>1, <1>4, <1>6, <1>7, <2>1 DEF Owned, Tree!Unlink
  <2> QED BY <2>2 DEF Tree!Next
<1>9. CASE Destroy(th)
  <2>1. f.do = "free" /\ memory' = [memory EXCEPT ![t] = "freed"] /\ UNCHANGED parent
    BY <1>2, <1>3, <1>9 DEF Destroy, Doing
  <2>2. Tree!Free(t) BY <1>1, <1>4, <1>6, <1>7, <2>1 DEF Owned, Tree!Free
  <2> QED BY <2>2 DEF Tree!Next
<1> QED BY <1>8, <1>9

LEMMA TreeStep == IInv /\ FromAbove /\ [Next]_vars => [Tree!Next]_(Tree!vars)
<1> SUFFICES ASSUME IInv, FromAbove, [Next]_vars PROVE Tree!Next \/ UNCHANGED Tree!vars
  OBVIOUS
<1>1. ASSUME NEW th \in Threads, Step(th) PROVE Tree!Next \/ UNCHANGED Tree!vars
  <2>1. CASE Retain(th) \/ Scan(th) \/ ScanEnd(th) \/ Cascade(th) \/ Release(th)
             \/ SleepEnd(th) \/ Sleep(th)
    BY <2>1 DEF Retain, Scan, ScanEnd, Cascade, Release, SleepEnd, Sleep, Tree!vars
  <2> QED BY <1>1, <2>1, LinkTree, RequestTree, EndTree DEF Step
<1>2. ASSUME NEW th \in Threads, WakeUp(th) PROVE UNCHANGED Tree!vars
  BY <1>2 DEF WakeUp, Tree!vars
<1>3. UNCHANGED vars => UNCHANGED Tree!vars BY DEF vars, Tree!vars
<1> QED BY <1>1, <1>2, <1>3, ClientTree DEF Next

(* The tokens keep the promise of TokenTree to whoever holds handles:      *)
(* created and freed once, linked as leaves below what is not cancelled,   *)
(* cancelled by a holder or from above, and kept while needed.             *)
THEOREM TreeImplemented == Spec => ImplementsTree
<1>1. Init => Tree!Init
  <2> SUFFICES ASSUME Init PROVE Tree!Init OBVIOUS
  <2>1. \A th \in Threads : held[th] = {} BY DEF Init
  <2>2. Owned = {} BY <2>1 DEF Owned
  <2> QED BY <2>2 DEF Init, Owned, Tree!Init
<1> QED BY <1>1, TreeStep, CancelComesFromAbove, PTL DEF Spec, ImplementsTree, Tree!Spec

(* Links never form a cycle, whatever is created, linked and freed: it     *)
(* follows from what TokenTree allows a step to do to the links.           *)
THEOREM NoCycleHolds == Spec => []NoCycle
<1>1. Init => NoCycle
  <2> SUFFICES ASSUME Init, NEW S \in (SUBSET Tokens) \ {{}} PROVE \E t \in S : parent[t] \notin S
    BY DEF NoCycle
  <2>1. PICK t \in S : t \in Tokens OBVIOUS
  <2>2. parent[t] = None BY <2>1 DEF Init
  <2> QED BY <2>1, <2>2, CancelTreeAssumption
<1>2. ASSUME IInv, NoCycle, [Tree!Next]_(Tree!vars) PROVE NoCycle'
  <2>0. parent \in [Tokens -> Tokens \cup {None}] BY <1>2 DEF IInv, Shapes
  <2>1. CASE UNCHANGED parent BY <1>2, <2>1 DEF NoCycle
  <2>2. ASSUME NEW t \in Tokens, Tree!Unlink(t) PROVE NoCycle'
    <3>1. parent' = [parent EXCEPT ![t] = None] BY <2>2 DEF Tree!Unlink
    <3> SUFFICES ASSUME NEW S \in (SUBSET Tokens) \ {{}} PROVE \E x \in S : parent'[x] \notin S
      BY DEF NoCycle
    <3>2. PICK x \in S : parent[x] \notin S BY <1>2 DEF NoCycle
    <3>3. x \in Tokens /\ (parent'[x] = parent[x] \/ parent'[x] = None) BY <2>0, <3>1, <3>2
    <3> QED BY <3>2, <3>3, CancelTreeAssumption
  <2>3. ASSUME NEW c \in Tokens, NEW p \in Tokens, Tree!Link(c, p) PROVE NoCycle'
    <3>1. /\ c # p /\ parent[c] = None /\ \A x \in Tokens : parent[x] # c
          /\ parent' = [parent EXCEPT ![c] = p]
      BY <2>3 DEF Tree!Link, Tree!Children
    <3> SUFFICES ASSUME NEW S \in (SUBSET Tokens) \ {{}} PROVE \E t \in S : parent'[t] \notin S
      BY DEF NoCycle
    <3>2. CASE S \subseteq {c}
      <4>0. S # {} /\ \A x \in S : x = c BY <3>2
      <4>1. c \in S /\ p \notin S BY <3>1, <4>0
      <4> QED BY <2>0, <3>1, <4>1
    <3>3. CASE ~(S \subseteq {c})
      <4>1. S \ {c} \in (SUBSET Tokens) \ {{}} BY <3>3
      <4>2. PICK t \in S \ {c} : parent[t] \notin S \ {c} BY <1>2, <4>1 DEF NoCycle
      <4>3. parent'[t] = parent[t] /\ parent[t] # c BY <2>0, <3>1, <4>2
      <4> QED BY <4>2, <4>3
    <3> QED BY <3>2, <3>3
  <2>4. ASSUME NEW t \in Tokens,
               Tree!Create(t) \/ Tree!LetGo(t) \/ Tree!Cancel(t) \/ Tree!Free(t)
        PROVE  UNCHANGED parent
    BY <2>4 DEF Tree!Create, Tree!LetGo, Tree!Cancel, Tree!Free
  <2> QED BY <1>2, <2>1, <2>2, <2>3, <2>4 DEF Tree!Next, Tree!vars
<1>3. NoCycle /\ UNCHANGED vars => NoCycle' BY DEF vars, NoCycle
<1> QED BY <1>1, <1>2, <1>3, TreeStep, CancelComesFromAbove, PTL DEF Spec
=============================================================================
