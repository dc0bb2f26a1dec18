----------------------------- MODULE CancelTree -----------------------------
(***************************************************************************)
(* The tree of cancellation tokens (runtime/yoop_cancel.c, used through    *)
(* std/core/cancel/token.yoop): reference counts, linking a child to its   *)
(* parent, the cascade of a cancellation, the release that may free a      *)
(* whole chain, and the sleepers a cancellation or a new deadline wakes.   *)
(*                                                                         *)
(* yoop_cancel_request and yoop_cancel_release call themselves, so every   *)
(* thread has a stack of calls.  A frame names what the thread does next:  *)
(* an atomic operation outside a lock, or one critical section of a        *)
(* token's mutex.  Only the scan of the children holds the mutex across    *)
(* steps, because the counts it changes move without it.                   *)
(*                                                                         *)
(* The waiters parked in the I/O engine are IoWait's subject.              *)
(***************************************************************************)
EXTENDS Integers, Sequences, FiniteSets

CONSTANTS Tokens,   (* token objects; a freed one is not used again         *)
          Threads,  (* the threads that hold handles on them                *)
          None      (* no token, no thread                                  *)

ASSUME CancelTreeAssumption == None \notin Tokens \cup Threads

VARIABLES
  memory,    (* per token: unborn, live or freed                            *)
  refcount,
  cancelled,
  deadline,  (* per token: 0, or 1 for one that was set                     *)
  parent,    (* the token a child is linked to; its list is the inverse     *)
  mu,        (* the thread that holds a token's mutex across steps          *)
  held,      (* per thread, the tokens it has a handle on                   *)
  stack,     (* per thread, the calls it is in                              *)
  baked      (* per thread, the token deadline its timed sleep was given    *)

vars == <<memory, refcount, cancelled, deadline, parent, mu, held, stack, baked>>

(* tok: whose call it is; of: the parent to link to; more, kids: the       *)
(* children still to be looked at, and the snapshot of those retained.     *)
Frame(do, t) == [do |-> do, tok |-> t, of |-> None, more |-> {}, kids |-> {}]

Idle(th) == stack[th] = <<>>
Top(th) == Head(stack[th])
Doing(th, do) == ~Idle(th) /\ Top(th).do = do
Continue(th, frames) == stack' = [stack EXCEPT ![th] = frames \o Tail(@)]
Return(th) == Continue(th, <<>>)

Free(t) == mu[t] = None
Children(p) == {c \in Tokens : parent[c] = p}

Plus(t, n) == refcount' = [refcount EXCEPT ![t] = @ + n]

(* The condition variable of a token is broadcast: its sleepers look again.*)
Asleep(th, t) == Doing(th, "asleep") /\ Top(th).tok = t
Broadcast(t) == [th \in Threads |->
                   IF Asleep(th, t) THEN <<Frame("sleep", t)>> \o Tail(stack[th])
                   ELSE stack[th]]

Init ==
  /\ memory = [t \in Tokens |-> "unborn"]
  /\ refcount = [t \in Tokens |-> 0]
  /\ cancelled = [t \in Tokens |-> FALSE]
  /\ deadline = [t \in Tokens |-> 0]
  /\ parent = [t \in Tokens |-> None]
  /\ mu = [t \in Tokens |-> None]
  /\ held = [th \in Threads |-> {}]
  /\ stack = [th \in Threads |-> <<>>]
  /\ baked = [th \in Threads |-> 0]

-----------------------------------------------------------------------------
(* What a thread can call on the handles it holds.                         *)
Create(th, t) ==
  /\ memory[t] = "unborn"
  /\ memory' = [memory EXCEPT ![t] = "live"]
  /\ refcount' = [refcount EXCEPT ![t] = 1]
  /\ held' = [held EXCEPT ![th] = @ \cup {t}]

(* newToken.                                                               *)
New(th, t) ==
  /\ Idle(th)
  /\ Create(th, t)
  /\ UNCHANGED <<cancelled, deadline, parent, mu, stack, baked>>

(* childOf: a new token, linked before anyone else can see it.             *)
ChildOf(th, c, p) ==
  /\ Idle(th)
  /\ p \in held[th]
  /\ Create(th, c)
  /\ stack' = [stack EXCEPT ![th] = <<[Frame("link", c) EXCEPT !.of = p]>>]
  /\ UNCHANGED <<cancelled, deadline, parent, mu, baked>>

(* share: a second handle, given to another thread.                        *)
Share(th, other, t) ==
  /\ Idle(th) /\ Idle(other)
  /\ t \in held[th] \ held[other]
  /\ Plus(t, 1)
  /\ held' = [held EXCEPT ![other] = @ \cup {t}]
  /\ UNCHANGED <<memory, cancelled, deadline, parent, mu, stack, baked>>

(* request, dispose, sleepMs (or awaitCancel).                             *)
Invoke(th, do, t) ==
  /\ Idle(th)
  /\ t \in held[th]
  /\ stack' = [stack EXCEPT ![th] = <<Frame(do, t)>>]
  /\ held' = IF do = "release" THEN [held EXCEPT ![th] = @ \ {t}] ELSE held
  /\ UNCHANGED <<memory, refcount, cancelled, deadline, parent, mu, baked>>

(* Mutant: the sleepers are not woken and keep the deadline they had.      *)
SetDeadlineQuietly(th, t) ==
  /\ Idle(th)
  /\ t \in held[th]
  /\ Free(t)
  /\ deadline' = [deadline EXCEPT ![t] = 1 - @]
  /\ UNCHANGED <<memory, refcount, cancelled, parent, mu, held, stack, baked>>

(* yoop_cancel_set_deadline_ns.                                            *)
SetDeadline(th, t) ==
  /\ Idle(th)
  /\ t \in held[th]
  /\ Free(t)
  /\ deadline' = [deadline EXCEPT ![t] = 1 - @]
  /\ stack' = Broadcast(t)
  /\ UNCHANGED <<memory, refcount, cancelled, parent, mu, held, baked>>

-----------------------------------------------------------------------------
(* Mutant: the parent's flag is not looked at under its mutex.             *)
LinkUnchecked(th) ==
  LET c == Top(th).tok
      p == Top(th).of
  IN
  /\ Doing(th, "link")
  /\ Free(p)
  /\ parent' = [parent EXCEPT ![c] = p]
  /\ Continue(th, <<[Top(th) EXCEPT !.do = "retain"]>>)
  /\ UNCHANGED <<memory, refcount, cancelled, deadline, mu, held, baked>>

(* yoop_cancel_link: a parent already cancelled gets no child; the child   *)
(* is cancelled outright.                                                  *)
Link(th) ==
  LET c == Top(th).tok
      p == Top(th).of
  IN
  /\ Doing(th, "link")
  /\ Free(p)
  /\ IF cancelled[p]
     THEN /\ Continue(th, <<Frame("request", c)>>)
          /\ UNCHANGED parent
     ELSE /\ parent' = [parent EXCEPT ![c] = p]
          /\ Continue(th, <<[Top(th) EXCEPT !.do = "retain"]>>)
  /\ UNCHANGED <<memory, refcount, cancelled, deadline, mu, held, baked>>

(* The link's reference, taken after the mutex is dropped.                 *)
Retain(th) ==
  /\ Doing(th, "retain")
  /\ Plus(Top(th).of, 1)
  /\ Return(th)
  /\ UNCHANGED <<memory, cancelled, deadline, parent, mu, held, baked>>

(* Mutant: the children are not looked at.                                 *)
RequestShallow(th) ==
  LET t == Top(th).tok IN
  /\ Doing(th, "request")
  /\ Free(t)
  /\ cancelled' = [cancelled EXCEPT ![t] = TRUE]
  /\ stack' = [Broadcast(t) EXCEPT ![th] =
                 <<[Top(th) EXCEPT !.do = "cascade"]>> \o Tail(@)]
  /\ UNCHANGED <<memory, refcount, deadline, parent, mu, held, baked>>

(* yoop_cancel_request: flag, wake, then the scan with the mutex held.     *)
Request(th) ==
  LET t == Top(th).tok IN
  /\ Doing(th, "request")
  /\ Free(t)
  /\ mu' = [mu EXCEPT ![t] = th]
  /\ cancelled' = [cancelled EXCEPT ![t] = TRUE]
  /\ stack' = [Broadcast(t) EXCEPT ![th] =
                 <<[Top(th) EXCEPT !.do = "scan", !.more = Children(t)]>> \o Tail(@)]
  /\ UNCHANGED <<memory, refcount, deadline, parent, held, baked>>

(* Mutant: a child is retained whatever its count says.                    *)
ScanRetainsAll(th) ==
  /\ Doing(th, "scan")
  /\ \E c \in Top(th).more :
       /\ Plus(c, 1)
       /\ Continue(th, <<[Top(th) EXCEPT !.more = @ \ {c}, !.kids = @ \cup {c}]>>)
  /\ UNCHANGED <<memory, cancelled, deadline, parent, mu, held, baked>>

(* try_retain on one child.  A count found at 0 is put back: nobody else   *)
(* reads it in between, for the only lock a scan of this child can hold is *)
(* this parent's.                                                          *)
Scan(th) ==
  /\ Doing(th, "scan")
  /\ \E c \in Top(th).more :
       IF refcount[c] = 0
       THEN /\ Continue(th, <<[Top(th) EXCEPT !.more = @ \ {c}]>>)
            /\ UNCHANGED refcount
       ELSE /\ Continue(th, <<[Top(th) EXCEPT !.more = @ \ {c}, !.kids = @ \cup {c}]>>)
            /\ Plus(c, 1)
  /\ UNCHANGED <<memory, cancelled, deadline, parent, mu, held, baked>>

(* Mutant: the mutex is not given back before the cascade.                 *)
ScanEndLocked(th) ==
  /\ Doing(th, "scan") /\ Top(th).more = {}
  /\ Continue(th, <<[Top(th) EXCEPT !.do = "cascade"]>>)
  /\ UNCHANGED <<memory, refcount, cancelled, deadline, parent, mu, held, baked>>

ScanEnd(th) ==
  /\ Doing(th, "scan") /\ Top(th).more = {}
  /\ mu' = [mu EXCEPT ![Top(th).tok] = None]
  /\ Continue(th, <<[Top(th) EXCEPT !.do = "cascade"]>>)
  /\ UNCHANGED <<memory, refcount, cancelled, deadline, parent, held, baked>>

(* The mutex dropped: request and release each child of the snapshot.      *)
Cascade(th) ==
  /\ Doing(th, "cascade")
  /\ IF Top(th).kids = {} THEN Return(th)
     ELSE \E c \in Top(th).kids :
            Continue(th, <<Frame("request", c), Frame("release", c),
                           [Top(th) EXCEPT !.kids = @ \ {c}]>>)
  /\ UNCHANGED <<memory, refcount, cancelled, deadline, parent, mu, held, baked>>

-----------------------------------------------------------------------------
(* yoop_cancel_release: the thread whose decrement finds 1 tears down.     *)
Release(th) ==
  LET t == Top(th).tok IN
  /\ Doing(th, "release")
  /\ Plus(t, -1)
  /\ IF refcount[t] # 1 THEN Return(th)
     ELSE Continue(th, <<Frame(IF parent[t] = None THEN "free" ELSE "detach", t)>>)
  /\ UNCHANGED <<memory, cancelled, deadline, parent, mu, held, baked>>

(* It leaves the parent's list under the parent's mutex, and gives back    *)
(* the link's reference.                                                   *)
Detach(th) ==
  LET t == Top(th).tok IN
  /\ Doing(th, "detach")
  /\ Free(parent[t])
  /\ parent' = [parent EXCEPT ![t] = None]
  /\ Continue(th, <<Frame("release", parent[t]), Frame("free", t)>>)
  /\ UNCHANGED <<memory, refcount, cancelled, deadline, mu, held, baked>>

Destroy(th) ==
  /\ Doing(th, "free")
  /\ memory' = [memory EXCEPT ![Top(th).tok] = "freed"]
  /\ Return(th)
  /\ UNCHANGED <<refcount, cancelled, deadline, parent, mu, held, baked>>

-----------------------------------------------------------------------------
(* yoop_cancel_sleep_ns and yoop_cancel_wait, under the mutex: give up when*)
(* the token is cancelled or some deadline has passed, ...                 *)
SleepEnd(th) ==
  /\ Doing(th, "sleep") /\ Free(Top(th).tok)
  /\ Return(th)
  /\ UNCHANGED <<memory, refcount, cancelled, deadline, parent, mu, held, baked>>

(* ... else sleep until the earlier of the two deadlines.                  *)
Sleep(th) ==
  LET t == Top(th).tok IN
  /\ Doing(th, "sleep") /\ Free(t)
  /\ ~cancelled[t]
  /\ baked' = [baked EXCEPT ![th] = deadline[t]]
  /\ Continue(th, <<Frame("asleep", t)>>)
  /\ UNCHANGED <<memory, refcount, cancelled, deadline, parent, mu, held>>

(* The wait on the condition variable ends by itself: deadline or spurious.*)
WakeUp(th) ==
  /\ Doing(th, "asleep")
  /\ Continue(th, <<Frame("sleep", Top(th).tok)>>)
  /\ UNCHANGED <<memory, refcount, cancelled, deadline, parent, mu, held, baked>>

-----------------------------------------------------------------------------
Client(th) ==
  \/ \E t \in Tokens : New(th, t) \/ SetDeadline(th, t)
  \/ \E c, p \in Tokens : ChildOf(th, c, p)
  \/ \E other \in Threads \ {th}, t \in Tokens : Share(th, other, t)
  \/ \E do \in {"request", "release", "sleep"}, t \in Tokens : Invoke(th, do, t)

Step(th) ==
  \/ Link(th) \/ Retain(th) \/ Request(th) \/ Scan(th) \/ ScanEnd(th) \/ Cascade(th)
  \/ Release(th) \/ Detach(th) \/ Destroy(th) \/ SleepEnd(th) \/ Sleep(th)

Next == \E th \in Threads : Client(th) \/ Step(th) \/ WakeUp(th)

Spec == Init /\ [][Next]_vars

-----------------------------------------------------------------------------
Frames(th) == {stack[th][i] : i \in 1..Len(stack[th])}

Labels == {"link", "retain", "request", "scan", "cascade", "release", "detach", "free",
           "sleep", "asleep"}

(* Besides the types: a mutex is held exactly by the thread that scans.    *)
TypeOK ==
  /\ memory \in [Tokens -> {"unborn", "live", "freed"}]
  /\ refcount \in [Tokens -> Nat]
  /\ cancelled \in [Tokens -> BOOLEAN]
  /\ deadline \in [Tokens -> {0, 1}]
  /\ parent \in [Tokens -> Tokens \cup {None}]
  /\ held \in [Threads -> SUBSET Tokens]
  /\ stack \in [Threads -> Seq([do : Labels, tok : Tokens, of : Tokens \cup {None},
                                more : SUBSET Tokens, kids : SUBSET Tokens])]
  /\ baked \in [Threads -> {0, 1}]
  /\ mu \in [Tokens -> Threads \cup {None}]
  /\ \A t \in Tokens, th \in Threads :
       mu[t] = th <=> Doing(th, "scan") /\ Top(th).tok = t

(***************************************************************************)
(* No call touches a token that was freed: not through a frame, a handle,  *)
(* a snapshot or a list of children, whatever order handles are dropped in *)
(* (test_link_release_orders in runtime/tests/cancel_token.c has two of    *)
(* the orders).                                                            *)
(***************************************************************************)
NoUseAfterFree ==
  /\ \A th \in Threads : \A t \in held[th] : memory[t] = "live"
  /\ \A th \in Threads : \A f \in Frames(th) :
       \A t \in {f.tok} \cup ({f.of} \ {None}) \cup f.more \cup f.kids : memory[t] = "live"
  /\ \A c \in Tokens : parent[c] # None => memory[c] = "live" /\ memory[parent[c]] = "live"

(***************************************************************************)
(* The counts are balanced: a token whose handles, children and calls are  *)
(* all gone has been freed, and a freed one is freed once.                 *)
(***************************************************************************)
NothingLeaks ==
  (\A th \in Threads : Idle(th)) =>
    \A t \in Tokens :
      memory[t] = "live" => \/ \E th \in Threads : t \in held[th]
                            \/ Children(t) # {}

FreedWhenUnused == NoUseAfterFree /\ NothingLeaks

(***************************************************************************)
(* A cancellation that has returned has reached the whole tree: when a     *)
(* request is about to return, every token linked below it that is not     *)
(* already being destroyed is cancelled, also those linked while the       *)
(* cascade was on its way and those another cancellation works on.         *)
(***************************************************************************)
Closed(S) == \A c \in Tokens : parent[c] \in S => c \in S
Below(t) == {d \in Tokens : \A S \in SUBSET Tokens : t \in S /\ Closed(S) => d \in S}

RequestIsComplete ==
  \A th \in Threads :
    Doing(th, "cascade") /\ Top(th).kids = {} =>
      \A d \in Below(Top(th).tok) : refcount[d] > 0 => cancelled[d]

(***************************************************************************)
(* At every moment a live child of a cancelled token is cancelled, or some *)
(* call on some thread still has it to do: no linking order, no release of *)
(* another handle and no second cancellation lets a child slip out of the  *)
(* cascade.                                                                *)
(***************************************************************************)
Underway(c) ==
  \E th \in Threads : \E f \in Frames(th) :
    \/ f.do = "request" /\ f.tok = c
    \/ c \in f.more \cup f.kids

NoneEscapes ==
  \A c \in Tokens :
    parent[c] # None /\ cancelled[parent[c]] /\ refcount[c] > 0 => cancelled[c] \/ Underway(c)

CascadeReachesAll == RequestIsComplete /\ NoneEscapes

(***************************************************************************)
(* Nobody sleeps past a change of its token: not on a cancelled one, and   *)
(* not on a deadline that was replaced ("shortening a deadline wakes them   *)
(* so they can re-evaluate", std/core/cancel/token.yoop).                  *)
(***************************************************************************)
NoStaleSleep ==
  \A th \in Threads, t \in Tokens :
    Asleep(th, t) => ~cancelled[t] /\ baked[th] = deadline[t]

(***************************************************************************)
(* The tokens implement TokenTree: stacks, counts and mutexes are how they *)
(* keep its promise.                                                       *)
(***************************************************************************)
Tree == INSTANCE TokenTree WITH owned <- UNION {held[th] : th \in Threads}

ImplementsTree == Tree!Spec

(***************************************************************************)
(* No token is above itself: whatever tokens one takes, one of them has no *)
(* parent among them.  A cascade (yoop_cancel_request) and a release that  *)
(* goes up (yoop_cancel_release) recurse along the links and end.          *)
(***************************************************************************)
NoCycle == \A S \in (SUBSET Tokens) \ {{}} : \E t \in S : parent[t] \notin S
=============================================================================
