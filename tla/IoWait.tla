------------------------------- MODULE IoWait -------------------------------
(***************************************************************************)
(* Waiting for a socket: the calls that register an interest with the I/O  *)
(* engine and park (io_wait_common, yoop_iop_wait) or suspend              *)
(* (io_arm_common, iop_begin / yoop_iop_end), the registration table and   *)
(* its delivery (runtime/yoop_io.c), the epoll engine with its two         *)
(* directions per descriptor (runtime/yoop_io_epoll.c), the cancel token a *)
(* wait listens to (runtime/yoop_cancel.c), the park token that carries    *)
(* every wake (runtime/yoop_runtime.c), and the shutdown of the engine.    *)
(*                                                                         *)
(* One descriptor and one token: what is hard is who shares them.  Time is *)
(* abstract: a deadline may have passed at any moment after it was set.    *)
(* Every io_mu critical section is one action.                             *)
(***************************************************************************)
EXTENDS Naturals, Sequences, FiniteSets

CONSTANTS Callers,    (* the threads and tasks that wait                    *)
          Kind,       (* per caller, the call it makes: wait or op (a       *)
                      (* thread parks), arm or taskop (a task suspends)     *)
          Dir,        (* per caller, the direction it waits in              *)
          WithToken,  (* the callers that pass the cancel token             *)
          Deadlined,  (* the callers that pass a deadline of their own      *)
          MaxSeq      (* registrations of one caller that can be referred   *)
                      (* to at once                                         *)

Dirs == {"read", "write"}
TaskKinds == {"arm", "taskop"}
OpKinds == {"op", "taskop"}

ASSUME IoWaitAssumption ==
  /\ Kind \in [Callers -> {"wait"} \cup OpKinds \cup TaskKinds]
  /\ Dir \in [Callers -> Dirs]
  /\ MaxSeq \in Nat

VARIABLES
  pc,        (* per caller, where its call is                               *)
  limited,   (* the calls whose effective deadline is not 0                 *)
  park,      (* park token (or park byte): 0 idle, 1 pending wake, 2 parked *)
  fired,     (* w.fired: the engine has delivered to these callers' frames  *)
  mine,      (* per caller, the seq of the registration its call made       *)
  table,     (* io_regs: records [seq, owner, op, delivered]                *)
  ep,        (* ep_slots: the seq armed in each direction, 0 for none       *)
  kernel,    (* the directions armed in the epoll set                       *)
  loop,      (* the I/O thread: alive, the events of its batch, what it     *)
             (* claimed, whom it must wake, whether the batch is its last   *)
  stop,      (* yoop_io_shutdown: no, announced, nudging, flushing,         *)
             (* flushed, done                                               *)
  stopping,  (* io_stopping                                                 *)
  nudged,    (* a byte is in the self-pipe                                  *)
  token      (* the cancel token: flag, waking (t->mu is held and waiters   *)
             (* are being woken), waiters, limited (it has a deadline)      *)

callVars == <<pc, limited, fired, mine>>
engineVars == <<ep, kernel, loop>>
stopVars == <<stop, stopping, nudged>>
vars == <<callVars, park, table, engineVars, stopVars, token>>

Idle == [alive |-> FALSE, batch |-> {}, dirs |-> {}, hand |-> <<>>, wakes |-> {},
         last |-> FALSE]

(* io_started, and the lock that guards it: shutdown keeps it to the end.  *)
Up == loop.alive \/ stop \in {"announced", "nudging", "flushing", "flushed"}
InitMuFree == stop \in {"no", "done"}

IsTask(c) == Kind[c] \in TaskKinds
At(c, l) == pc[c] = l
Goto(c, l) == pc' = [pc EXCEPT ![c] = l]

(* A sequence number nothing refers to: the code never reuses one.         *)
Seqs == Callers \X (1..MaxSeq)
NoSeq == <<>>
InUse == {r.seq : r \in table} \cup {ep[d] : d \in Dirs}
           \cup {loop.hand[i] : i \in 1..Len(loop.hand)} \cup {mine[c] : c \in Callers}
FreshSeqs(c) == {s \in Seqs : s[1] = c /\ s \notin InUse}
NewSeq(c) == CHOOSE s \in FreshSeqs(c) : TRUE

Of(s) == {r \in table : r.seq = s}

(* yoop_unpark, and yoop_task_make_runnable on the park byte of a task.    *)
Woken(S) == [c \in Callers |-> IF c \notin S THEN park[c]
                               ELSE IF park[c] = 2 THEN 0 ELSE 1]

(* ep_apply_locked: the kernel gets the directions that have a seq.        *)
Armed(e) == {d \in Dirs : e[d] # NoSeq}

NoSlots == [d \in Dirs |-> NoSeq]

Init ==
  /\ pc = [c \in Callers |-> "idle"]
  /\ limited = {}
  /\ park = [c \in Callers |-> 0]
  /\ fired = {}
  /\ mine = [c \in Callers |-> NoSeq]
  /\ table = {}
  /\ ep = NoSlots
  /\ kernel = {}
  /\ loop = Idle
  /\ stop = "no" /\ stopping = FALSE /\ nudged = FALSE
  /\ token = [flag |-> FALSE, waking |-> FALSE, waiters |-> {}, limited |-> FALSE]

-----------------------------------------------------------------------------
(* io_ensure_started, at the head of every call: it starts the engine,     *)
(* which is down before the first call and after a shutdown.               *)
Call(c) ==
  /\ At(c, "idle")
  /\ InitMuFree
  /\ IF Up THEN UNCHANGED <<loop, stopping>>
     ELSE loop' = [Idle EXCEPT !.alive = TRUE] /\ stopping' = FALSE
  /\ Goto(c, IF IsTask(c) THEN "claim" ELSE "begin")
  /\ UNCHANGED <<limited, park, fired, mine, table, ep, kernel, stop, nudged, token>>

(* The effective deadline is computed once; a token that is already        *)
(* cancelled, or a deadline already past, ends the call here.              *)
Begin(c) ==
  LET flagged == c \in WithToken /\ token.flag
      bounded == c \in Deadlined \/ (c \in WithToken /\ token.limited)
  IN
  /\ At(c, "begin")
  /\ \/ (flagged \/ bounded) /\ Goto(c, "idle") /\ UNCHANGED limited
     \/ /\ ~flagged
        /\ Goto(c, "claim")
        /\ limited' = IF bounded THEN limited \cup {c} ELSE limited
  /\ UNCHANGED <<park, fired, mine, table, engineVars, stopVars, token>>

(* Under io_mu: the registration enters the table and the epoll set        *)
(* together, when the (fd, direction) is free ...                          *)
Claim(c) ==
  LET d == Dir[c]
      s == NewSeq(c)
  IN
  /\ At(c, "claim")
  /\ Up
  /\ \A r \in table : Dir[r.owner] # d
  /\ FreshSeqs(c) # {}      (* the bound of the model *)
  /\ mine' = [mine EXCEPT ![c] = s]
  /\ table' = table \cup {[seq |-> s, owner |-> c, op |-> Kind[c] \in OpKinds,
                           delivered |-> FALSE]}
  /\ ep' = [ep EXCEPT ![d] = s]
  /\ kernel' = Armed(ep')
  /\ Goto(c, IF IsTask(c) THEN "park" ELSE "link")
  /\ UNCHANGED <<limited, park, fired, loop, stopVars, token>>

(* ... or the call fails and leaves no trace: the slot is taken, there is  *)
(* no memory, or the engine does not arm (it was torn down meanwhile).     *)
Refuse(c) ==
  /\ At(c, "claim")
  /\ Goto(c, "idle")
  /\ limited' = limited \ {c}
  /\ UNCHANGED <<park, fired, mine, table, engineVars, stopVars, token>>

(* yoop_cancel_add_waiter: a token cancelled meanwhile answers 1 and keeps *)
(* no waiter; the caller goes on to park either way.                       *)
Link(c) ==
  /\ At(c, "link")
  /\ ~token.waking
  /\ token' = IF c \in WithToken /\ ~token.flag
              THEN [token EXCEPT !.waiters = @ \cup {c}] ELSE token
  /\ Goto(c, "park")
  /\ UNCHANGED <<limited, park, fired, mine, table, engineVars, stopVars>>

(* yoop_park_until, or the end of a task's step: consume a pending wake,   *)
(* or park.                                                                *)
Park(c) ==
  /\ At(c, "park")
  /\ IF park[c] = 1
     THEN park' = [park EXCEPT ![c] = 0] /\ Goto(c, "check")
     ELSE park' = [park EXCEPT ![c] = 2] /\ Goto(c, "parked")
  /\ UNCHANGED <<limited, fired, mine, table, engineVars, stopVars, token>>

(* A second wake before the thread is back is kept for its next park; the  *)
(* step a resumed task begins clears its byte (run_task_step).             *)
Unparked(c) ==
  /\ At(c, "parked") /\ park[c] # 2
  /\ park' = IF IsTask(c) THEN [park EXCEPT ![c] = 0] ELSE park
  /\ Goto(c, "check")
  /\ UNCHANGED <<limited, fired, mine, table, engineVars, stopVars, token>>

(* Mutant: a deadline of 0 is taken for one long past, not for none.       *)
ParkTimeoutZero(c) ==
  /\ At(c, "parked") /\ park[c] = 2
  /\ ~IsTask(c)
  /\ park' = [park EXCEPT ![c] = 0]
  /\ Goto(c, "late")
  /\ UNCHANGED <<limited, fired, mine, table, engineVars, stopVars, token>>

(* The deadline passes while the thread is parked.                         *)
ParkTimeout(c) ==
  /\ At(c, "parked") /\ park[c] = 2
  /\ c \in limited /\ ~IsTask(c)
  /\ park' = [park EXCEPT ![c] = 0]
  /\ Goto(c, "late")
  /\ UNCHANGED <<limited, fired, mine, table, engineVars, stopVars, token>>

(* After the park, under io_mu.  What the engine delivered comes first; an *)
(* operation's entry is still there and is collected.                      *)
Collect(c) ==
  /\ At(c, "check") \/ At(c, "late")
  /\ ~IsTask(c)
  /\ c \in fired
  /\ table' = table \ Of(mine[c])
  /\ Goto(c, "unlink")
  /\ UNCHANGED <<limited, park, fired, mine, engineVars, stopVars, token>>

(* Then a cancellation, then the deadline: the wait is given up.           *)
Deregistered(c) == [ep EXCEPT ![Dir[c]] = IF @ = mine[c] THEN NoSeq ELSE @]

MayGiveUp(c) ==
  /\ At(c, "check") \/ At(c, "late")
  /\ ~IsTask(c)
  /\ c \notin fired
  /\ \/ c \in WithToken /\ token.flag
     \/ At(c, "late")
     \/ c \in limited

(* Mutants: the slot is dropped and the kernel not told; the entry is left *)
(* in the table.                                                           *)
GiveUpKeepsArmed(c) ==
  /\ MayGiveUp(c)
  /\ ep' = Deregistered(c)
  /\ table' = table \ Of(mine[c])
  /\ Goto(c, "unlink")
  /\ UNCHANGED <<limited, park, fired, mine, kernel, loop, stopVars, token>>

GiveUpLeavesEntry(c) ==
  /\ MayGiveUp(c)
  /\ ep' = Deregistered(c)
  /\ kernel' = IF ep' = ep THEN kernel ELSE Armed(ep')
  /\ Goto(c, "unlink")
  /\ UNCHANGED <<limited, park, fired, mine, table, loop, stopVars, token>>

GiveUp(c) ==
  /\ MayGiveUp(c)
  /\ ep' = Deregistered(c)
  /\ kernel' = IF ep' = ep THEN kernel ELSE Armed(ep')
  /\ table' = table \ Of(mine[c])
  /\ Goto(c, "unlink")
  /\ UNCHANGED <<limited, park, fired, mine, loop, stopVars, token>>

(* Otherwise nothing is decided yet and it parks again.                    *)
ParkAgain(c) ==
  /\ At(c, "check")
  /\ ~IsTask(c)
  /\ c \notin fired
  /\ ~(c \in WithToken /\ token.flag)
  /\ Goto(c, "park")
  /\ UNCHANGED <<limited, park, fired, mine, table, engineVars, stopVars, token>>

(* yoop_cancel_remove_waiter; the park token dies after it.                *)
Unlink(c) ==
  /\ At(c, "unlink")
  /\ ~token.waking
  /\ token' = [token EXCEPT !.waiters = @ \ {c}]
  /\ Goto(c, "idle")
  /\ mine' = [mine EXCEPT ![c] = NoSeq]
  /\ park' = [park EXCEPT ![c] = 0]
  /\ fired' = fired \ {c} /\ limited' = limited \ {c}
  /\ UNCHANGED <<table, engineVars, stopVars>>

(* A task runs again: a plain wait is over, an operation is ended by       *)
(* yoop_iop_end, which frees the task's entry, delivered or not.           *)
Resume(c) ==
  /\ At(c, "check") /\ IsTask(c)
  /\ table' = IF Kind[c] = "taskop" THEN table \ {r \in table : r.owner = c /\ r.op} ELSE table
  /\ Goto(c, "idle")
  /\ mine' = [mine EXCEPT ![c] = NoSeq]
  /\ UNCHANGED <<limited, park, fired, engineVars, stopVars, token>>

(* yoop_io_closing on the descriptor, between calls.                       *)
Close ==
  /\ \A c \in Callers : At(c, "idle")
  /\ ep' = NoSlots /\ kernel' = {}
  /\ UNCHANGED <<callVars, park, table, loop, stopVars, token>>

-----------------------------------------------------------------------------
(* The I/O thread.  epoll_wait reports armed directions that are ready,    *)
(* and EPOLLONESHOT disarms the whole entry; an error or a hang-up counts  *)
(* as both directions.                                                     *)
BatchDone == loop.batch = {} /\ loop.hand = <<>> /\ loop.wakes = {}

Poll(D, events) ==
  /\ loop.alive /\ BatchDone /\ ~loop.last
  /\ "wake" \in events <=> nudged
  /\ IF "fd" \in events THEN kernel # {} /\ D # {} /\ (D \subseteq kernel \/ D = Dirs)
     ELSE D = {}
  /\ kernel' = IF "fd" \in events THEN {} ELSE kernel
  /\ loop' = [loop EXCEPT !.batch = events, !.dirs = D]
  /\ UNCHANGED <<callVars, park, table, ep, stopVars, token>>

TakeNudge ==
  /\ "wake" \in loop.batch
  /\ loop.hand = <<>> /\ loop.wakes = {}
  /\ nudged' = FALSE
  /\ loop' = [loop EXCEPT !.batch = @ \ {"wake"}, !.last = stopping]
  /\ UNCHANGED <<callVars, park, table, ep, kernel, stop, stopping, token>>

(* The seqs of the directions that fired are taken out of their slots and  *)
(* whatever did not fire is armed again.                                   *)
Slot(e, D, d) == IF d \in D /\ e[d] # NoSeq THEN <<e[d]>> ELSE <<>>
Fired(e, D) == Slot(e, D, "read") \o Slot(e, D, "write")

(* Mutant: the direction that did not fire is not armed again.             *)
TakeEventOnly ==
  /\ "fd" \in loop.batch
  /\ loop.hand = <<>> /\ loop.wakes = {}
  /\ ep' = [d \in Dirs |-> IF d \in loop.dirs THEN NoSeq ELSE ep[d]]
  /\ loop' = [loop EXCEPT !.batch = @ \ {"fd"}, !.dirs = {}, !.hand = Fired(ep, loop.dirs)]
  /\ UNCHANGED <<callVars, park, table, kernel, stopVars, token>>

TakeEvent ==
  /\ "fd" \in loop.batch
  /\ loop.hand = <<>> /\ loop.wakes = {}
  /\ ep' = [d \in Dirs |-> IF d \in loop.dirs THEN NoSeq ELSE ep[d]]
  /\ kernel' = IF ep = NoSlots THEN kernel ELSE Armed(ep')
  /\ loop' = [loop EXCEPT !.batch = @ \ {"fd"}, !.dirs = {}, !.hand = Fired(ep, loop.dirs)]
  /\ UNCHANGED <<callVars, park, table, stopVars, token>>

(* yoop_iob_deliver: a plain entry is dropped, an operation's stays to be  *)
(* collected.  A thread is unparked under io_mu, a task after it.  A seq   *)
(* whose entry is gone is dropped.                                         *)
Delivered(r) == IF r.op THEN {[r EXCEPT !.delivered = TRUE]} ELSE {}
Suspended(r) == IsTask(r.owner)

Deliver ==
  /\ loop.hand # <<>> /\ loop.wakes = {}
  /\ LET hit == Of(Head(loop.hand))
         threads == {r.owner : r \in {x \in hit : ~Suspended(x)}}
         tasks == {r.owner : r \in {x \in hit : Suspended(x)}}
     IN /\ table' = (table \ hit) \cup UNION {Delivered(r) : r \in hit}
        /\ fired' = fired \cup threads
        /\ park' = Woken(threads)
        /\ loop' = [loop EXCEPT !.hand = Tail(@), !.wakes = tasks]
  /\ UNCHANGED <<pc, limited, mine, ep, kernel, stopVars, token>>

MakeRunnable ==
  /\ loop.wakes # {}
  /\ park' = Woken(loop.wakes)
  /\ loop' = [loop EXCEPT !.wakes = {}]
  /\ UNCHANGED <<callVars, table, ep, kernel, stopVars, token>>

LoopEnd ==
  /\ loop.alive /\ loop.last /\ BatchDone
  /\ loop' = Idle
  /\ UNCHANGED <<callVars, park, table, ep, kernel, stopVars, token>>

-----------------------------------------------------------------------------
(* Mutant: the wake goes out without the flag.                             *)
AnnounceUnpublished ==
  /\ stop = "no" /\ loop.alive
  /\ stop' = "announced" /\ nudged' = TRUE
  /\ UNCHANGED <<callVars, park, table, engineVars, stopping, token>>

(* yoop_io_shutdown, once: announce, then wake the loop, join it, ...      *)
Announce ==
  /\ stop = "no" /\ loop.alive
  /\ stop' = "announced" /\ stopping' = TRUE
  /\ UNCHANGED <<callVars, park, table, engineVars, nudged, token>>

Nudge ==
  /\ stop = "announced"
  /\ stop' = "nudging" /\ nudged' = TRUE
  /\ UNCHANGED <<callVars, park, table, engineVars, stopping, token>>

JoinLoop ==
  /\ stop = "nudging" /\ ~loop.alive
  /\ stop' = "flushing"
  /\ UNCHANGED <<callVars, park, table, engineVars, stopping, nudged, token>>

(* ... then release whoever is still registered, one entry at a time ...   *)
Flush(r) ==
  /\ stop = "flushing" /\ r \in table
  /\ table' = table \ {r}
  /\ fired' = IF Suspended(r) THEN fired ELSE fired \cup {r.owner}
  /\ park' = Woken({r.owner})
  /\ UNCHANGED <<pc, limited, mine, engineVars, stopVars, token>>

FlushEnd ==
  /\ stop = "flushing" /\ table = {}
  /\ stop' = "flushed"
  /\ UNCHANGED <<callVars, park, table, engineVars, stopping, nudged, token>>

(* ... and, no longer under io_mu, tear the engine down.                   *)
Teardown ==
  /\ stop = "flushed"
  /\ ep' = NoSlots /\ kernel' = {}
  /\ stop' = "done" /\ stopping' = FALSE /\ nudged' = FALSE
  /\ UNCHANGED <<callVars, park, table, loop, token>>

-----------------------------------------------------------------------------
(* yoop_cancel_request: the flag first, then every waiter, all under t->mu.*)
Request ==
  /\ ~token.flag /\ ~token.waking
  /\ token' = [token EXCEPT !.flag = TRUE, !.waking = TRUE]
  /\ UNCHANGED <<callVars, park, table, engineVars, stopVars>>

(* yoop_cancel_set_deadline_ns: a deadline on a token that had none, and   *)
(* a nudge for those parked on it.                                         *)
SetDeadline ==
  /\ ~token.limited /\ ~token.waking
  /\ token' = [token EXCEPT !.limited = TRUE, !.waking = TRUE]
  /\ UNCHANGED <<callVars, park, table, engineVars, stopVars>>

WakeWaiters ==
  /\ token.waking
  /\ park' = Woken(token.waiters)
  /\ token' = [token EXCEPT !.waking = FALSE]
  /\ UNCHANGED <<callVars, table, engineVars, stopVars>>

-----------------------------------------------------------------------------
CallStep(c) ==
  \/ Begin(c) \/ Claim(c) \/ Refuse(c) \/ Link(c) \/ Park(c) \/ Unparked(c) \/ ParkTimeout(c)
  \/ Collect(c) \/ GiveUp(c) \/ ParkAgain(c) \/ Unlink(c) \/ Resume(c)

LoopStep == TakeNudge \/ TakeEvent \/ Deliver \/ MakeRunnable \/ LoopEnd

StopStep == Nudge \/ JoinLoop \/ FlushEnd \/ Teardown \/ \E r \in table : Flush(r)

Next ==
  \/ \E c \in Callers : Call(c) \/ CallStep(c)
  \/ \E D \in SUBSET Dirs, events \in SUBSET {"fd", "wake"} : events # {} /\ Poll(D, events)
  \/ LoopStep \/ Announce \/ StopStep
  \/ Request \/ SetDeadline \/ WakeWaiters \/ Close

Spec == Init /\ [][Next]_vars

-----------------------------------------------------------------------------
InWait == {"link", "park", "parked", "check", "late"}

Registration == [seq : Seqs, owner : Callers, op : BOOLEAN, delivered : BOOLEAN]
LoopState == [alive : BOOLEAN, batch : SUBSET {"fd", "wake"}, dirs : SUBSET Dirs,
              hand : Seq(Seqs), wakes : SUBSET Callers, last : BOOLEAN]

(* Besides the types: the kernel is never asked for a direction that has   *)
(* no slot.                                                                *)
TypeOK ==
  /\ pc \in [Callers -> {"idle", "begin", "claim", "unlink"} \cup InWait]
  /\ limited \subseteq Callers /\ fired \subseteq Callers
  /\ park \in [Callers -> 0..2]
  /\ mine \in [Callers -> {NoSeq} \cup Seqs]
  /\ table \subseteq Registration
  /\ ep \in [Dirs -> {NoSeq} \cup Seqs]
  /\ kernel \subseteq Armed(ep)
  /\ loop \in LoopState
  /\ stop \in {"no", "announced", "nudging", "flushing", "flushed", "done"}
  /\ stopping \in BOOLEAN /\ nudged \in BOOLEAN
  /\ token \in [flag : BOOLEAN, waking : BOOLEAN, waiters : SUBSET Callers, limited : BOOLEAN]

(***************************************************************************)
(* The fired-under-io_mu abandon handshake: the engine and the cancel      *)
(* token can only ever reach the stack frame of a wait that has not        *)
(* returned.  Every blocking registration is the one its owner's current   *)
(* call made, and every waiter node is of a call still in progress,        *)
(* whatever delivery, timeout, cancellation and shutdown do at once.       *)
(***************************************************************************)
NoDanglingFrame ==
  /\ \A r \in table : ~Suspended(r) => pc[r.owner] \in InWait /\ r.seq = mine[r.owner]
  /\ \A c \in token.waiters : pc[c] \in (InWait \ {"link"}) \cup {"unlink"}

(***************************************************************************)
(* Until shutdown has released the waiters, whoever is parked still has    *)
(* its registration, undelivered, and a live engine behind it: armed in    *)
(* the kernel, or in an event the loop is about to process (and will arm   *)
(* again), or claimed for delivery.  In particular a reader and a writer   *)
(* of one descriptor never disarm each other                               *)
(* (test_opposite_directions_coexist in runtime/tests/io_fd_conflict.c).   *)
(* And a waiter that a cancelled token lists is about to be woken.         *)
(***************************************************************************)
Parked(c) == At(c, "parked") /\ park[c] = 2

Covered(r) ==
  \/ stop # "no"
  \/ ep[Dir[r.owner]] = r.seq /\ (Dir[r.owner] \in kernel \/ "fd" \in loop.batch)
  \/ \E i \in 1..Len(loop.hand) : loop.hand[i] = r.seq

ListedWaiterIsWoken ==
  \A c \in token.waiters : Parked(c) /\ token.flag => token.waking

NoStranded ==
  /\ stop \in {"no", "announced", "nudging", "flushing"} =>
       \A c \in Callers :
         Parked(c) => \/ c \in loop.wakes
                      \/ \E r \in Of(mine[c]) : ~r.delivered /\ Covered(r)
  /\ ListedWaiterIsWoken

(***************************************************************************)
(* A call implements WaitPromise from its registration to its return: what *)
(* the engine delivers or the shutdown releases, it does to the frame of a *)
(* thread, or to the entry of a task, and only of the current call.        *)
(***************************************************************************)
Pending(c) == \E r \in Of(mine[c]) : ~r.delivered

Phase(c) ==
  IF pc[c] \in {"idle", "begin", "claim"} THEN "none"
  ELSE IF c \in fired THEN "ready"
  ELSE IF At(c, "unlink") THEN "over"
  ELSE IF IsTask(c) /\ ~Pending(c) THEN "ready" ELSE "waiting"

Promise == INSTANCE WaitPromise WITH
  Suspending <- {c \in Callers : IsTask(c)}, Listening <- WithToken, Hurried <- Deadlined,
  phase <- [c \in Callers |-> Phase(c)], cancelled <- token.flag, dated <- token.limited,
  shut <- stop # "no"

ImplementsPromise == Promise!Spec

(***************************************************************************)
(* "A token cancelled between the pre-check above and here reports it here *)
(* instead" (io_wait_common, of yoop_cancel_add_waiter): no wait stays     *)
(* parked on a token whose cancellation is over.                           *)
(***************************************************************************)
CancelIsSeen ==
  \A c \in WithToken : Parked(c) /\ token.flag => token.waking

(***************************************************************************)
(* "Release anyone still parked.  Without this a thread waiting on an fd   *)
(* that never becomes ready would block past runtime shutdown with nothing *)
(* left running to wake it" (yoop_io_shutdown): while the engine is down   *)
(* nobody is parked.                                                       *)
(***************************************************************************)
ReleasedAtShutdown == stop = "done" /\ ~loop.alive => \A c \in Callers : ~Parked(c)

(***************************************************************************)
(* "Announce the stop BEFORE waking": yoop_io_shutdown can join the I/O    *)
(* thread, because a loop that has consumed the wake has seen the flag.    *)
(***************************************************************************)
StopIsSeen == stop = "nudging" /\ loop.alive => nudged \/ loop.last
=============================================================================
