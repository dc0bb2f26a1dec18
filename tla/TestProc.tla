------------------------------ MODULE TestProc ------------------------------
(***************************************************************************)
(* How the test driver keeps its child processes: runProc, killTree,       *)
(* trackChild, stopChild and the safety net of src/testProc.js.            *)
(*                                                                         *)
(* The driver is one thread.  Between two of its steps, and also while     *)
(* killTree waits for pgrep, the processes go on: they fork, exit, obey a  *)
(* SIGTERM or do not.  A process whose parent ends is reparented and can   *)
(* no longer be found from the child.  Time is abstract: a timer may fire  *)
(* at any moment, but two with a known order keep it.                      *)
(***************************************************************************)

CONSTANTS Children,   (* the processes the driver starts                    *)
          Managed,    (* the ones of trackChild; the others are runProc's   *)
          Forks,      (* the processes that those may start                 *)
          None        (* nobody                                             *)

ASSUME TestProcAssumption ==
  /\ Managed \subseteq Children /\ Children \cap Forks = {}
  /\ None \notin Children \cup Forks

VARIABLES
  proc,      (* per process: unborn, running or dead; failed: never spawned *)
  parent,    (* per process: its parent, None for the driver and for init   *)
  pipe,      (* per process: the child whose stdio pipes it has open        *)
  strays,    (* history: the processes no walk from a child can find, or    *)
             (* that were forked while SIGKILLs were being sent            *)
  call,      (* per child: new, open, settled or resolved                   *)
  exited,    (* the children whose exit event was handled                   *)
  armed,     (* per child: its timers that are armed                        *)
  drain,     (* per child: the variable drainTimer                          *)
  timedOut,  (* the children whose deadline has passed                      *)
  live,      (* the set of tracked children                                 *)
  kill,      (* the killTree in progress                                    *)
  driver     (* up, exiting or gone                                         *)

system == <<proc, parent, pipe, strays>>
timing == <<exited, armed, drain, timedOut>>
vars == <<system, call, timing, live, kill, driver>>

Procs == Children \cup Forks
Running == {p \in Procs : proc[p] = "running"}
Timers == {"deadline", "kill", "drainExit", "drainLast"}
NoKill == [at |-> "off", child |-> None, signal |-> "none", kin |-> {}]
Idle == kill = NoKill /\ driver = "up"

(* S has every running process whose parent it has, or whose parent is p.  *)
Closed(S, p) == \A q \in Forks \cap Running : parent[q] \in S \cup {p} => q \in S

(* Mutant: the walk returns its root, too.                                 *)
DescendantsAndSelf(p) ==
  {p} \cup {q \in Forks \cap Running : \A S \in SUBSET Forks : Closed(S, p) => q \in S}

(* The running processes below p: the least such set.                      *)
Descendants(p) ==
  {q \in Forks \cap Running : \A S \in SUBSET Forks : Closed(S, p) => q \in S}

Init ==
  /\ proc = [p \in Procs |-> "unborn"]
  /\ parent = [p \in Procs |-> None]
  /\ pipe = [p \in Procs |-> None]
  /\ strays = {}
  /\ call = [c \in Children |-> "new"]
  /\ exited = {}
  /\ armed = [c \in Children |-> {}]
  /\ drain = [c \in Children |-> "none"]
  /\ timedOut = {}
  /\ live = {}
  /\ kill = NoKill
  /\ driver = "up"

-----------------------------------------------------------------------------
(* The system.  A fork inherits the pipes, or has redirected its output.   *)
Fork(p, q) ==
  /\ p \in Running /\ q \in Forks /\ proc[q] = "unborn"
  /\ proc' = [proc EXCEPT ![q] = "running"]
  /\ parent' = [parent EXCEPT ![q] = p]
  /\ \E s \in {pipe[p], None} : pipe' = [pipe EXCEPT ![q] = s]
  /\ strays' = IF p \in strays \/ kill.signal = "SIGKILL" THEN strays \cup {q} ELSE strays
  /\ UNCHANGED <<call, timing, live, kill, driver>>

Die(S) ==
  /\ proc' = [p \in Procs |-> IF p \in S THEN "dead" ELSE proc[p]]
  /\ parent' = [p \in Procs |-> IF {p, parent[p]} \cap S # {} THEN None ELSE parent[p]]
  /\ pipe' = [p \in Procs |-> IF p \in S THEN None ELSE pipe[p]]

(* A process ends, for its own reasons or because it obeys a SIGTERM; it   *)
(* need not ever.                                                          *)
Exit(p) ==
  /\ p \in Running
  /\ Die({p})
  /\ strays' = strays \cup Descendants(p)
  /\ UNCHANGED <<call, timing, live, kill, driver>>

(* process.kill on each.  SIGKILL ends it.  After a SIGTERM it exits, or   *)
(* does not, as it could before.                                           *)
Send(S, signal) ==
  /\ IF signal = "SIGKILL" THEN Die(S \cap Running) ELSE UNCHANGED <<proc, parent, pipe>>
  /\ UNCHANGED strays

-----------------------------------------------------------------------------
(* Mutant: the child goes first.                                           *)
KillTreeChildFirst(c, signal) ==
  kill' = [at |-> "child", child |-> c, signal |-> signal, kin |-> {}]

(* killTree: two passes over the descendants, and the child last.          *)
KillTree(c, signal) ==
  kill' = [at |-> "walk1", child |-> c, signal |-> signal, kin |-> {}]

(* descendants, by pgrep -P.                                               *)
Walk ==
  /\ kill.at \in {"walk1", "walk2"}
  /\ LET kin == Descendants(kill.child) IN
       kill' = [kill EXCEPT !.kin = kin,
                            !.at = IF kin = {} THEN "child"
                                   ELSE IF @ = "walk1" THEN "send1" ELSE "send2"]
  /\ UNCHANGED <<system, call, timing, live, driver>>

KillKin ==
  /\ kill.at \in {"send1", "send2"}
  /\ Send(kill.kin, kill.signal)
  /\ kill' = [kill EXCEPT !.kin = {}, !.at = IF @ = "send1" THEN "walk2" ELSE "child"]
  /\ UNCHANGED <<call, timing, live, driver>>

(* child.kill; whoever called killTree to settle or to stop goes on.       *)
KillChild ==
  /\ kill.at = "child"
  /\ Send({kill.child}, kill.signal)
  /\ kill' = NoKill
  /\ call' = IF call[kill.child] = "settled"
             THEN [call EXCEPT ![kill.child] = "resolved"] ELSE call
  /\ UNCHANGED <<timing, live, driver>>

-----------------------------------------------------------------------------
(* runProc and trackChild.  The timeout of every caller is positive, so    *)
(* every runProc has a deadline.                                           *)
Start(c) ==
  /\ Idle /\ call[c] = "new"
  /\ \/ /\ proc' = [proc EXCEPT ![c] = "running"]
        /\ pipe' = [pipe EXCEPT ![c] = c]
     \/ /\ proc' = [proc EXCEPT ![c] = "failed"]
        /\ UNCHANGED pipe
  /\ call' = [call EXCEPT ![c] = "open"]
  /\ live' = live \cup {c}
  /\ armed' = [armed EXCEPT ![c] = IF c \in Managed THEN {} ELSE {"deadline"}]
  /\ UNCHANGED <<parent, strays, exited, drain, timedOut, kill, driver>>

(* settle: the three timer variables are cleared, the child is no longer   *)
(* tracked, and a sweep kills the tree before the promise is resolved.     *)
Settle(c, others, sweep) ==
  /\ call[c] = "open"
  /\ armed' = [armed EXCEPT ![c] = others \ {"deadline", "kill", drain[c]}]
  /\ live' = live \ {c}
  /\ IF sweep THEN KillTree(c, "SIGKILL") /\ call' = [call EXCEPT ![c] = "settled"]
     ELSE UNCHANGED kill /\ call' = [call EXCEPT ![c] = "resolved"]

OnError(c) ==
  /\ Idle /\ c \notin Managed
  /\ proc[c] = "failed"
  /\ Settle(c, armed[c], FALSE)
  /\ UNCHANGED <<system, exited, drain, timedOut, driver>>

(* Mutant: the exit event of a settled call arms the drain timer.          *)
OnExitAlways(c) ==
  /\ Idle /\ c \notin Managed
  /\ proc[c] = "dead" /\ c \notin exited
  /\ exited' = exited \cup {c}
  /\ IF drain[c] # "none" THEN UNCHANGED <<armed, drain>>
     ELSE /\ armed' = [armed EXCEPT ![c] = @ \cup {"drainExit"}]
          /\ drain' = [drain EXCEPT ![c] = "drainExit"]
  /\ UNCHANGED <<system, call, timedOut, live, kill, driver>>

OnExit(c) ==
  /\ Idle /\ c \notin Managed
  /\ proc[c] = "dead" /\ c \notin exited
  /\ exited' = exited \cup {c}
  /\ IF call[c] # "open" \/ drain[c] # "none" THEN UNCHANGED <<armed, drain>>
     ELSE /\ armed' = [armed EXCEPT ![c] = @ \cup {"drainExit"}]
          /\ drain' = [drain EXCEPT ![c] = "drainExit"]
  /\ UNCHANGED <<system, call, timedOut, live, kill, driver>>

(* close: the child is dead and its pipes have reached their end.  It is   *)
(* not strictly ordered after exit.                                        *)
OnClose(c) ==
  /\ Idle /\ c \notin Managed
  /\ proc[c] = "dead" /\ \A p \in Running : pipe[p] # c
  /\ Settle(c, armed[c], FALSE)
  /\ UNCHANGED <<system, exited, drain, timedOut, driver>>

(* The deadline.  An error event is handled before any timer.              *)
Deadline(c) ==
  /\ Idle /\ "deadline" \in armed[c] /\ proc[c] # "failed"
  /\ timedOut' = timedOut \cup {c}
  /\ KillTree(c, "SIGTERM")
  /\ armed' = [armed EXCEPT ![c] = (@ \ {"deadline"}) \cup {"kill", "drainLast"}]
  /\ drain' = [drain EXCEPT ![c] = "drainLast"]
  /\ UNCHANGED <<system, call, exited, live, driver>>

KillTimer(c) ==
  /\ Idle /\ "kill" \in armed[c]
  /\ armed' = [armed EXCEPT ![c] = @ \ {"kill"}]
  /\ KillTree(c, "SIGKILL")
  /\ UNCHANGED <<system, call, exited, drain, timedOut, live, driver>>

(* Mutant: a drain timer waits for the exit event.                         *)
DrainTimerAfterExit(c, t) ==
  /\ Idle /\ t \in armed[c] \cap {"drainExit", "drainLast"}
  /\ t = "drainLast" => armed[c] \cap {"kill", "drainExit"} = {}
  /\ IF call[c] = "open" /\ c \in exited THEN Settle(c, armed[c] \ {t}, TRUE)
     ELSE armed' = [armed EXCEPT ![c] = @ \ {t}] /\ UNCHANGED <<call, live, kill>>
  /\ UNCHANGED <<system, exited, drain, timedOut, driver>>

(* A drain timer: of the exit event, or the last resort of the deadline,   *)
(* which is later than the kill and than a drain that began before it.     *)
DrainTimer(c, t) ==
  /\ Idle /\ t \in armed[c] \cap {"drainExit", "drainLast"}
  /\ t = "drainLast" => armed[c] \cap {"kill", "drainExit"} = {}
  /\ IF call[c] = "open" THEN Settle(c, armed[c] \ {t}, TRUE)
     ELSE armed' = [armed EXCEPT ![c] = @ \ {t}] /\ UNCHANGED <<call, live, kill>>
  /\ UNCHANGED <<system, exited, drain, timedOut, driver>>

(* stopChild.                                                              *)
StopChild(c) ==
  /\ Idle /\ c \in Managed /\ call[c] = "open"
  /\ live' = live \ {c}
  /\ KillTree(c, "SIGKILL")
  /\ call' = [call EXCEPT ![c] = "settled"]
  /\ UNCHANGED <<system, timing, driver>>

(* The safety net: a signal, or any end of the driver, and killEveryone,   *)
(* one tracked child after the other.                                      *)
Interrupt ==
  /\ Idle
  /\ driver' = "exiting"
  /\ UNCHANGED <<system, call, timing, live, kill>>

KillNext(c) ==
  /\ driver = "exiting" /\ kill = NoKill /\ c \in live
  /\ live' = live \ {c}
  /\ KillTree(c, "SIGKILL")
  /\ UNCHANGED <<system, call, timing, driver>>

Gone ==
  /\ driver = "exiting" /\ kill = NoKill /\ live = {}
  /\ driver' = "gone"
  /\ UNCHANGED <<system, call, timing, live, kill>>

Next ==
  \/ \E p \in Procs : Exit(p) \/ \E q \in Forks : Fork(p, q)
  \/ Walk \/ KillKin \/ KillChild \/ Interrupt \/ Gone
  \/ \E c \in Children :
       \/ Start(c) \/ OnError(c) \/ OnExit(c) \/ OnClose(c)
       \/ Deadline(c) \/ KillTimer(c) \/ StopChild(c) \/ KillNext(c)
       \/ \E t \in Timers : DrainTimer(c, t)

(* Timers fire, pgrep comes back (it has a timeout of its own), and an     *)
(* error or close event that is due is delivered.  Nothing is assumed of   *)
(* the processes.                                                          *)
Fairness ==
  /\ WF_vars(Walk) /\ WF_vars(KillKin) /\ WF_vars(KillChild) /\ WF_vars(Gone)
  /\ \A c \in Children :
       /\ WF_vars(OnError(c)) /\ WF_vars(Deadline(c)) /\ WF_vars(KillTimer(c))
       /\ WF_vars(KillNext(c)) /\ \A t \in Timers : WF_vars(DrainTimer(c, t))

Spec == Init /\ [][Next]_vars /\ Fairness

-----------------------------------------------------------------------------
TypeOK ==
  /\ proc \in [Procs -> {"unborn", "running", "dead", "failed"}]
  /\ parent \in [Procs -> Procs \cup {None}]
  /\ pipe \in [Procs -> Children \cup {None}]
  /\ strays \subseteq Forks
  /\ call \in [Children -> {"new", "open", "settled", "resolved"}]
  /\ exited \subseteq Children /\ timedOut \subseteq Children
  /\ armed \in [Children -> SUBSET Timers]
  /\ drain \in [Children -> {"none", "drainExit", "drainLast"}]
  /\ live \subseteq Children
  /\ kill \in [at : {"off", "walk1", "send1", "walk2", "send2", "child"},
               child : Children \cup {None}, signal : {"none", "SIGTERM", "SIGKILL"},
               kin : SUBSET Forks]
  /\ driver \in {"up", "exiting", "gone"}

(***************************************************************************)
(* A call leaves nothing behind (testProc.js, rule 3 and settle).  A child *)
(* that runs is tracked, or is just being killed, so that no result is     *)
(* reported and no run ends while it does; and no timer of a settled call  *)
(* still holds the event loop, but one: the drain of an exit that the      *)
(* deadline overtook, whose variable it overwrote.                         *)
(***************************************************************************)
Tracked ==
  \A c \in Children \cap Running : (c \in live /\ driver # "gone") \/ kill.child = c

TimersCleared ==
  \A c \in Children :
    call[c] \in {"settled", "resolved"} /\ armed[c] # {} =>
      c \in timedOut /\ armed[c] = {"drainExit"}

CallLeavesNothing == Tracked /\ TimersCleared

(***************************************************************************)
(* "Every kill is a TREE kill" (testProc.js, rule 2), as far as it goes:   *)
(* what survives an interrupted run is only what no walk could find, a     *)
(* process left behind by a parent that ended before it, or one forked     *)
(* while the driver was killing a tree.                                    *)
(***************************************************************************)
OnlyStraysSurvive == driver = "gone" => Running \subseteq strays

(***************************************************************************)
(* What makes every runProc end (settle and the timers around it): as long *)
(* as a call is open, its deadline is armed or else the last drain, the    *)
(* two that settle it whatever its processes do; neither the exit drain,   *)
(* nor a kill that came between, ever leaves it with only the others.  And *)
(* a call whose result waits for its sweep is the one killTree is busy     *)
(* with.                                                                   *)
(***************************************************************************)
EndIsDue ==
  \A c \in Children :
    /\ c \notin Managed /\ call[c] = "open" => armed[c] \cap {"deadline", "drainLast"} # {}
    /\ call[c] = "settled" => kill.child = c

(***************************************************************************)
(* The kills are patient: as long as the driver is not ending, killTree is *)
(* never at work on a runProc child that still runs and has not passed its *)
(* deadline; an exit drain, its sweep and the kill timer of another call   *)
(* do not reach it.                                                        *)
(***************************************************************************)
Patient ==
  \A c \in (Children \ Managed) \cap Running :
    driver = "up" /\ kill.child = c => c \in timedOut

(***************************************************************************)
(* "EVERY child gets a deadline" (testProc.js, rule 1): a runProc is       *)
(* resolved, or the driver ends, whatever the child and its descendants    *)
(* do: hang, ignore SIGTERM, or hold the pipes of a child that is gone.    *)
(***************************************************************************)
Resolves ==
  \A c \in Children \ Managed :
    call[c] = "open" ~> (call[c] = "resolved" \/ driver = "gone")
=============================================================================
