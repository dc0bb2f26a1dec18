--------------------------- MODULE TestProc_proofs ---------------------------
(***************************************************************************)
(* Proofs about TestProc, for any number of children and of processes      *)
(* below them: types, CallLeavesNothing, OnlyStraysSurvive, EndIsDue and   *)
(* Patient.                                                                *)
(*                                                                         *)
(* None of them is inductive.  What a settled call leaves armed depends on *)
(* what drainTimer named when it was settled (Timing); a child is lost     *)
(* from the tracked set by a killTree only if that one is to kill it       *)
(* (Killing).  A process that is no stray is below a running child         *)
(* (Found), all the way down (Down), and killTree reaches it before its    *)
(* child, because nothing but strays is added below what the walk has      *)
(* returned (Caught): when the driver is gone no child runs, so neither    *)
(* does anything that is below one.                                        *)
(***************************************************************************)
EXTENDS TestProc, TLAPS

Timing ==
  \A c \in Children :
    /\ call[c] = "new" => armed[c] = {} /\ proc[c] = "unborn" /\ drain[c] = "none"
    /\ drain[c] = "none" => armed[c] \cap {"drainExit", "drainLast"} = {}
    /\ drain[c] = "drainExit" => "drainLast" \notin armed[c]
    /\ drain[c] = "drainLast" => c \in timedOut
    /\ c \in Managed => armed[c] = {}

Killing ==
  /\ kill.at = "off" => kill = NoKill
  /\ kill.at # "off" => kill.child \in Children /\ kill.signal \in {"SIGTERM", "SIGKILL"}
  /\ kill.signal = "SIGTERM" => kill.child \in live
  /\ driver = "up" => \A c \in Children : call[c] = "open" => c \in live
  /\ driver = "gone" => kill = NoKill /\ live = {}

Books == TypeOK /\ Timing /\ Killing /\ Tracked /\ TimersCleared

Kept == (Forks \cap Running) \ strays

Down == \A q \in Kept : parent[q] \notin strays

Caught ==
  kill.signal = "SIGKILL" =>
    \A q \in Kept :
      /\ kill.at \in {"send1", "send2"} /\ parent[q] \in kill.kin \cup {kill.child} => q \in kill.kin
      /\ kill.at = "child" => parent[q] # kill.child

Found == \A q \in Kept : \E c \in Children \cap Running : q \in Descendants(c)

Tree == Down /\ Caught /\ Found

IInv == Books /\ Tree

-----------------------------------------------------------------------------
(* Books.  The state of the driver and the processes it started.           *)
LEMMA InitBooks == Init => Books
BY TestProcAssumption
   DEF Init, Books, TypeOK, Timing, Killing, Tracked, TimersCleared, Procs, Running, Timers, NoKill

LEMMA DescendantsAreForks == ASSUME NEW p PROVE Descendants(p) \subseteq Forks \cap Running
BY DEF Descendants

LEMMA DieType == ASSUME Books, NEW S, Die(S)
                 PROVE  /\ proc' \in [Procs -> {"unborn", "running", "dead", "failed"}]
                        /\ parent' \in [Procs -> Procs \cup {None}]
                        /\ pipe' \in [Procs -> Children \cup {None}]
                        /\ Running' = Running \ S
                        /\ \A p \in Procs : proc[p] = "unborn" /\ p \notin S => proc'[p] = "unborn"
BY DEF Books, TypeOK, Die, Running, Procs

(* A step of the processes below the children.                             *)
LEMMA BooksKeptBelow ==
  ASSUME Books, proc' \in [Procs -> {"unborn", "running", "dead", "failed"}],
         parent' \in [Procs -> Procs \cup {None}], pipe' \in [Procs -> Children \cup {None}],
         strays' \subseteq Forks, UNCHANGED <<call, timing, live, kill, driver>>,
         \A c \in Children \cap Running' : c \in Running,
         \A c \in Children : call[c] = "new" => proc'[c] = proc[c]
  PROVE  Books'
BY DEF Books, TypeOK, Timing, Killing, Tracked, TimersCleared, timing

LEMMA ForkBooks == ASSUME Books, NEW p \in Procs, NEW q \in Forks, Fork(p, q) PROVE Books'
<1>1. /\ proc' \in [Procs -> {"unborn", "running", "dead", "failed"}]
      /\ parent' \in [Procs -> Procs \cup {None}]
      /\ pipe' \in [Procs -> Children \cup {None}]
      /\ strays' \subseteq Forks
  BY DEF Fork, Books, TypeOK, Procs
<1>2. \A c \in Children : proc'[c] = proc[c]
  BY TestProcAssumption DEF Fork, Books, TypeOK, Procs
<1>3. \A c \in Children \cap Running' : c \in Running BY <1>2 DEF Running
<1> QED BY <1>1, <1>2, <1>3, BooksKeptBelow DEF Fork

LEMMA ExitBooks == ASSUME Books, NEW p \in Procs, Exit(p) PROVE Books'
<1>1. Die({p}) /\ p \in Running BY DEF Exit
<1>2. strays' \subseteq Forks BY DescendantsAreForks DEF Exit, Books, TypeOK
<1>3. \A c \in Children : call[c] = "new" => proc'[c] = proc[c]
  BY <1>1 DEF Books, Timing, TypeOK, Die, Procs, Running
<1> QED BY <1>1, <1>2, <1>3, DieType, BooksKeptBelow DEF Exit

LEMMA WalkBooks == ASSUME Books, Walk PROVE Books'
<1>1. kill'.child = kill.child /\ kill'.signal = kill.signal /\ kill'.at \in {"child", "send1", "send2"}
      /\ kill'.kin \subseteq Forks /\ kill.at # "off"
  BY DescendantsAreForks DEF Walk, Books, TypeOK
<1>2. kill' \in [at : {"off", "walk1", "send1", "walk2", "send2", "child"},
                 child : Children \cup {None}, signal : {"none", "SIGTERM", "SIGKILL"},
                 kin : SUBSET Forks]
  BY <1>1 DEF Walk, Books, TypeOK
<1>3. TypeOK' BY <1>2 DEF Walk, Books, TypeOK, system, timing
<1>4. Timing' /\ TimersCleared' BY DEF Walk, Books, Timing, TimersCleared, system, timing
<1>5. Running' = Running /\ live' = live /\ driver' = driver BY DEF Walk, system, Running
<1>6. Killing' BY <1>1, <1>5 DEF Walk, Books, Killing, NoKill
<1>7. Tracked' BY <1>1, <1>5 DEF Books, Tracked
<1> QED BY <1>3, <1>4, <1>6, <1>7 DEF Books

LEMMA KillKinBooks == ASSUME Books, KillKin PROVE Books'
<1>1. kill'.child = kill.child /\ kill'.signal = kill.signal /\ kill'.at \in {"child", "walk2"}
      /\ kill.at # "off" /\ kill.kin \subseteq Forks
  BY DEF KillKin, Books, TypeOK
<1>2. kill' \in [at : {"off", "walk1", "send1", "walk2", "send2", "child"},
                 child : Children \cup {None}, signal : {"none", "SIGTERM", "SIGKILL"},
                 kin : SUBSET Forks]
  BY <1>1 DEF KillKin, Books, TypeOK
<1>3. /\ proc' \in [Procs -> {"unborn", "running", "dead", "failed"}]
      /\ parent' \in [Procs -> Procs \cup {None}]
      /\ pipe' \in [Procs -> Children \cup {None}]
  BY DieType DEF KillKin, Send, Books, TypeOK
<1>4. \A c \in Children : proc'[c] = proc[c]
  BY <1>1, TestProcAssumption DEF KillKin, Send, Die, Procs
<1>5. TypeOK' BY <1>2, <1>3 DEF KillKin, Send, Books, TypeOK, timing
<1>6. Timing' /\ TimersCleared' BY <1>4 DEF KillKin, Books, Timing, TimersCleared, timing
<1>7. Children \cap Running' = Children \cap Running BY <1>4 DEF Running
<1>8. Killing' BY <1>1 DEF KillKin, Books, Killing, NoKill
<1>9. Tracked' BY <1>1, <1>7 DEF KillKin, Books, Tracked
<1> QED BY <1>5, <1>6, <1>8, <1>9 DEF Books

LEMMA KillChildBooks == ASSUME Books, KillChild PROVE Books'
<1>1. kill.at = "child" /\ kill.child \in Children /\ kill.signal \in {"SIGTERM", "SIGKILL"}
  BY DEF KillChild, Books, Killing
<1>2. /\ proc' \in [Procs -> {"unborn", "running", "dead", "failed"}]
      /\ parent' \in [Procs -> Procs \cup {None}]
      /\ pipe' \in [Procs -> Children \cup {None}]
  BY DieType DEF KillChild, Send, Books, TypeOK
<1>3. call' \in [Children -> {"new", "open", "settled", "resolved"}]
      /\ \A c \in Children : /\ call'[c] = "new" => call[c] = "new"
                             /\ call'[c] \in {"settled", "resolved"} <=> call[c] \in {"settled", "resolved"}
  BY <1>1 DEF KillChild, Books, TypeOK
<1>4. \A c \in Children : call[c] = "new" => proc'[c] = "unborn"
  BY DEF KillChild, Send, Die, Books, Timing, Running, Procs
<1>5. TypeOK' BY <1>2, <1>3 DEF KillChild, Send, Books, TypeOK, timing, NoKill
<1>6. Timing' /\ TimersCleared' BY <1>3, <1>4 DEF KillChild, Books, Timing, TimersCleared, timing
<1>7. Killing' BY <1>1 DEF KillChild, Books, Killing, NoKill
<1>8. Children \cap Running' \subseteq Running
      /\ (kill.signal = "SIGKILL" => kill.child \notin Running')
  BY <1>1 DEF KillChild, Send, Die, Running, Procs
<1>9. driver # "gone" BY <1>1 DEF Books, Killing, NoKill
<1>10. Tracked'
  BY <1>1, <1>8, <1>9 DEF KillChild, Books, Tracked, Killing
<1> QED BY <1>5, <1>6, <1>7, <1>10 DEF Books

LEMMA StartBooks == ASSUME Books, NEW c \in Children, Start(c) PROVE Books'
<1>1. /\ proc' \in [Procs -> {"unborn", "running", "dead", "failed"}]
      /\ pipe' \in [Procs -> Children \cup {None}]
      /\ \A x \in Children \ {c} : proc'[x] = proc[x]
  BY DEF Start, Books, TypeOK, Procs
<1>2. armed' \in [Children -> SUBSET Timers] /\ armed'[c] \subseteq {"deadline"}
      /\ \A x \in Children \ {c} : armed'[x] = armed[x]
  BY DEF Start, Books, TypeOK, Timers
<1>3. call' \in [Children -> {"new", "open", "settled", "resolved"}] /\ call'[c] = "open"
      /\ \A x \in Children \ {c} : call'[x] = call[x]
  BY DEF Start, Books, TypeOK
<1>4. TypeOK' BY <1>1, <1>2, <1>3 DEF Start, Books, TypeOK
<1>5. Timing' /\ TimersCleared'
  BY <1>1, <1>2, <1>3 DEF Start, Books, Timing, TimersCleared
<1>6. Killing' BY DEF Start, Idle, Books, Killing, NoKill
<1>7. Children \cap Running' \subseteq Running \cup {c} BY <1>1 DEF Running
<1>8. Tracked' BY <1>7 DEF Start, Idle, Books, Tracked
<1> QED BY <1>4, <1>5, <1>6, <1>8 DEF Books

LEMMA SettleBooks ==
  ASSUME Books, Idle, NEW c \in Children, NEW others, others \subseteq armed[c],
         NEW sweep \in BOOLEAN, sweep \/ c \notin Running, Settle(c, others, sweep),
         UNCHANGED <<system, exited, drain, timedOut, driver>>
  PROVE  Books'
<1>1. armed' \in [Children -> SUBSET Timers]
      /\ armed'[c] = others \ {"deadline", "kill", drain[c]}
      /\ \A x \in Children \ {c} : armed'[x] = armed[x]
  BY DEF Settle, Books, TypeOK
<1>2. call' \in [Children -> {"new", "open", "settled", "resolved"}]
      /\ call'[c] \in {"settled", "resolved"}
      /\ \A x \in Children \ {c} : call'[x] = call[x]
  BY DEF Settle, Books, TypeOK
<1>3. \/ kill' = NoKill /\ c \notin Running
      \/ kill' = [at |-> "walk1", child |-> c, signal |-> "SIGKILL", kin |-> {}]
  BY DEF Settle, KillTree, Idle
<1>4. live' = live \ {c} BY DEF Settle
<1>5. TypeOK' BY <1>1, <1>2, <1>3, <1>4 DEF Books, TypeOK, system, NoKill
<1>6. Timing' BY <1>1, <1>2 DEF Books, Timing, system
<1>7. TimersCleared'
  <2>1. \A x \in Children \ {c} : call'[x] \in {"settled", "resolved"} /\ armed'[x] # {} =>
          x \in timedOut' /\ armed'[x] = {"drainExit"}
    BY <1>1, <1>2 DEF Books, TimersCleared
  <2>2. ASSUME armed'[c] # {} PROVE c \in timedOut' /\ armed'[c] = {"drainExit"}
    <3>1. armed'[c] \subseteq {"drainExit", "drainLast"} \ {drain[c]} /\ armed'[c] \subseteq armed[c]
      BY <1>1 DEF Books, TypeOK, Timers
    <3>2. drain[c] \in {"none", "drainExit", "drainLast"} BY DEF Books, TypeOK
    <3>3. drain[c] = "drainLast" BY <2>2, <3>1, <3>2 DEF Books, Timing
    <3> QED BY <2>2, <3>1, <3>3 DEF Books, Timing
  <2> QED BY <2>1, <2>2 DEF TimersCleared
<1>8. Killing' BY <1>2, <1>3, <1>4 DEF Idle, Books, Killing, NoKill
<1>9. Tracked' BY <1>3, <1>4, TestProcAssumption DEF Idle, Books, Tracked, system, Running, NoKill
<1> QED BY <1>5, <1>6, <1>7, <1>8, <1>9 DEF Books

LEMMA OnErrorBooks == ASSUME Books, NEW c \in Children, OnError(c) PROVE Books'
<1>1. c \notin Running BY DEF OnError, Running
<1> QED BY <1>1, SettleBooks DEF OnError

LEMMA OnCloseBooks == ASSUME Books, NEW c \in Children, OnClose(c) PROVE Books'
<1>1. c \notin Running BY DEF OnClose, Running
<1> QED BY <1>1, SettleBooks DEF OnClose

LEMMA OnExitBooks == ASSUME Books, NEW c \in Children, OnExit(c) PROVE Books'
<1>1. exited' \subseteq Children BY DEF OnExit, Books, TypeOK
<1>2. CASE call[c] # "open" \/ drain[c] # "none"
  BY <1>1, <1>2 DEF OnExit, Books, TypeOK, Timing, Killing, Tracked, TimersCleared, system, Running
<1>3. CASE call[c] = "open" /\ drain[c] = "none"
  <2>1. armed' \in [Children -> SUBSET Timers] /\ armed'[c] = armed[c] \cup {"drainExit"}
        /\ \A x \in Children \ {c} : armed'[x] = armed[x]
    BY <1>3 DEF OnExit, Books, TypeOK, Timers
  <2>2. drain' \in [Children -> {"none", "drainExit", "drainLast"}] /\ drain'[c] = "drainExit"
        /\ \A x \in Children \ {c} : drain'[x] = drain[x]
    BY <1>3 DEF OnExit, Books, TypeOK
  <2>3. TypeOK' BY <1>1, <2>1, <2>2 DEF OnExit, Books, TypeOK, system
  <2>4. Timing' /\ TimersCleared'
    BY <1>3, <2>1, <2>2 DEF OnExit, Books, Timing, TimersCleared, system
  <2>5. Killing' /\ Tracked' BY DEF OnExit, Books, Killing, Tracked, system, Running
  <2> QED BY <2>3, <2>4, <2>5 DEF Books
<1> QED BY <1>2, <1>3

LEMMA DeadlineBooks == ASSUME Books, NEW c \in Children, Deadline(c) PROVE Books'
<1>1. armed' \in [Children -> SUBSET Timers]
      /\ \A x \in Children \ {c} : armed'[x] = armed[x]
  BY DEF Deadline, Books, TypeOK, Timers
<1>2. drain' \in [Children -> {"none", "drainExit", "drainLast"}] /\ drain'[c] = "drainLast"
      /\ \A x \in Children \ {c} : drain'[x] = drain[x]
  BY DEF Deadline, Books, TypeOK
<1>3. call[c] = "open"
  BY DEF Deadline, Books, TypeOK, Timing, TimersCleared
<1>4. timedOut' = timedOut \cup {c} /\ kill' = [at |-> "walk1", child |-> c, signal |-> "SIGTERM", kin |-> {}]
  BY DEF Deadline, KillTree
<1>5. TypeOK' BY <1>1, <1>2, <1>4 DEF Deadline, Books, TypeOK, system
<1>6. Timing' /\ TimersCleared'
  BY <1>1, <1>2, <1>3, <1>4 DEF Deadline, Books, Timing, TimersCleared, system
<1>7. Killing' BY <1>3, <1>4 DEF Deadline, Idle, Books, Killing, NoKill
<1>8. Tracked'
  BY <1>4, TestProcAssumption DEF Deadline, Idle, Books, Tracked, system, Running, NoKill
<1> QED BY <1>5, <1>6, <1>7, <1>8 DEF Books

LEMMA KillTimerBooks == ASSUME Books, NEW c \in Children, KillTimer(c) PROVE Books'
<1>1. armed' \in [Children -> SUBSET Timers] /\ armed'[c] = armed[c] \ {"kill"}
      /\ \A x \in Children \ {c} : armed'[x] = armed[x]
  BY DEF KillTimer, Books, TypeOK
<1>2. kill' = [at |-> "walk1", child |-> c, signal |-> "SIGKILL", kin |-> {}]
  BY DEF KillTimer, KillTree
<1>3. TypeOK' BY <1>1, <1>2 DEF KillTimer, Books, TypeOK, system
<1>4. Timing' /\ TimersCleared'
  BY <1>1 DEF KillTimer, Books, Timing, TimersCleared, system
<1>5. Killing' BY <1>2 DEF KillTimer, Idle, Books, Killing, NoKill
<1>6. Tracked'
  BY <1>2, TestProcAssumption DEF KillTimer, Idle, Books, Tracked, system, Running, NoKill
<1> QED BY <1>3, <1>4, <1>5, <1>6 DEF Books

LEMMA DrainTimerBooks ==
  ASSUME Books, NEW c \in Children, NEW t \in Timers, DrainTimer(c, t) PROVE Books'
<1>1. CASE call[c] = "open"
  BY <1>1, SettleBooks DEF DrainTimer
<1>2. CASE call[c] # "open"
  <2>1. armed' \in [Children -> SUBSET Timers] /\ armed'[c] = armed[c] \ {t}
        /\ \A x \in Children \ {c} : armed'[x] = armed[x]
    BY <1>2 DEF DrainTimer, Books, TypeOK
  <2>2. TypeOK' BY <1>2, <2>1 DEF DrainTimer, Books, TypeOK, system
  <2>3. Timing' /\ TimersCleared'
    BY <1>2, <2>1 DEF DrainTimer, Books, Timing, TimersCleared, system
  <2>4. Killing' /\ Tracked'
    BY <1>2 DEF DrainTimer, Books, Killing, Tracked, system, Running
  <2> QED BY <2>2, <2>3, <2>4 DEF Books
<1> QED BY <1>1, <1>2

LEMMA StopChildBooks == ASSUME Books, NEW c \in Children, StopChild(c) PROVE Books'
<1>1. kill' = [at |-> "walk1", child |-> c, signal |-> "SIGKILL", kin |-> {}]
  BY DEF StopChild, KillTree
<1>2. armed[c] = {}
  BY DEF StopChild, Books, Timing
<1>3. call' \in [Children -> {"new", "open", "settled", "resolved"}] /\ call'[c] = "settled"
      /\ \A x \in Children \ {c} : call'[x] = call[x]
  BY DEF StopChild, Books, TypeOK
<1>4. TypeOK' BY <1>1, <1>3 DEF StopChild, Books, TypeOK, system, timing
<1>5. Timing' /\ TimersCleared'
  BY <1>2, <1>3 DEF StopChild, Books, Timing, TimersCleared, system, timing
<1>6. Killing' BY <1>1, <1>3 DEF StopChild, Idle, Books, Killing, NoKill
<1>7. Tracked'
  BY <1>1, TestProcAssumption DEF StopChild, Idle, Books, Tracked, system, Running, NoKill
<1> QED BY <1>4, <1>5, <1>6, <1>7 DEF Books

LEMMA InterruptBooks == ASSUME Books, Interrupt PROVE Books'
BY DEF Interrupt, Idle, Books, TypeOK, Timing, Killing, Tracked, TimersCleared, system, timing, Running

LEMMA KillNextBooks == ASSUME Books, NEW c \in Children, KillNext(c) PROVE Books'
<1>1. kill' = [at |-> "walk1", child |-> c, signal |-> "SIGKILL", kin |-> {}]
  BY DEF KillNext, KillTree
<1>2. TypeOK' BY <1>1 DEF KillNext, Books, TypeOK, system, timing
<1>3. Timing' /\ TimersCleared' BY DEF KillNext, Books, Timing, TimersCleared, system, timing
<1>4. Killing' BY <1>1 DEF KillNext, Books, Killing, NoKill
<1>5. Tracked'
  BY <1>1, TestProcAssumption DEF KillNext, Books, Tracked, system, Running, NoKill
<1> QED BY <1>2, <1>3, <1>4, <1>5 DEF Books

LEMMA GoneBooks == ASSUME Books, Gone PROVE Books'
<1>1. TypeOK' /\ Timing' /\ TimersCleared' /\ Killing'
  BY DEF Gone, Books, TypeOK, Timing, TimersCleared, Killing, system, timing
<1>2. Children \cap Running = {}
  BY TestProcAssumption DEF Gone, Books, Tracked, NoKill
<1>3. Tracked' BY <1>2 DEF Gone, Tracked, system, Running
<1> QED BY <1>1, <1>3 DEF Books

-----------------------------------------------------------------------------
(* Tree.  What is below a child, and what killTree has found of it.        *)
LEMMA DescendantsClosed == ASSUME NEW p PROVE Closed(Descendants(p), p)
BY DEF Closed, Descendants

(* A step that ends no process and forks none.                             *)
LEMMA TreeUnchanged ==
  ASSUME Down, Found, Forks \cap Running' = Forks \cap Running,
         Children \cap Running \subseteq Running', UNCHANGED <<parent, strays>>
  PROVE  Down' /\ Found'
<1>1. Kept' = Kept BY DEF Kept
<1>2. \A c : Descendants(c)' = Descendants(c) BY DEF Descendants, Closed
<1> QED BY <1>1, <1>2 DEF Down, Found

(* The processes of S end.  X has the ones of S, and all that is below S   *)
(* or below X; none of X is kept.                                          *)
LEMMA DieTree ==
  ASSUME Books, Down, Found, NEW S, NEW X \in SUBSET Forks, Die(S),
         \A r \in Forks \cap Running : r \in S \/ parent[r] \in X \cup S => r \in X,
         strays \subseteq strays', strays' \subseteq strays \cup X, Kept' \cap X = {}
  PROVE  Down' /\ Found' /\ Kept' \subseteq Kept
<1>1. Running' = Running \ S BY DieType
<1>2. Kept' \subseteq Kept BY <1>1 DEF Kept
<1>3. \A r \in Procs : parent'[r] = parent[r] \/ parent'[r] = None BY DEF Die
<1>4. \A r \in Procs \ S : parent[r] \notin S => parent'[r] = parent[r] BY DEF Die
<1>5. Down'
  <2> SUFFICES ASSUME NEW q \in Kept' PROVE parent'[q] \notin strays'
    BY DEF Down
  <2>1. q \in Forks \cap Running /\ q \notin X /\ parent[q] \notin strays
    BY <1>2 DEF Kept, Down
  <2>2. parent[q] \notin X BY <2>1
  <2>3. None \notin strays' BY TestProcAssumption DEF Books, TypeOK
  <2> QED BY <1>3, <2>1, <2>2, <2>3 DEF Procs
<1>6. Found'
  <2> SUFFICES ASSUME NEW q \in Kept'
               PROVE  \E c \in Children \cap Running' : q \in Descendants(c)'
    BY DEF Found
  <2>1. PICK c \in Children \cap Running : q \in Descendants(c) BY <1>2 DEF Found
  <2>2. c \in Running'
    <3> SUFFICES ASSUME c \in S PROVE FALSE BY <1>1
    <3>1. Closed(X, c) BY DEF Closed
    <3> QED BY <2>1, <3>1 DEF Descendants
  <2>3. ASSUME NEW T \in SUBSET Forks, Closed(T, c)' PROVE q \in T
    <3>1. Closed(T \cup X, c)
      <4> SUFFICES ASSUME NEW r \in Forks \cap Running, parent[r] \in T \cup X \cup {c}, r \notin X
                   PROVE  r \in T
        BY DEF Closed
      <4>1. r \in Running' /\ parent[r] \notin X \cup S BY <1>1
      <4>2. parent'[r] = parent[r] BY <1>1, <1>4, <4>1 DEF Procs
      <4> QED BY <2>3, <4>1, <4>2 DEF Closed
    <3>2. q \in T \cup X BY <2>1, <3>1 DEF Descendants
    <3> QED BY <3>2
  <2>4. q \in Forks \cap Running' BY DEF Kept
  <2> QED BY <2>2, <2>3, <2>4 DEF Descendants
<1> QED BY <1>2, <1>5, <1>6

LEMMA InitTree == Init => Tree
BY DEF Init, Tree, Down, Caught, Found, Kept, Running, Procs, NoKill

LEMMA ForkTree ==
  ASSUME Books, Tree, NEW p \in Procs, NEW q \in Forks, Fork(p, q) PROVE Tree'
<1>1. /\ q \notin Running /\ Running' = Running \cup {q} /\ p \in Running
      /\ parent'[q] = p /\ \A r \in Procs \ {q} : parent'[r] = parent[r]
  BY DEF Fork, Running, Procs, Books, TypeOK
<1>2. /\ strays \subseteq strays' /\ strays' \subseteq strays \cup {q}
      /\ p \in strays \/ kill.signal = "SIGKILL" => q \in strays'
      /\ kill' = kill
  BY DEF Fork
<1>3. Kept' \subseteq Kept \cup {q} BY <1>1, <1>2 DEF Kept
<1>4. \A r \in Kept : r # q /\ r \in Forks /\ r \in Procs /\ parent'[r] = parent[r]
  BY <1>1 DEF Kept, Procs
<1>5. \A c, T : Closed(T, c)' => Closed(T, c)
  BY <1>1 DEF Closed, Procs
<1>6. \A r \in Kept : \E c \in Children \cap Running : r \in Descendants(c)
  BY DEF Tree, Found
<1>7. Found'
  <2> SUFFICES ASSUME NEW r \in Kept'
               PROVE  \E c \in Children \cap Running' : r \in Descendants(c)'
    BY DEF Found
  <2>1. r \in Forks \cap Running' BY DEF Kept
  <2>2. CASE r \in Kept
    <3>1. PICK c \in Children \cap Running : r \in Descendants(c) BY <1>6, <2>2
    <3>2. r \in Descendants(c)' BY <1>5, <2>1, <3>1 DEF Descendants
    <3> QED BY <1>1, <3>2
  <2>3. CASE r = q /\ p \in Children
    <3>1. q \in Descendants(p)' BY <1>1, <2>1, <2>3 DEF Descendants, Closed
    <3> QED BY <1>1, <2>3, <3>1
  <2>4. CASE r = q /\ p \in Forks
    <3>1. p \in Kept BY <1>1, <1>2, <2>4 DEF Kept
    <3>2. PICK c \in Children \cap Running : p \in Descendants(c) BY <1>6, <3>1
    <3>3. ASSUME NEW T \in SUBSET Forks, Closed(T, c)' PROVE q \in T
      <4>1. p \in T BY <1>5, <3>2, <3>3 DEF Descendants
      <4> QED BY <1>1, <2>1, <2>4, <3>3, <4>1 DEF Closed
    <3>4. q \in Descendants(c)' BY <2>1, <2>4, <3>3 DEF Descendants
    <3> QED BY <1>1, <2>4, <3>4
  <2> QED BY <1>3, <2>2, <2>3, <2>4 DEF Procs
<1>8. Down'
  <2> SUFFICES ASSUME NEW r \in Kept' PROVE parent'[r] \notin strays'
    BY DEF Down
  <2>1. CASE r = q BY <1>1, <1>2, <2>1 DEF Kept
  <2>2. CASE r \in Kept
    <3>1. PICK c \in Children \cap Running : r \in Descendants(c) BY <1>6, <2>2
    <3> DEFINE T == {s \in Forks \cap Running : parent[s] # q}
    <3>3. Closed(T, c) BY <1>1, TestProcAssumption DEF Closed
    <3>4. r \in T BY <3>1, <3>3 DEF Descendants
    <3> QED BY <1>2, <1>4, <2>2, <3>4 DEF Tree, Down
  <2> QED BY <1>3, <2>1, <2>2
<1>9. Caught'
  <2> SUFFICES ASSUME kill.signal = "SIGKILL" PROVE Caught' BY <1>2 DEF Caught
  <2>1. Kept' \subseteq Kept BY <1>2, <1>3 DEF Kept
  <2> QED BY <1>2, <1>4, <2>1 DEF Tree, Caught
<1> QED BY <1>7, <1>8, <1>9 DEF Tree

LEMMA ExitTree == ASSUME Books, Tree, NEW p \in Procs, Exit(p) PROVE Tree'
<1>1. Die({p}) /\ strays' = strays \cup Descendants(p) /\ kill' = kill BY DEF Exit
<1> DEFINE X == (Forks \cap {p}) \cup Descendants(p)
<1>3. X \in SUBSET Forks BY DescendantsAreForks
<1>4. \A r \in Forks \cap Running : r \in {p} \/ parent[r] \in X \cup {p} => r \in X
  BY DescendantsClosed DEF Closed
<1>5. Kept' \cap X = {} BY <1>1, DieType DEF Kept
<1> HIDE DEF X
<1>6. Down' /\ Found' /\ Kept' \subseteq Kept
  <2>1. strays' \subseteq strays \cup X BY <1>1 DEF X
  <2> QED BY <1>1, <1>3, <1>4, <1>5, <2>1, DieTree DEF Tree
<1>7. Caught'
  <2>1. \A q \in Kept' : parent'[q] = parent[q] \/ parent'[q] = None
    BY <1>1 DEF Die, Kept, Procs
  <2>2. kill.signal = "SIGKILL" => kill.child \in Children
    BY DEF Books, Killing, NoKill
  <2>3. None \notin kill.kin \cup Children BY TestProcAssumption DEF Books, TypeOK
  <2> QED BY <1>1, <1>6, <2>1, <2>2, <2>3 DEF Tree, Caught
<1> QED BY <1>6, <1>7 DEF Tree

LEMMA WalkTree == ASSUME Books, Tree, Walk PROVE Tree'
<1>1. Running' = Running /\ UNCHANGED <<parent, strays>> BY DEF Walk, system, Running
<1>2. Down' /\ Found' /\ Kept' = Kept BY <1>1, TreeUnchanged DEF Tree, Kept
<1>3. \A q \in Kept : parent[q] \in Descendants(kill.child) \cup {kill.child} => q \in Descendants(kill.child)
  BY DescendantsClosed DEF Closed, Kept
<1>4. /\ kill'.child = kill.child /\ kill'.kin = Descendants(kill.child)
      /\ kill'.at = "child" => Descendants(kill.child) = {}
  BY DEF Walk, Books, TypeOK
<1>5. Caught' BY <1>1, <1>2, <1>3, <1>4 DEF Caught
<1> QED BY <1>2, <1>5 DEF Tree

LEMMA KillKinTree == ASSUME Books, Tree, KillKin PROVE Tree'
<1>1. /\ kill.at \in {"send1", "send2"} /\ kill.kin \in SUBSET Forks
      /\ kill'.at \in {"walk2", "child"} /\ kill'.signal = kill.signal /\ kill'.child = kill.child
      /\ strays' = strays /\ strays \subseteq Forks
  BY DEF KillKin, Send, Books, TypeOK
<1>2. CASE kill.signal # "SIGKILL"
  <2>1. UNCHANGED <<proc, parent, strays>> BY <1>2 DEF KillKin, Send
  <2>2. Down' /\ Found' BY <2>1, TreeUnchanged DEF Tree, Running
  <2>3. Caught' BY <1>1, <1>2 DEF Caught
  <2> QED BY <2>2, <2>3 DEF Tree
<1>3. CASE kill.signal = "SIGKILL"
  <2>1. Die(kill.kin \cap Running) BY <1>3 DEF KillKin, Send
  <2>2. \A r \in Kept : parent[r] \notin strays
                      /\ (parent[r] \in kill.kin \cup {kill.child} => r \in kill.kin)
    BY <1>1, <1>3 DEF Tree, Down, Caught
  <2> DEFINE X == kill.kin \cup strays
  <2>4. \A r \in Forks \cap Running :
          r \in kill.kin \cap Running \/ parent[r] \in X \cup (kill.kin \cap Running) => r \in X
    BY <2>2 DEF Kept
  <2>5. Kept' \cap X = {} BY <1>1, <2>1, DieType DEF Kept
  <2>6. X \in SUBSET Forks /\ strays \subseteq strays' /\ strays' \subseteq strays \cup X BY <1>1
  <2> HIDE DEF X
  <2>7. Down' /\ Found' /\ Kept' \subseteq Kept
    BY <2>1, <2>4, <2>5, <2>6, DieTree DEF Tree
  <2>8. \A q \in Kept' : parent'[q] # kill.child
    <3>1. \A q \in Kept' : parent'[q] = parent[q] \/ parent'[q] = None
      BY <2>1 DEF Die, Kept, Procs
    <3>2. kill.child # None BY <1>1, TestProcAssumption DEF Books, Killing
    <3> QED BY <2>2, <2>5, <2>7, <3>1, <3>2 DEF X
  <2>9. Caught' BY <1>1, <2>8 DEF Caught
  <2> QED BY <2>7, <2>9 DEF Tree
<1> QED BY <1>2, <1>3

LEMMA KillChildTree == ASSUME Books, Tree, KillChild PROVE Tree'
<1>1. kill.at = "child" /\ kill.child \in Children /\ strays' = strays /\ strays \in SUBSET Forks
  BY DEF KillChild, Send, Books, Killing, TypeOK
<1>2. Caught' BY DEF KillChild, Caught, NoKill
<1>3. CASE kill.signal # "SIGKILL"
  <2>1. UNCHANGED <<proc, parent, strays>> BY <1>3 DEF KillChild, Send
  <2> QED BY <1>2, <2>1, TreeUnchanged DEF Tree, Running
<1>4. CASE kill.signal = "SIGKILL"
  <2>1. Die({kill.child} \cap Running) BY <1>4 DEF KillChild, Send
  <2>2. \A r \in Kept : parent[r] \notin strays /\ parent[r] # kill.child
    BY <1>1, <1>4 DEF Tree, Down, Caught
  <2>3. \A r \in Forks \cap Running :
          r \in {kill.child} \cap Running \/ parent[r] \in strays \cup ({kill.child} \cap Running) => r \in strays
    BY <1>1, <2>2, TestProcAssumption DEF Kept
  <2>4. Kept' \cap strays = {} BY <1>1 DEF Kept
  <2>5. Down' /\ Found' BY <1>1, <2>1, <2>3, <2>4, DieTree DEF Tree
  <2> QED BY <1>2, <2>5 DEF Tree
<1> QED BY <1>3, <1>4

LEMMA StartTree == ASSUME Books, Tree, NEW c \in Children, Start(c) PROVE Tree'
<1>1. \A p \in Procs \ {c} : proc'[p] = proc[p] BY DEF Start, Books, TypeOK
<1>2. c \notin Running BY DEF Start, Books, Timing, Running
<1>3. Forks \cap Running' = Forks \cap Running /\ Children \cap Running \subseteq Running'
  BY <1>1, <1>2, TestProcAssumption DEF Running, Procs
<1>4. Down' /\ Found' BY <1>3, TreeUnchanged DEF Start, Tree
<1>5. Caught' BY DEF Start, Idle, NoKill, Caught
<1> QED BY <1>4, <1>5 DEF Tree

(* A step of the driver that ends no process.                              *)
LEMMA DriverTree ==
  ASSUME Tree, UNCHANGED system,
         kill' = kill \/ \E c, s : KillTree(c, s)
  PROVE  Tree'
<1>1. Running' = Running /\ UNCHANGED <<parent, strays>> BY DEF system, Running
<1>2. Down' /\ Found' /\ Kept' = Kept BY <1>1, TreeUnchanged DEF Tree, Kept
<1>3. CASE kill' = kill BY <1>1, <1>2, <1>3 DEF Tree, Caught
<1>4. ASSUME NEW c, NEW s, KillTree(c, s) PROVE Caught'
  BY <1>4 DEF KillTree, Caught
<1> QED BY <1>2, <1>3, <1>4 DEF Tree

-----------------------------------------------------------------------------
LEMMA InitIInv == Init => IInv
BY InitBooks, InitTree DEF IInv

LEMMA NextIInv == ASSUME IInv, [Next]_vars PROVE IInv'
<1> USE DEF IInv
<1>1. ASSUME NEW p \in Procs, Exit(p) PROVE IInv' BY <1>1, ExitBooks, ExitTree
<1>2. ASSUME NEW p \in Procs, NEW q \in Forks, Fork(p, q) PROVE IInv'
  BY <1>2, ForkBooks, ForkTree
<1>3. CASE Walk BY <1>3, WalkBooks, WalkTree
<1>4. CASE KillKin BY <1>4, KillKinBooks, KillKinTree
<1>5. CASE KillChild BY <1>5, KillChildBooks, KillChildTree
<1>6. CASE Interrupt
  <2>1. Tree' BY <1>6, DriverTree DEF Interrupt
  <2> QED BY <1>6, <2>1, InterruptBooks
<1>7. CASE Gone
  <2>1. Tree' BY <1>7, DriverTree DEF Gone
  <2> QED BY <1>7, <2>1, GoneBooks
<1>8. ASSUME NEW c \in Children, Start(c) PROVE IInv' BY <1>8, StartBooks, StartTree
<1>9. ASSUME NEW c \in Children, OnError(c) PROVE IInv'
  <2>1. Tree' BY <1>9, DriverTree DEF OnError, Settle
  <2> QED BY <1>9, <2>1, OnErrorBooks
<1>10. ASSUME NEW c \in Children, OnExit(c) PROVE IInv'
  <2>1. Tree' BY <1>10, DriverTree DEF OnExit
  <2> QED BY <1>10, <2>1, OnExitBooks
<1>11. ASSUME NEW c \in Children, OnClose(c) PROVE IInv'
  <2>1. Tree' BY <1>11, DriverTree DEF OnClose, Settle
  <2> QED BY <1>11, <2>1, OnCloseBooks
<1>12. ASSUME NEW c \in Children, Deadline(c) PROVE IInv'
  <2>1. Tree' BY <1>12, DriverTree DEF Deadline
  <2> QED BY <1>12, <2>1, DeadlineBooks
<1>13. ASSUME NEW c \in Children, KillTimer(c) PROVE IInv'
  <2>1. Tree' BY <1>13, DriverTree DEF KillTimer
  <2> QED BY <1>13, <2>1, KillTimerBooks
<1>14. ASSUME NEW c \in Children, StopChild(c) PROVE IInv'
  <2>1. Tree' BY <1>14, DriverTree DEF StopChild
  <2> QED BY <1>14, <2>1, StopChildBooks
<1>15. ASSUME NEW c \in Children, KillNext(c) PROVE IInv'
  <2>1. Tree' BY <1>15, DriverTree DEF KillNext
  <2> QED BY <1>15, <2>1, KillNextBooks
<1>16. ASSUME NEW c \in Children, NEW t \in Timers, DrainTimer(c, t) PROVE IInv'
  <2>1. UNCHANGED system /\ (kill' = kill \/ KillTree(c, "SIGKILL"))
    BY <1>16 DEF DrainTimer, Settle
  <2>2. Tree' BY <2>1, DriverTree
  <2> QED BY <1>16, <2>2, DrainTimerBooks
<1>17. CASE UNCHANGED vars
  <2>1. Books'
    BY <1>17 DEF vars, system, timing, Books, TypeOK, Timing, Killing, Tracked, TimersCleared, Running
  <2>2. Tree' BY <1>17, DriverTree DEF vars
  <2> QED BY <2>1, <2>2
<1> QED
  BY <1>1, <1>2, <1>3, <1>4, <1>5, <1>6, <1>7, <1>8, <1>9, <1>10, <1>11, <1>12,
     <1>13, <1>14, <1>15, <1>16, <1>17 DEF Next

(* The books of the driver and the tree of the processes below its         *)
(* children are kept by every step of either.                              *)
THEOREM InductiveInvariant == Spec => []IInv
BY InitIInv, NextIInv, PTL DEF Spec

(* Every variable keeps its type, whatever the processes do.               *)
THEOREM TypeCorrect == Spec => []TypeOK
<1>1. IInv => TypeOK BY DEF IInv, Books
<1> QED BY <1>1, InductiveInvariant, PTL

(* A call leaves nothing: no child runs that is not tracked or just being  *)
(* killed, and no timer outlives its call but the overtaken drain.         *)
THEOREM CallLeavesNothingHolds == Spec => []CallLeavesNothing
<1>1. IInv => CallLeavesNothing BY DEF IInv, Books, CallLeavesNothing
<1> QED BY <1>1, InductiveInvariant, PTL

(* The safety net misses only what no walk could find: when the driver is  *)
(* gone, every process that still runs is a stray.                         *)
THEOREM OnlyStraysSurviveHolds == Spec => []OnlyStraysSurvive
<1>1. IInv => OnlyStraysSurvive
  <2> SUFFICES ASSUME IInv, driver = "gone" PROVE Running \subseteq strays
    BY DEF OnlyStraysSurvive
  <2>1. kill = NoKill BY DEF IInv, Books, Killing
  <2>2. Children \cap Running = {}
    BY <2>1, TestProcAssumption DEF IInv, Books, Tracked, NoKill
  <2>3. Kept = {} BY <2>2 DEF IInv, Tree, Found
  <2> QED BY <2>2, <2>3 DEF Kept, Running, Procs
<1> QED BY <1>1, InductiveInvariant, PTL

-----------------------------------------------------------------------------
(***************************************************************************)
(* How a call ends.  Beside the books this needs why a timer is armed and  *)
(* why killTree is at work (Paced): the kill timer and the last drain are  *)
(* armed by the deadline, the exit drain by the exit of the child, which   *)
(* stays dead.  Due is EndIsDue, for a killTree that is still at work.     *)
(***************************************************************************)
Due ==
  \A c \in Children :
    /\ c \notin Managed /\ call[c] = "open" => armed[c] \cap {"deadline", "drainLast"} # {}
    /\ call[c] = "settled" => kill.child = c /\ kill.at # "off"

Paced ==
  /\ \A c \in Children :
       /\ armed[c] \cap {"kill", "drainLast"} # {} => c \in timedOut
       /\ "drainExit" \in armed[c] => c \in exited
       /\ c \in exited => proc[c] = "dead"
  /\ driver = "up" /\ kill.at # "off" => kill.child \in Managed \cup timedOut \cup exited

Pace == Due /\ Paced

(* A dead child stays dead.                                                *)
LEMMA DeadStays ==
  ASSUME Books, [Next]_vars, NEW c \in Children, proc[c] = "dead"
  PROVE  proc'[c] = "dead"
<1> USE DEF Books, TypeOK
<1>1. ASSUME NEW p \in Procs, Exit(p) PROVE proc'[c] = "dead"
  BY <1>1 DEF Exit, Die, Procs
<1>2. ASSUME NEW p \in Procs, NEW q \in Forks, Fork(p, q) PROVE proc'[c] = "dead"
  BY <1>2, TestProcAssumption DEF Fork, Procs
<1>3. CASE KillKin BY <1>3 DEF KillKin, Send, Die, Procs
<1>4. CASE KillChild BY <1>4 DEF KillChild, Send, Die, Procs
<1>5. ASSUME NEW x \in Children, Start(x) PROVE proc'[c] = "dead"
  <2>1. x # c BY <1>5 DEF Start, Timing
  <2> QED BY <1>5, <2>1 DEF Start, Procs
<1>6. CASE proc' = proc BY <1>6
<1> QED
  BY <1>1, <1>2, <1>3, <1>4, <1>5, <1>6
  DEF Next, vars, system, Walk, Interrupt, Gone, OnError, OnExit, OnClose, Deadline, KillTimer,
      StopChild, KillNext, DrainTimer

(* A step of the processes, of a walk, or of the driver's end.             *)
LEMMA PaceKept ==
  ASSUME Books, Pace, [Next]_vars, UNCHANGED <<call, timing>>,
         kill.at # "off" => kill'.at # "off" /\ kill'.child = kill.child,
         driver' = "up" => driver = "up" /\ (kill.at = "off" => kill'.at = "off")
  PROVE  Pace'
<1>1. \A c \in Children : c \in exited => proc'[c] = "dead" BY DeadStays DEF Pace, Paced
<1>2. Due' BY DEF Pace, Due, timing
<1> QED BY <1>1, <1>2 DEF Pace, Paced, timing

LEMMA KillChildPace == ASSUME Books, Pace, KillChild PROVE Pace'
<1>1. kill.child \in Children /\ kill' = NoKill /\ kill'.at = "off"
  BY DEF KillChild, Books, Killing, NoKill
<1>2. \A c \in Children : c \in exited => proc'[c] = "dead" BY DeadStays DEF Pace, Paced, Next
<1>3. \A c \in Children : /\ call'[c] # "settled"
                          /\ call'[c] = "open" => call[c] = "open"
  BY <1>1 DEF KillChild, Books, TypeOK, Pace, Due
<1>4. Due' BY <1>3 DEF KillChild, timing, Pace, Due
<1>5. Paced' BY <1>1, <1>2 DEF KillChild, timing, Pace, Paced
<1> QED BY <1>4, <1>5 DEF Pace

LEMMA StartPace == ASSUME Books, Pace, NEW c \in Children, Start(c) PROVE Pace'
<1>1. \A x \in Children : x \in exited => proc'[x] = "dead" BY DeadStays DEF Pace, Paced, Next
<1>2. /\ armed'[c] = IF c \in Managed THEN {} ELSE {"deadline"}
      /\ call'[c] = "open"
      /\ \A x \in Children \ {c} : armed'[x] = armed[x] /\ call'[x] = call[x]
  BY DEF Start, Books, TypeOK
<1>3. kill' = kill /\ kill.at = "off" /\ UNCHANGED <<exited, timedOut>> BY DEF Start, Idle, NoKill
<1>4. Due' BY <1>2, <1>3 DEF Pace, Due
<1>5. Paced' BY <1>1, <1>2, <1>3 DEF Pace, Paced
<1> QED BY <1>4, <1>5 DEF Pace

(* A call that is settled is over, or the one its killTree is for; a sweep *)
(* comes from a timer that says why.                                       *)
LEMMA SettlePace ==
  ASSUME Books, Pace, Idle, NEW c \in Children, NEW others, others \subseteq armed[c],
         NEW sweep \in BOOLEAN, Settle(c, others, sweep),
         sweep => c \in timedOut \cup exited,
         UNCHANGED <<system, exited, drain, timedOut, driver>>
  PROVE  Pace'
<1>1. armed'[c] \subseteq armed[c] /\ \A x \in Children \ {c} : armed'[x] = armed[x]
  BY DEF Settle, Books, TypeOK
<1>2. \A x \in Children \ {c} : call'[x] = call[x] /\ call[x] # "settled"
  BY DEF Settle, Books, TypeOK, Idle, NoKill, Pace, Due
<1>3. \/ /\ call'[c] = "resolved" /\ kill' = NoKill /\ kill'.at = "off"
      \/ /\ call'[c] = "settled" /\ sweep
         /\ kill'.child = c /\ kill'.at = "walk1"
  BY DEF Settle, KillTree, Books, TypeOK, Idle, NoKill
<1>4. Due' BY <1>1, <1>2, <1>3 DEF Pace, Due
<1>5. Paced' BY <1>1, <1>3 DEF Pace, Paced, system
<1> QED BY <1>4, <1>5 DEF Pace

LEMMA OnExitPace == ASSUME Books, Pace, NEW c \in Children, OnExit(c) PROVE Pace'
<1>1. /\ armed[c] \subseteq armed'[c] /\ armed'[c] \subseteq armed[c] \cup {"drainExit"}
      /\ \A x \in Children \ {c} : armed'[x] = armed[x]
  BY DEF OnExit, Books, TypeOK
<1>2. Due' BY <1>1 DEF OnExit, Pace, Due
<1>3. Paced' BY <1>1 DEF OnExit, Pace, Paced, system
<1> QED BY <1>2, <1>3 DEF Pace

LEMMA DeadlinePace == ASSUME Books, Pace, NEW c \in Children, Deadline(c) PROVE Pace'
<1>1. /\ armed'[c] = (armed[c] \ {"deadline"}) \cup {"kill", "drainLast"}
      /\ \A x \in Children \ {c} : armed'[x] = armed[x]
  BY DEF Deadline, Books, TypeOK
<1>2. kill'.child = c /\ kill'.at = "walk1" BY DEF Deadline, KillTree
<1>3. \A x \in Children : call[x] # "settled" BY DEF Deadline, Idle, NoKill, Pace, Due
<1>4. timedOut' = timedOut \cup {c} /\ UNCHANGED <<system, call, exited, driver>> BY DEF Deadline
<1>5. Due' BY <1>1, <1>3, <1>4 DEF Pace, Due
<1>6. Paced' BY <1>1, <1>2, <1>4 DEF Pace, Paced, system
<1> QED BY <1>5, <1>6 DEF Pace

LEMMA KillTimerPace == ASSUME Books, Pace, NEW c \in Children, KillTimer(c) PROVE Pace'
<1>1. /\ armed'[c] = armed[c] \ {"kill"}
      /\ \A x \in Children \ {c} : armed'[x] = armed[x]
  BY DEF KillTimer, Books, TypeOK
<1>2. kill'.child = c /\ kill'.at = "walk1" BY DEF KillTimer, KillTree
<1>3. \A x \in Children : call[x] # "settled" BY DEF KillTimer, Idle, NoKill, Pace, Due
<1>4. Due' BY <1>1, <1>3 DEF KillTimer, Pace, Due
<1>5. c \in timedOut BY DEF KillTimer, Pace, Paced
<1>6. Paced' BY <1>1, <1>2, <1>5 DEF KillTimer, Pace, Paced, system
<1> QED BY <1>4, <1>6 DEF Pace

LEMMA DrainTimerPace ==
  ASSUME Books, Pace, NEW c \in Children, NEW t \in Timers, DrainTimer(c, t)
  PROVE  Pace'
<1>1. CASE call[c] = "open"
  <2>1. c \in timedOut \cup exited BY DEF DrainTimer, Pace, Paced
  <2> QED BY <1>1, <2>1, SettlePace DEF DrainTimer
<1>2. CASE call[c] # "open"
  <2>1. armed'[c] \subseteq armed[c] /\ \A x \in Children \ {c} : armed'[x] = armed[x]
    BY <1>2 DEF DrainTimer, Books, TypeOK
  <2>2. UNCHANGED <<system, call, exited, timedOut, kill, driver>> BY <1>2 DEF DrainTimer
  <2>3. Due' BY <1>2, <2>1, <2>2 DEF Pace, Due
  <2>4. Paced' BY <2>1, <2>2 DEF Pace, Paced, system
  <2> QED BY <2>3, <2>4 DEF Pace
<1> QED BY <1>1, <1>2

LEMMA StopChildPace == ASSUME Books, Pace, NEW c \in Children, StopChild(c) PROVE Pace'
<1>1. kill'.child = c /\ kill'.at = "walk1" BY DEF StopChild, KillTree
<1>2. \A x \in Children : call[x] # "settled" BY DEF StopChild, Idle, NoKill, Pace, Due
<1>3. call'[c] = "settled" /\ \A x \in Children \ {c} : call'[x] = call[x]
  BY DEF StopChild, Books, TypeOK
<1>4. Due' BY <1>1, <1>2, <1>3 DEF StopChild, timing, Pace, Due
<1>5. Paced' BY <1>1 DEF StopChild, Pace, Paced, system, timing
<1> QED BY <1>4, <1>5 DEF Pace

LEMMA KillNextPace == ASSUME Books, Pace, NEW c \in Children, KillNext(c) PROVE Pace'
<1>1. kill.at = "off" /\ driver' = "exiting" BY DEF KillNext, NoKill
<1> QED BY <1>1, PaceKept DEF KillNext, Next

LEMMA NextPace == ASSUME Books, Pace, [Next]_vars PROVE Pace'
<1>1. ASSUME NEW p \in Procs, NEW q \in Forks, Fork(p, q) PROVE Pace'
  BY <1>1, PaceKept DEF Fork
<1>2. ASSUME NEW p \in Procs, Exit(p) PROVE Pace' BY <1>2, PaceKept DEF Exit
<1>3. CASE Walk
  <2>1. kill.at # "off" /\ kill'.at # "off" /\ kill'.child = kill.child
    BY <1>3 DEF Walk, Books, TypeOK
  <2> QED BY <1>3, <2>1, PaceKept DEF Walk
<1>4. CASE KillKin
  <2>1. kill.at # "off" /\ kill'.at # "off" /\ kill'.child = kill.child
    BY <1>4 DEF KillKin, Books, TypeOK
  <2> QED BY <1>4, <2>1, PaceKept DEF KillKin
<1>5. CASE Interrupt BY <1>5, PaceKept DEF Interrupt
<1>6. CASE Gone BY <1>6, PaceKept DEF Gone
<1>7. CASE UNCHANGED vars BY <1>7, PaceKept DEF vars
<1>8. ASSUME NEW c \in Children, OnError(c) \/ OnClose(c) PROVE Pace'
  BY <1>8, SettlePace DEF OnError, OnClose
<1> QED
  BY <1>1, <1>2, <1>3, <1>4, <1>5, <1>6, <1>7, <1>8, KillChildPace, StartPace, OnExitPace,
     DeadlinePace, KillTimerPace, DrainTimerPace, StopChildPace, KillNextPace
  DEF Next

(* What the timers are armed for, and for whom killTree is at work.        *)
THEOREM PaceInvariant == Spec => [](Books /\ Pace)
<1>1. Init => Pace BY DEF Init, Pace, Due, Paced, NoKill
<1>2. IInv /\ Pace /\ [Next]_vars => Pace' BY NextPace DEF IInv
<1>3. IInv => Books BY DEF IInv
<1> QED BY <1>1, <1>2, <1>3, InductiveInvariant, PTL DEF Spec

(* Every open call has a timer that will end it, and every settled one its *)
(* killTree at work: what the liveness of runProc rests on.                *)
THEOREM EndIsDueHolds == Spec => []EndIsDue
<1>1. Pace => EndIsDue BY DEF Pace, Due, EndIsDue
<1> QED BY <1>1, PaceInvariant, PTL

(* While the driver is up nobody kills a child that runs and is in time.   *)
THEOREM PatientHolds == Spec => []Patient
<1>1. Books /\ Pace => Patient
  <2> SUFFICES ASSUME Books, Pace, NEW c \in (Children \ Managed) \cap Running,
                      driver = "up", kill.child = c
               PROVE  c \in timedOut
    BY DEF Patient
  <2>1. kill.at # "off" BY TestProcAssumption DEF Books, Killing, NoKill
  <2>2. c \notin exited BY DEF Pace, Paced, Running
  <2> QED BY <2>1, <2>2 DEF Pace, Paced
<1> QED BY <1>1, PaceInvariant, PTL
=============================================================================
