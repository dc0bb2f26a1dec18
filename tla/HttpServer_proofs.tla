--------------------------- MODULE HttpServer_proofs ---------------------------
(***************************************************************************)
(* Theorems about HttpServer for any finite set of connections and any     *)
(* configuration: the counters of ServeState are exact, the ceiling holds, *)
(* admission is as Admission promises, a bounded run does not overshoot,   *)
(* and what is reported when all is drained is complete.                   *)
(***************************************************************************)
EXTENDS HttpServer, FiniteSetTheorems, TLAPS

Slotted == Talking \cup {"ended", "counted"}

(***************************************************************************)
(* The strengthening.  Holding: what the loop holds, and in which mode.    *)
(* Claimed: what `live` says of the tasks while a slot is claimed.         *)
(***************************************************************************)
Holding ==
  /\ loop \in Over \cup Under \cup {"claim"} =>
       Concurrent /\ holds \in Conns /\ at[holds] = "held"
  /\ loop = "serving" => ~Concurrent
  /\ loop \in {"accept", "returned"} => holds = NoConn
  /\ \A c \in Conns : at[c] = "held" =>
       holds = c /\ loop \in Over \cup Under \cup {"claim"}
  /\ \A c \in Conns : at[c] \in {"slotFree", "counted"} => Concurrent

Claimed ==
  /\ loop \in Under => Tasks < now /\ now <= cfg.max
  /\ loop \in {"countIn", "spawn"} => now <= peak

IInv == TypeOK /\ Holding /\ SlotsAreExact /\ Claimed /\ CapHolds

-----------------------------------------------------------------------------
(* The number of running tasks is a natural number.                        *)
LEMMA TasksType ==
  ASSUME TypeOK
  PROVE  IsFiniteSet(HasSlot) /\ Cardinality(HasSlot) \in Nat /\ Tasks \in Nat
<1>1. IsFiniteSet(Conns) BY HttpServerAssumption
<1>2. HasSlot \in SUBSET Conns BY DEF HasSlot
<1>3. IsFiniteSet(HasSlot) BY <1>1, <1>2, FS_Subset
<1>4. Cardinality(HasSlot) \in Nat BY <1>3, FS_CardinalityType
<1> QED BY <1>3, <1>4 DEF Tasks

(* A step that moves no connection changes the number of tasks in no way.  *)
LEMMA TasksStay ==
  ASSUME UNCHANGED <<cfg, at>>
  PROVE  Tasks' = Tasks
BY DEF Tasks, HasSlot, Concurrent

(* ... nor does one that moves a connection within, or without, the places *)
(* that have a slot.                                                       *)
LEMMA TasksKept ==
  ASSUME TypeOK, NEW c \in Conns, NEW pc \in ConnAt, Move(c, pc), cfg' = cfg,
         at[c] \in Slotted <=> pc \in Slotted
  PROVE  Tasks' = Tasks
<1>1. HasSlot' = HasSlot
  BY DEF HasSlot, Slotted, Move, TypeOK
<1> QED BY <1>1 DEF Tasks, Concurrent

(* A connection that gets its task adds one.                               *)
LEMMA TasksGain ==
  ASSUME TypeOK, NEW c \in Conns, NEW pc \in ConnAt, Move(c, pc), cfg' = cfg, Concurrent,
         at[c] \notin Slotted, pc \in Slotted
  PROVE  Tasks' = Tasks + 1
<1>1. HasSlot' = HasSlot \cup {c} /\ c \notin HasSlot
  BY DEF HasSlot, Slotted, Move, TypeOK
<1>2. Cardinality(HasSlot') = Cardinality(HasSlot) + 1
  BY <1>1, TasksType, FS_AddElement
<1> QED BY <1>2 DEF Tasks, Concurrent

(* One whose slot is given back takes one away.                            *)
LEMMA TasksLoss ==
  ASSUME TypeOK, NEW c \in Conns, NEW pc \in ConnAt, Move(c, pc), cfg' = cfg, Concurrent,
         at[c] \in Slotted, pc \notin Slotted
  PROVE  Tasks' = Tasks - 1
<1>1. HasSlot' = HasSlot \ {c} /\ c \in HasSlot
  BY DEF HasSlot, Slotted, Move, TypeOK
<1>2. Cardinality(HasSlot') = Cardinality(HasSlot) - 1
  BY <1>1, TasksType, FS_RemoveElement
<1> QED BY <1>2 DEF Tasks, Concurrent

-----------------------------------------------------------------------------
USE DEF LoopAt, ConnAt, Talking, Over, Under

LEMMA InitIInv == ASSUME Init PROVE IInv
<1>1. HasSlot = {} BY DEF Init, HasSlot
<1>2. Tasks = 0 BY <1>1, FS_EmptySet DEF Tasks
<1>3. TypeOK BY HttpServerAssumption DEF Init, TypeOK
<1>4. cfg.max \in Nat /\ cfg.max > 0
  BY HttpServerAssumption DEF Init, Config
<1> QED BY <1>1, <1>2, <1>3, <1>4 DEF Init, IInv, Holding, SlotsAreExact, Claimed, CapHolds

(* The connection that is served, refused or read from, and the steps that *)
(* keep the number of tasks: a connection arrives, or moves on.            *)
LEMMA ConnMoves ==
  ASSUME IInv, NEW c \in Conns, NEW pc \in ConnAt \ {"held", "counted", "slotFree"}, Move(c, pc),
         at[c] # "held", at[c] \in Slotted <=> pc \in Slotted,
         answered' \in [Conns -> Nat],
         UNCHANGED <<cfg, accepting, counters>>
  PROVE  IInv'
<1>1. Tasks' = Tasks BY TasksKept DEF IInv
<1>2. TypeOK' BY DEF IInv, TypeOK, Move, accepting, counters
<1>3. Holding' BY DEF IInv, TypeOK, Holding, Move, accepting, Concurrent
<1> QED BY <1>1, <1>2, <1>3 DEF IInv, SlotsAreExact, Claimed, CapHolds, accepting, counters

LEMMA ConnectKeeps == ASSUME IInv, NEW c \in Conns, Connect(c) PROVE IInv'
BY ConnMoves DEF Connect, Slotted, IInv, TypeOK

LEMMA ReadHeadKeeps == ASSUME IInv, NEW c \in Conns, ReadHead(c) PROVE IInv'
BY ConnMoves DEF ReadHead, Slotted, IInv, TypeOK

LEMMA ReplyKeeps == ASSUME IInv, NEW c \in Conns, Reply(c) PROVE IInv'
BY ConnMoves DEF Reply, Slotted, IInv, TypeOK

LEMMA ExchangeKeeps == ASSUME IInv, NEW c \in Conns, Exchange(c) PROVE IInv'
<1>1. answered' \in [Conns -> Nat] BY DEF Exchange, IInv, TypeOK
<1> QED BY <1>1, ConnMoves DEF Exchange, Slotted

LEMMA WriteKeeps == ASSUME IInv, NEW c \in Conns, Write(c) PROVE IInv'
<1>1. PICK pc \in {"ended", "head"} : Move(c, pc) BY DEF Write
<1> QED BY <1>1, ConnMoves DEF Write, Slotted, IInv, TypeOK

LEMMA CloseKeeps == ASSUME IInv, NEW c \in Conns, Close(c) PROVE IInv'
BY ConnMoves DEF Close, Slotted, IInv, TypeOK

-----------------------------------------------------------------------------
(* The accept loop.  serveConcurrent holds a connection without a task,    *)
(* serve counts no tasks at all.                                           *)
LEMMA AcceptKeeps == ASSUME IInv, NEW c \in Conns, Accept(c) PROVE IInv'
<1>1. CASE Concurrent
  <2>1. Move(c, "held") /\ loop' = "claim" /\ holds' = c
    BY <1>1 DEF Accept
  <2>2. Tasks' = Tasks BY <2>1, TasksKept DEF Accept, Slotted, IInv
  <2>3. TypeOK' BY <1>1, <2>1 DEF Accept, IInv, TypeOK, Move, counters
  <2>4. Holding' BY <1>1, <2>1 DEF Accept, IInv, TypeOK, Holding, Move, Concurrent
  <2> QED BY <2>1, <2>2, <2>3, <2>4
        DEF Accept, IInv, SlotsAreExact, Claimed, CapHolds, counters
<1>2. CASE ~Concurrent
  <2>1. Move(c, "head") /\ loop' = "serving" /\ holds' = c /\ handled' = handled
    BY <1>2 DEF Accept
  <2>2. Tasks = 0 /\ Tasks' = 0 BY <1>2 DEF Tasks, Concurrent, Accept
  <2>3. TypeOK' BY <1>2, <2>1 DEF Accept, IInv, TypeOK, Move, counters
  <2>4. Holding' BY <1>2, <2>1 DEF Accept, IInv, TypeOK, Holding, Move, Concurrent
  <2> QED BY <2>1, <2>2, <2>3, <2>4
        DEF Accept, IInv, SlotsAreExact, Claimed, CapHolds, counters
<1> QED BY <1>1, <1>2

(* A step of the loop that moves no connection and enters or leaves no     *)
(* place that holds one.                                                   *)
LEMMA HoldingStays ==
  ASSUME IInv, loop \in Over \cup Under \cup {"claim"}, loop' \in Over \cup Under,
         UNCHANGED <<cfg, holds, at>>
  PROVE  Holding'
BY DEF IInv, Holding, Concurrent

LEMMA ReturnKeeps == ASSUME IInv, Return PROVE IInv'
<1>1. Tasks' = Tasks BY TasksStay DEF Return
<1>2. TypeOK' BY DEF Return, IInv, TypeOK, counters
<1>3. Holding' BY DEF Return, IInv, Holding, Concurrent
<1> QED BY <1>1, <1>2, <1>3 DEF Return, IInv, SlotsAreExact, Claimed, CapHolds, counters

(* The claim is the step the ceiling rests on: what the increment returned *)
(* is one more than the tasks there are.                                   *)
LEMMA ClaimKeeps == ASSUME IInv, Claim PROVE IInv'
<1>1. Tasks' = Tasks BY TasksStay DEF Claim
<1>2. TypeOK' BY DEF Claim, IInv, TypeOK
<1>3. Holding' BY HoldingStays DEF Claim
<1>4. inFlight = Tasks BY TasksType DEF Claim, IInv, SlotsAreExact
<1>5. Tasks \in Nat /\ cfg.max \in Nat
  BY TasksType, HttpServerAssumption DEF IInv, TypeOK, Config
<1> QED BY <1>1, <1>2, <1>3, <1>4, <1>5 DEF Claim, IInv, SlotsAreExact, Claimed, CapHolds

LEMMA GiveBackKeeps == ASSUME IInv, GiveBack PROVE IInv'
<1>1. Tasks' = Tasks BY TasksStay DEF GiveBack
<1>2. inFlight = Tasks + 1 /\ Tasks \in Nat
  BY TasksType DEF GiveBack, IInv, SlotsAreExact
<1>3. TypeOK' BY <1>2 DEF GiveBack, IInv, TypeOK
<1>4. Holding' BY HoldingStays DEF GiveBack
<1> QED BY <1>1, <1>2, <1>3, <1>4 DEF GiveBack, IInv, SlotsAreExact, Claimed, CapHolds

LEMMA RejectKeeps == ASSUME IInv, Reject PROVE IInv'
<1>1. Tasks' = Tasks BY TasksStay DEF Reject
<1>2. TypeOK' BY DEF Reject, IInv, TypeOK
<1>3. Holding' BY HoldingStays DEF Reject
<1> QED BY <1>1, <1>2, <1>3 DEF Reject, IInv, SlotsAreExact, Claimed, CapHolds

LEMMA RaisePeakKeeps == ASSUME IInv, RaisePeak PROVE IInv'
<1>1. Tasks' = Tasks BY TasksStay DEF RaisePeak
<1>2. TypeOK' BY DEF RaisePeak, IInv, TypeOK
<1>3. Holding' BY HoldingStays DEF RaisePeak
<1>4. Tasks \in Nat /\ now \in Nat /\ peak \in Nat BY TasksType DEF IInv, TypeOK
<1> QED BY <1>1, <1>2, <1>3, <1>4 DEF RaisePeak, IInv, SlotsAreExact, Claimed, CapHolds

LEMMA CountInKeeps == ASSUME IInv, CountIn PROVE IInv'
<1>1. Tasks' = Tasks BY TasksStay DEF CountIn
<1>2. TypeOK' BY DEF CountIn, IInv, TypeOK
<1>3. Holding' BY HoldingStays DEF CountIn
<1> QED BY <1>1, <1>2, <1>3 DEF CountIn, IInv, SlotsAreExact, Claimed, CapHolds

LEMMA RefuseKeeps == ASSUME IInv, Refuse PROVE IInv'
<1>1. Concurrent /\ holds \in Conns /\ at[holds] = "held" BY DEF Refuse, IInv, Holding
<1>2. Tasks' = Tasks BY <1>1, TasksKept DEF Refuse, Slotted, IInv
<1>3. TypeOK' BY <1>1 DEF Refuse, IInv, TypeOK, Move, counters
<1>4. Holding' BY <1>1 DEF Refuse, IInv, TypeOK, Holding, Move, Concurrent
<1> QED BY <1>2, <1>3, <1>4 DEF Refuse, IInv, SlotsAreExact, Claimed, CapHolds, counters

(* The new task is the one the peak has already counted.                   *)
LEMMA SpawnTaskKeeps == ASSUME IInv, SpawnTask PROVE IInv'
<1>1. Concurrent /\ holds \in Conns /\ at[holds] = "held" BY DEF SpawnTask, IInv, Holding
<1>2. Tasks' = Tasks + 1 BY <1>1, TasksGain DEF SpawnTask, Slotted, IInv
<1>3. TypeOK' BY <1>1 DEF SpawnTask, IInv, TypeOK, Move, counters
<1>4. Holding' BY <1>1 DEF SpawnTask, IInv, TypeOK, Holding, Move, Concurrent
<1>5. Tasks + 1 <= peak /\ inFlight = Tasks + 1
  BY TasksType DEF SpawnTask, IInv, TypeOK, Claimed, SlotsAreExact
<1> QED BY <1>2, <1>3, <1>4, <1>5
      DEF SpawnTask, IInv, SlotsAreExact, Claimed, CapHolds, counters

-----------------------------------------------------------------------------
LEMMA ServeNextKeeps == ASSUME IInv, NEW c \in Conns, ServeNext(c) PROVE IInv'
<1>1. ~Concurrent BY DEF ServeNext, IInv, Holding
<1>2. Tasks = 0 /\ Tasks' = 0 BY <1>1 DEF Tasks, Concurrent, ServeNext
<1>3. TypeOK' BY DEF ServeNext, IInv, TypeOK, Move
<1>4. Holding' BY <1>1 DEF ServeNext, IInv, TypeOK, Holding, Move, Concurrent
<1> QED BY <1>2, <1>3, <1>4 DEF ServeNext, IInv, SlotsAreExact, Claimed, CapHolds

(* The last thing a task does with the counters takes one from both sides. *)
LEMMA GiveSlotKeeps == ASSUME IInv, NEW c \in Conns, GiveSlot(c) PROVE IInv'
<1>1. CASE at[c] = "ended"
  <2>1. Move(c, "counted") /\ inFlight' = inFlight /\ served' = served + answered[c]
    BY <1>1 DEF GiveSlot
  <2>2. Tasks' = Tasks BY <1>1, <2>1, TasksKept DEF GiveSlot, Slotted, IInv
  <2>3. TypeOK' BY <2>1 DEF GiveSlot, IInv, TypeOK, Move, accepting
  <2>4. Holding' BY <1>1, <2>1 DEF GiveSlot, IInv, TypeOK, Holding, Move, Concurrent, accepting
  <2> QED BY <2>1, <2>2, <2>3, <2>4
        DEF GiveSlot, IInv, SlotsAreExact, Claimed, CapHolds, accepting
<1>2. CASE at[c] = "counted"
  <2>1. Move(c, "slotFree") /\ inFlight' = inFlight - 1 /\ served' = served
    BY <1>2 DEF GiveSlot
  <2>2. Tasks' = Tasks - 1 BY <1>2, <2>1, TasksLoss DEF GiveSlot, Slotted, IInv
  <2>3. Tasks \in Nat /\ Tasks' \in Nat
    <3>1. HasSlot' = HasSlot \ {c} /\ IsFiniteSet(HasSlot)
      BY <1>2, <2>1, TasksType DEF HasSlot, Move, IInv, TypeOK
    <3>2. Cardinality(HasSlot') \in Nat BY <3>1, FS_RemoveElement, FS_CardinalityType
    <3> QED BY <3>2, TasksType DEF Tasks, IInv
  <2>4. inFlight' \in Nat BY <2>1, <2>2, <2>3 DEF IInv, SlotsAreExact
  <2>5. TypeOK' BY <2>1, <2>4 DEF GiveSlot, IInv, TypeOK, Move, accepting
  <2>6. Holding' BY <1>2, <2>1 DEF GiveSlot, IInv, TypeOK, Holding, Move, Concurrent, accepting
  <2>7. Tasks' < Tasks /\ inFlight \in Nat BY <2>2, <2>3 DEF IInv, TypeOK
  <2> QED BY <2>1, <2>2, <2>3, <2>5, <2>6, <2>7
        DEF GiveSlot, IInv, TypeOK, SlotsAreExact, Claimed, CapHolds, accepting, Config
<1> QED BY <1>1, <1>2 DEF GiveSlot

LEMMA StutterKeeps == ASSUME IInv, UNCHANGED vars PROVE IInv'
<1>1. Tasks' = Tasks BY TasksStay DEF vars
<1>2. TypeOK' BY DEF vars, IInv, TypeOK
<1>3. Holding' BY DEF vars, IInv, Holding, Concurrent
<1> QED BY <1>1, <1>2, <1>3 DEF vars, IInv, SlotsAreExact, Claimed, CapHolds

(* Every step keeps the strengthening.                                     *)
LEMMA StepKeeps == ASSUME IInv, [Next]_vars PROVE IInv'
<1>1. CASE \E c \in Conns : Connect(c) BY <1>1, ConnectKeeps
<1>2. CASE \E c \in Conns : ConnStep(c)
  BY <1>2, ReadHeadKeeps, ReplyKeeps, ExchangeKeeps, WriteKeeps, GiveSlotKeeps, CloseKeeps
  DEF ConnStep
<1>3. CASE \E c \in Conns : Accept(c) \/ ServeNext(c)
  BY <1>3, AcceptKeeps, ServeNextKeeps
<1>4. CASE Claim \/ GiveBack \/ Reject \/ Refuse
  BY <1>4, ClaimKeeps, GiveBackKeeps, RejectKeeps, RefuseKeeps
<1>5. CASE RaisePeak \/ CountIn \/ SpawnTask
  BY <1>5, RaisePeakKeeps, CountInKeeps, SpawnTaskKeeps
<1>6. CASE Return BY <1>6, ReturnKeeps
<1>7. CASE UNCHANGED vars BY <1>7, StutterKeeps
<1> QED BY <1>1, <1>2, <1>3, <1>4, <1>5, <1>6, <1>7 DEF Next, LoopStep

-----------------------------------------------------------------------------
(***************************************************************************)
(* The second strengthening, on top of the first: the books the server     *)
(* keeps of requests and connections.  Alone: serve talks to the           *)
(* connection it holds and no other.  Budget: how many requests a          *)
(* connection has had answered, by where it is, against the limit it was   *)
(* given.  Totals: what the counters have added up.                        *)
(***************************************************************************)
Counted == {c \in Conns : at[c] \in {"counted", "slotFree", "closed"}}
Taken == {c \in Conns : at[c] \notin {"new", "backlog"}}
Undecided == IF loop \in {"claim", "giveBack", "reject", "raisePeak", "countIn"} THEN 1 ELSE 0

Alone ==
  \A c \in Conns : ~Concurrent /\ at[c] \in Talking \cup {"ended"} =>
    loop = "serving" /\ holds = c

Budget ==
  /\ \A c \in Conns :
       /\ answered[c] <= cfg.limit
       /\ at[c] \in {"new", "backlog", "held"} => answered[c] = 0
       /\ at[c] \in {"head", "exchange", "keep"} => answered[c] < Limit
       /\ at[c] \in {"last", "reply", "ended"} => answered[c] <= Limit
  /\ cfg.n > 0 => IF Concurrent THEN handled <= cfg.n ELSE served <= cfg.n

Totals ==
  /\ served = Cardinality(RequestsOf(Counted))
  /\ Concurrent => accepted + rejected + Undecided = Cardinality(Taken)

Books == Alone /\ Budget /\ Totals

LEMMA NumbersType ==
  ASSUME TypeOK
  PROVE  /\ cfg.n \in Nat /\ cfg.limit \in Nat /\ cfg.limit > 0 /\ Limit \in Int
         /\ \A c \in Conns : answered[c] \in Nat
BY HttpServerAssumption DEF TypeOK, Config, Limit

(* The requests of some connections are finitely many.                     *)
LEMMA RequestsFinite ==
  ASSUME TypeOK, Budget, NEW S \in SUBSET Conns
  PROVE  IsFiniteSet(RequestsOf(S)) /\ Cardinality(RequestsOf(S)) \in Nat
<1>1. IsFiniteSet(Conns \X (1..cfg.limit))
  <2>1. cfg.limit \in Int /\ 1 \in Int BY NumbersType
  <2> QED BY <2>1, HttpServerAssumption, FS_Interval, FS_Product
<1>2. RequestsOf(S) \in SUBSET (Conns \X (1..cfg.limit))
  <2> SUFFICES ASSUME NEW r \in RequestsOf(S) PROVE r \in Conns \X (1..cfg.limit)
    OBVIOUS
  <2>1. PICK c \in S : r \in {c} \X (1..answered[c]) BY DEF RequestsOf
  <2>2. c \in Conns /\ answered[c] <= cfg.limit /\ answered[c] \in Nat /\ cfg.limit \in Nat
    BY NumbersType DEF Budget
  <2> QED BY <2>1, <2>2
<1>3. IsFiniteSet(RequestsOf(S)) BY <1>1, <1>2, FS_Subset
<1> QED BY <1>3, FS_CardinalityType

(* One more connection adds as many as it has had answered.                *)
LEMMA RequestsJoin ==
  ASSUME TypeOK, Budget, NEW S \in SUBSET Conns, NEW c \in Conns, c \notin S
  PROVE  Cardinality(RequestsOf(S \cup {c})) = Cardinality(RequestsOf(S)) + answered[c]
<1> DEFINE own == {c} \X (1..answered[c])
<1>1. answered[c] \in Nat BY NumbersType
<1>2. IsFiniteSet(1..answered[c]) /\ Cardinality(1..answered[c]) = answered[c]
  BY <1>1, FS_Interval
<1>3. IsFiniteSet({c}) /\ Cardinality({c}) = 1 BY FS_Singleton
<1>4. IsFiniteSet(own) /\ Cardinality(own) = answered[c]
  <2>1. IsFiniteSet(own) /\ Cardinality(own) = Cardinality({c}) * Cardinality(1..answered[c])
    BY <1>2, <1>3, FS_Product
  <2> QED BY <1>1, <1>2, <1>3, <2>1
<1>5. IsFiniteSet(RequestsOf(S)) /\ Cardinality(RequestsOf(S)) \in Nat BY RequestsFinite
<1>6. RequestsOf(S \cup {c}) = RequestsOf(S) \cup own BY DEF RequestsOf
<1>7. RequestsOf(S) \cap own = {} BY DEF RequestsOf
<1> HIDE DEF own
<1>8. Cardinality(RequestsOf(S) \cup own) =
        Cardinality(RequestsOf(S)) + Cardinality(own) - Cardinality({})
  BY <1>4, <1>5, <1>7, FS_Union
<1>9. Cardinality({}) = 0 BY FS_EmptySet
<1>10. Cardinality(RequestsOf(S \cup {c})) = Cardinality(RequestsOf(S) \cup own) BY <1>6
<1> QED BY <1>1, <1>4, <1>5, <1>8, <1>9, <1>10

(* Connections that had nothing answered add nothing.                      *)
LEMMA RequestsElsewhere ==
  ASSUME NEW S \in SUBSET Conns, \A c \in Conns \ S : answered[c] = 0
  PROVE  RequestsOf(Conns) = RequestsOf(S)
<1>1. RequestsOf(S) \subseteq RequestsOf(Conns) BY DEF RequestsOf
<1>2. ASSUME NEW r \in RequestsOf(Conns) PROVE r \in RequestsOf(S)
  <2>1. PICK c \in Conns : r \in {c} \X (1..answered[c]) BY <1>2 DEF RequestsOf
  <2>2. answered[c] # 0 BY <2>1
  <2>3. c \in S BY <2>2
  <2> QED BY <2>1, <2>3 DEF RequestsOf
<1> QED BY <1>1, <1>2

(* The sum does not change while the counted connections are the same and  *)
(* none of them is answered any more.                                      *)
LEMMA SumStays ==
  ASSUME Counted' = Counted, \A c \in Counted : answered'[c] = answered[c]
  PROVE  RequestsOf(Counted)' = RequestsOf(Counted)
BY DEF RequestsOf

(* The sum when one connection joins the counted ones.                     *)
LEMMA SumJoin ==
  ASSUME TypeOK, Budget, NEW c \in Conns, NEW pc \in {"counted", "closed"}, Move(c, pc),
         c \notin Counted, answered' = answered
  PROVE  Cardinality(RequestsOf(Counted)') = Cardinality(RequestsOf(Counted)) + answered[c]
<1>1. Counted' = Counted \cup {c} BY DEF Counted, Move, TypeOK
<1>2. RequestsOf(Counted)' = RequestsOf(Counted \cup {c}) BY <1>1 DEF RequestsOf
<1> QED BY <1>2, RequestsJoin DEF Counted

LEMMA TakenFinite ==
  ASSUME TRUE
  PROVE  IsFiniteSet(Taken) /\ Cardinality(Taken) \in Nat
<1>1. Taken \in SUBSET Conns BY DEF Taken
<1> QED BY <1>1, HttpServerAssumption, FS_Subset, FS_CardinalityType

LEMMA InitBooks == ASSUME Init PROVE Books
<1>1. Counted = {} /\ Taken = {} BY DEF Init, Counted, Taken
<1>2. RequestsOf(Counted) = {} BY <1>1 DEF RequestsOf
<1>3. Totals BY <1>1, <1>2, FS_EmptySet DEF Init, Totals, Undecided
<1>4. Alone BY DEF Init, Alone
<1>5. cfg.n \in Nat /\ cfg.limit \in Nat BY HttpServerAssumption DEF Init, Config
<1>6. Budget BY <1>5 DEF Init, Budget
<1> QED BY <1>3, <1>4, <1>6 DEF Books

(* A connection moves on within its conversation, or arrives, or closes:   *)
(* no counter moves.  What is left to show is its own budget.              *)
LEMMA ConnBooks ==
  ASSUME IInv, Books, NEW c \in Conns, NEW pc \in ConnAt, Move(c, pc),
         UNCHANGED <<cfg, accepting, counters>>,
         \/ at[c] = "new" /\ pc = "backlog"
         \/ at[c] \in Talking /\ pc \in Talking \cup {"ended"}
         \/ at[c] = "slotFree" /\ pc = "closed",
         \A d \in Conns : answered'[d] = answered[d] \/ (d = c /\ at[c] \in Talking),
         answered'[c] <= cfg.limit,
         pc = "backlog" => answered'[c] = 0,
         pc \in {"head", "exchange", "keep"} => answered'[c] < Limit,
         pc \in {"last", "reply", "ended"} => answered'[c] <= Limit
  PROVE  Books'
<1>1. at' = [at EXCEPT ![c] = pc] /\ at \in [Conns -> ConnAt]
  BY DEF Move, IInv, TypeOK
<1>2. Limit' = Limit /\ Concurrent' = Concurrent BY DEF Limit, Concurrent, counters
<1>3. Alone' BY <1>1, <1>2 DEF Books, Alone, accepting
<1>4. Budget' BY <1>1, <1>2 DEF Books, Budget, accepting, counters
<1>5. Counted' = Counted /\ Taken' = Taken BY <1>1 DEF Counted, Taken
<1>6. RequestsOf(Counted)' = RequestsOf(Counted)
  BY <1>1, <1>5, SumStays DEF Counted
<1>7. Totals' BY <1>2, <1>5, <1>6 DEF Books, Totals, Undecided, accepting, counters
<1> QED BY <1>3, <1>4, <1>7 DEF Books

(* The four moves that answer nothing.                                     *)
LEMMA QuietBooks ==
  ASSUME IInv, Books, NEW c \in Conns, Connect(c) \/ ReadHead(c) \/ Reply(c) \/ Write(c) \/ Close(c)
  PROVE  Books'
<1>1. answered' = answered /\ UNCHANGED <<cfg, accepting, counters>>
  BY DEF Connect, ReadHead, Reply, Write, Close
<1>2. Limit \in Int /\ answered[c] \in Nat BY NumbersType DEF IInv
<1>3. answered[c] <= cfg.limit BY DEF Books, Budget
<1>4. PICK pc \in ConnAt :
        /\ Move(c, pc)
        /\ \/ at[c] = "new" /\ pc = "backlog"
           \/ at[c] \in {"head", "keep"} /\ pc \in {"head", "exchange", "reply", "ended"}
           \/ at[c] \in {"reply", "last"} /\ pc = "ended"
           \/ at[c] = "slotFree" /\ pc = "closed"
  BY DEF Connect, ReadHead, Reply, Write, Close
<1>5. /\ pc = "backlog" => answered[c] = 0
      /\ pc \in {"head", "exchange", "keep"} => answered[c] < Limit
      /\ pc \in {"last", "reply", "ended"} => answered[c] <= Limit
  BY <1>2, <1>4 DEF Books, Budget
<1>6. \/ at[c] = "new" /\ pc = "backlog"
      \/ at[c] \in Talking /\ pc \in Talking \cup {"ended"}
      \/ at[c] = "slotFree" /\ pc = "closed"
  BY <1>4
<1>7. /\ answered'[c] <= cfg.limit
      /\ pc = "backlog" => answered'[c] = 0
      /\ pc \in {"head", "exchange", "keep"} => answered'[c] < Limit
      /\ pc \in {"last", "reply", "ended"} => answered'[c] <= Limit
  BY <1>1, <1>3, <1>5
<1>8. \A d \in Conns : answered'[d] = answered[d] \/ (d = c /\ at[c] \in Talking)
  BY <1>1
<1>9. Move(c, pc) BY <1>4
<1> QED BY <1>1, <1>6, <1>7, <1>8, <1>9, ConnBooks

(* One more request is answered, and the limit has one more.               *)
LEMMA ExchangeBooks == ASSUME IInv, Books, NEW c \in Conns, Exchange(c) PROVE Books'
<1>1. answered[c] \in Nat /\ cfg.limit \in Nat /\ Limit \in Int /\ Limit <= cfg.limit
  BY NumbersType DEF IInv, TypeOK, Limit
<1>2. answered[c] < Limit BY DEF Exchange, Books, Budget
<1>3. /\ answered'[c] = answered[c] + 1 /\ UNCHANGED <<cfg, accepting, counters>>
      /\ at[c] \in Talking
      /\ \A d \in Conns : answered'[d] = answered[d] \/ (d = c /\ at[c] \in Talking)
  BY DEF Exchange, IInv, TypeOK
<1>4. answered'[c] <= Limit /\ answered'[c] <= cfg.limit BY <1>1, <1>2, <1>3
<1>5. CASE Move(c, "last") BY <1>3, <1>4, <1>5, ConnBooks
<1>6. CASE answered[c] + 1 < Limit /\ Move(c, "keep")
  <2>1. answered'[c] < Limit BY <1>3, <1>6
  <2> QED BY <1>3, <1>4, <1>6, <2>1, ConnBooks
<1> QED BY <1>5, <1>6 DEF Exchange

-----------------------------------------------------------------------------
(* A step of the loop that moves no connection: what it adds to one        *)
(* counter it takes from the connection that was still to be decided on.   *)
LEMMA LoopBooks ==
  ASSUME IInv, Books, UNCHANGED <<cfg, holds, handled, at, answered, served>>,
         loop # "serving",
         accepted' + rejected' + Undecided' = accepted + rejected + Undecided
  PROVE  Books'
<1>1. Limit' = Limit /\ Concurrent' = Concurrent BY DEF Limit, Concurrent
<1>2. Alone' BY <1>1 DEF Books, Alone
<1>3. Budget' BY <1>1 DEF Books, Budget
<1>4. Counted' = Counted /\ Taken' = Taken BY DEF Counted, Taken
<1>5. RequestsOf(Counted)' = RequestsOf(Counted) BY <1>4, SumStays DEF Counted
<1>6. Totals' BY <1>1, <1>4, <1>5 DEF Books, Totals
<1> QED BY <1>2, <1>3, <1>6 DEF Books

LEMMA DecisionBooks ==
  ASSUME IInv, Books, Claim \/ GiveBack \/ Reject \/ RaisePeak \/ CountIn \/ Return
  PROVE  Books'
<1>1. accepted \in Nat /\ rejected \in Nat BY DEF IInv, TypeOK
<1>2. UNCHANGED <<cfg, holds, handled, at, answered, served>> /\ loop # "serving"
  BY DEF Claim, GiveBack, Reject, RaisePeak, CountIn, Return, counters
<1>3. CASE Claim \/ GiveBack \/ RaisePeak \/ Return
  <2>1. UNCHANGED <<accepted, rejected>> /\ Undecided' = Undecided
    BY <1>3 DEF Claim, GiveBack, RaisePeak, Return, Undecided, counters
  <2> QED BY <1>2, <2>1, LoopBooks
<1>4. CASE Reject
  <2>1. rejected' = rejected + 1 /\ accepted' = accepted /\ Undecided = 1 /\ Undecided' = 0
    BY <1>4 DEF Reject, Undecided
  <2>2. accepted' + rejected' + Undecided' = accepted + rejected + Undecided
    BY <1>1, <2>1
  <2> QED BY <1>2, <2>2, LoopBooks
<1>5. CASE CountIn
  <2>1. accepted' = accepted + 1 /\ rejected' = rejected /\ Undecided = 1 /\ Undecided' = 0
    BY <1>5 DEF CountIn, Undecided
  <2>2. accepted' + rejected' + Undecided' = accepted + rejected + Undecided
    BY <1>1, <2>1
  <2> QED BY <1>2, <2>2, LoopBooks
<1> QED BY <1>3, <1>4, <1>5

(* A connection is taken from the backlog: serve has part of its n left,   *)
(* so the limit it will pass on is above 0.                                *)
LEMMA AcceptBooks == ASSUME IInv, Books, NEW c \in Conns, Accept(c) PROVE Books'
<1>1. cfg.n \in Nat /\ cfg.limit \in Nat /\ cfg.limit > 0 /\ served \in Nat /\ handled \in Nat
  BY NumbersType DEF IInv, TypeOK
<1>2. /\ Limit' = Limit /\ Concurrent' = Concurrent
      /\ UNCHANGED <<cfg, answered, served, accepted, rejected>>
  BY DEF Accept, Limit, Concurrent, counters
<1>3. PICK pc \in {"held", "head"} : Move(c, pc) /\ (pc = "held" <=> Concurrent)
  BY DEF Accept
<1>4. at' = [at EXCEPT ![c] = pc] /\ at \in [Conns -> ConnAt] /\ at[c] = "backlog"
  BY <1>3 DEF Move, Accept, IInv, TypeOK
<1>5. Alone' BY <1>2, <1>3, <1>4 DEF Accept, Books, Alone
<1>6. ~Concurrent => 0 < Limit BY <1>1 DEF Accept, Continues, Limit
<1>7. Budget'
  <2>1. \A d \in Conns :
          /\ answered[d] <= cfg.limit
          /\ at'[d] \in {"new", "backlog", "held"} => answered[d] = 0
          /\ at'[d] \in {"head", "exchange", "keep"} => answered[d] < Limit
          /\ at'[d] \in {"last", "reply", "ended"} => answered[d] <= Limit
    BY <1>3, <1>4, <1>6 DEF Books, Budget
  <2>2. cfg.n > 0 => IF Concurrent THEN handled' <= cfg.n ELSE served <= cfg.n
    BY <1>1 DEF Accept, Continues, Books, Budget
  <2> QED BY <1>2, <2>1, <2>2 DEF Budget
<1>8. Counted' = Counted /\ Taken' = Taken \cup {c} /\ c \notin Taken
  BY <1>4 DEF Counted, Taken
<1>9. RequestsOf(Counted)' = RequestsOf(Counted) BY <1>2, <1>8, SumStays
<1>10. Cardinality(Taken') = Cardinality(Taken) + 1
  BY <1>8, TakenFinite, FS_AddElement
<1>11. Concurrent => Undecided = 0 /\ Undecided' = 1 BY DEF Accept, Undecided
<1>12. accepted \in Nat /\ rejected \in Nat BY DEF IInv, TypeOK
<1>13. Totals' BY <1>2, <1>9, <1>10, <1>11, <1>12 DEF Books, Totals
<1> QED BY <1>5, <1>7, <1>13 DEF Books

(* A refused connection had nothing answered.                              *)
LEMMA RefuseBooks == ASSUME IInv, Books, Refuse PROVE Books'
<1>1. Concurrent /\ holds \in Conns /\ at[holds] = "held" BY DEF Refuse, IInv, Holding
<1>2. /\ Limit' = Limit /\ Concurrent' = Concurrent
      /\ UNCHANGED <<cfg, handled, answered, served, accepted, rejected>>
  BY DEF Refuse, Limit, Concurrent, counters
<1>3. at' = [at EXCEPT ![holds] = "closed"] /\ at \in [Conns -> ConnAt]
  BY DEF Refuse, Move, IInv, TypeOK
<1>4. Alone' BY <1>1, <1>2 DEF Alone
<1>5. Budget' BY <1>1, <1>2, <1>3 DEF Books, Budget
<1>6. answered[holds] = 0 /\ holds \notin Counted BY <1>1 DEF Books, Budget, Counted
<1>7. Cardinality(RequestsOf(Counted)') = Cardinality(RequestsOf(Counted)) + answered[holds]
  BY <1>1, <1>2, <1>6, SumJoin DEF Refuse, IInv, Books
<1>8. Taken' = Taken BY <1>1, <1>3 DEF Taken
<1>9. Undecided = 0 /\ Undecided' = 0 BY DEF Refuse, Undecided
<1>10. served \in Nat BY DEF IInv, TypeOK
<1>11. served' = Cardinality(RequestsOf(Counted)')
  BY <1>2, <1>6, <1>7, <1>10 DEF Books, Totals
<1>12. Totals' BY <1>2, <1>8, <1>9, <1>11 DEF Books, Totals
<1> QED BY <1>4, <1>5, <1>12 DEF Books

LEMMA SpawnTaskBooks == ASSUME IInv, Books, SpawnTask PROVE Books'
<1>1. Concurrent /\ holds \in Conns /\ at[holds] = "held" BY DEF SpawnTask, IInv, Holding
<1>2. /\ Limit' = Limit /\ Concurrent' = Concurrent
      /\ UNCHANGED <<cfg, handled, answered, served, accepted, rejected>>
  BY DEF SpawnTask, Limit, Concurrent, counters
<1>3. at' = [at EXCEPT ![holds] = "head"] /\ at \in [Conns -> ConnAt]
  BY DEF SpawnTask, Move, IInv, TypeOK
<1>4. Alone' BY <1>1, <1>2 DEF Alone
<1>5. 0 < Limit BY <1>1, NumbersType DEF Limit, IInv
<1>6. Budget' BY <1>1, <1>2, <1>3, <1>5 DEF Books, Budget
<1>7. Counted' = Counted /\ Taken' = Taken BY <1>1, <1>3 DEF Counted, Taken
<1>8. RequestsOf(Counted)' = RequestsOf(Counted) BY <1>2, <1>7, SumStays
<1>9. Undecided' = Undecided BY DEF SpawnTask, Undecided
<1>10. Totals' BY <1>2, <1>7, <1>8, <1>9 DEF Books, Totals
<1> QED BY <1>4, <1>6, <1>10 DEF Books

(* serve adds what its one connection had answered, which is within what   *)
(* was left of its n.                                                      *)
LEMMA ServeNextBooks == ASSUME IInv, Books, NEW c \in Conns, ServeNext(c) PROVE Books'
<1>1. ~Concurrent /\ Concurrent' = Concurrent /\ UNCHANGED <<cfg, answered>>
  BY DEF ServeNext, IInv, Holding, Concurrent
<1>2. at' = [at EXCEPT ![c] = "closed"] /\ at \in [Conns -> ConnAt] /\ at[c] = "ended"
  BY DEF ServeNext, Move, IInv, TypeOK
<1>3. \A d \in Conns : at'[d] \notin Talking \cup {"ended"}
  BY <1>1, <1>2 DEF ServeNext, Books, Alone
<1>4. Alone' BY <1>3 DEF Alone
<1>5. served' = served + answered[c] /\ served \in Nat /\ answered[c] \in Nat
  BY NumbersType DEF ServeNext, IInv, TypeOK
<1>6. answered[c] <= Limit BY <1>2 DEF Books, Budget
<1>7. cfg.n > 0 => served' <= cfg.n
  BY <1>1, <1>5, <1>6, NumbersType DEF Limit, IInv, Books, Budget
<1>8. Budget'
  <2>1. \A d \in Conns :
          /\ answered[d] <= cfg.limit
          /\ at'[d] \in {"new", "backlog", "held"} => answered[d] = 0
    BY <1>2 DEF Books, Budget
  <2> QED BY <1>1, <1>3, <1>7, <2>1 DEF Budget
<1>9. c \notin Counted BY <1>2 DEF Counted
<1>10. Cardinality(RequestsOf(Counted)') = Cardinality(RequestsOf(Counted)) + answered[c]
  BY <1>1, <1>9, SumJoin DEF ServeNext, IInv, Books
<1>11. Totals' BY <1>1, <1>5, <1>10 DEF Books, Totals
<1> QED BY <1>4, <1>8, <1>11 DEF Books

(* connectionTask adds first, and gives the slot back after.               *)
LEMMA GiveSlotBooks == ASSUME IInv, Books, NEW c \in Conns, GiveSlot(c) PROVE Books'
<1>1. /\ Concurrent /\ Concurrent' = Concurrent /\ Limit' = Limit
      /\ UNCHANGED <<cfg, loop, handled, answered, accepted, rejected>>
  BY DEF GiveSlot, Concurrent, Limit, accepting
<1>2. PICK pc \in {"counted", "slotFree"} : Move(c, pc) /\ (pc = "counted" <=> at[c] = "ended")
  BY DEF GiveSlot
<1>3. at' = [at EXCEPT ![c] = pc] /\ at \in [Conns -> ConnAt] /\ at[c] \in {"ended", "counted"}
  BY <1>2 DEF GiveSlot, Move, IInv, TypeOK
<1>4. Alone' BY <1>1 DEF Alone
<1>5. Budget' BY <1>1, <1>3 DEF Books, Budget
<1>6. Taken' = Taken /\ Undecided' = Undecided BY <1>1, <1>3 DEF Taken, Undecided
<1>7. served' = Cardinality(RequestsOf(Counted)')
  <2>1. CASE at[c] = "ended"
    <3>1. Move(c, "counted") /\ c \notin Counted /\ served' = served + answered[c]
      BY <2>1 DEF GiveSlot, Counted
    <3>2. Cardinality(RequestsOf(Counted)') = Cardinality(RequestsOf(Counted)) + answered[c]
      BY <1>1, <3>1, SumJoin DEF IInv, Books
    <3> QED BY <3>1, <3>2 DEF Books, Totals
  <2>2. CASE at[c] = "counted"
    <3>1. Counted' = Counted /\ served' = served
      BY <1>2, <1>3, <2>2 DEF GiveSlot, Counted
    <3>2. RequestsOf(Counted)' = RequestsOf(Counted) BY <1>1, <3>1, SumStays
    <3> QED BY <3>1, <3>2 DEF Books, Totals
  <2> QED BY <1>3, <2>1, <2>2
<1>8. Totals' BY <1>1, <1>6, <1>7 DEF Books, Totals
<1> QED BY <1>4, <1>5, <1>8 DEF Books

LEMMA StutterBooks == ASSUME Books, UNCHANGED vars PROVE Books'
<1>1. Limit' = Limit /\ Concurrent' = Concurrent BY DEF vars, Limit, Concurrent
<1>2. Counted' = Counted /\ Taken' = Taken /\ Undecided' = Undecided
  BY DEF vars, Counted, Taken, Undecided
<1>3. RequestsOf(Counted)' = RequestsOf(Counted) BY <1>2, SumStays DEF vars
<1>4. Alone' BY <1>1 DEF vars, Books, Alone
<1>5. Budget' BY <1>1 DEF vars, Books, Budget
<1>6. Totals' BY <1>1, <1>2, <1>3 DEF vars, Books, Totals
<1> QED BY <1>4, <1>5, <1>6 DEF Books

(* Every step keeps the books.                                             *)
LEMMA StepBooks == ASSUME IInv, Books, [Next]_vars PROVE Books'
<1>1. CASE \E c \in Conns : Connect(c) BY <1>1, QuietBooks
<1>2. CASE \E c \in Conns : ConnStep(c)
  BY <1>2, QuietBooks, ExchangeBooks, GiveSlotBooks DEF ConnStep
<1>3. CASE \E c \in Conns : Accept(c) \/ ServeNext(c)
  BY <1>3, AcceptBooks, ServeNextBooks
<1>4. CASE Claim \/ GiveBack \/ Reject \/ RaisePeak \/ CountIn \/ Return
  BY <1>4, DecisionBooks
<1>5. CASE Refuse \/ SpawnTask BY <1>5, RefuseBooks, SpawnTaskBooks
<1>6. CASE UNCHANGED vars BY <1>6, StutterBooks
<1> QED BY <1>1, <1>2, <1>3, <1>4, <1>5, <1>6 DEF Next, LoopStep

-----------------------------------------------------------------------------
(* What the loop holds and what a claim returned, tied to the counters, is *)
(* an invariant of serve and serveConcurrent.                              *)
THEOREM InductiveInvariant == Spec => []IInv
<1>1. Init => IInv BY InitIInv
<1>2. IInv /\ [Next]_vars => IInv' BY StepKeeps
<1> QED BY <1>1, <1>2, PTL DEF Spec

(* Every counter of ServeState and every place keeps its type; the slot    *)
(* counter in particular never goes below zero.                            *)
THEOREM TypeCorrect == Spec => []TypeOK
BY InductiveInvariant, PTL DEF IInv

(* The slot counter is exact: one per running connectionTask, and one for  *)
(* a claim in progress.  The tasks never exceed the reported peak, nor the *)
(* peak the ceiling.                                                       *)
THEOREM SlotsAreSoundHolds == Spec => []SlotsAreSound
<1>1. IInv => SlotsAreSound BY DEF IInv, SlotsAreSound
<1> QED BY <1>1, InductiveInvariant, PTL

-----------------------------------------------------------------------------
(***************************************************************************)
(* The server implements Admission.  One step of the loop decides, one     *)
(* step of a task leaves; the others only catch up with the counters.      *)
(***************************************************************************)
Accepted == accepted + Due({"raisePeak", "countIn"})
Rejected == rejected + Due({"giveBack", "reject"})
Peak == IF loop = "raisePeak" /\ now > peak THEN now ELSE peak

(* Admission's cardinality is the cardinality.                             *)
LEMMA SameCardinality == ASSUME NEW S PROVE Slots!Cardinality(S) = Cardinality(S)
BY DEF Slots!Cardinality, Cardinality

(* The claim decides, by what the increment returned.                      *)
LEMMA ClaimAdmits == ASSUME IInv, Claim PROVE Slots!LetIn(holds) \/ Slots!TurnAway(holds)
<1>1. /\ Concurrent /\ Concurrent' = Concurrent /\ holds \in Conns /\ at[holds] = "held"
      /\ loop = "claim"
  BY DEF Claim, IInv, Holding, Concurrent
<1>2. UNCHANGED <<cfg, holds, at, accepted, rejected, peak>> /\ HasSlot' = HasSlot
  BY DEF Claim, HasSlot
<1>3. In = HasSlot /\ Gone = {c \in Conns : at[c] \in {"slotFree", "closed"}}
  BY <1>1 DEF In, Gone, Held
<1>4. holds \notin In \cup Gone BY <1>1, <1>3 DEF HasSlot
<1>5. /\ Cardinality(In) = inFlight /\ inFlight \in Nat /\ inFlight <= cfg.max
      /\ cfg.max \in Nat /\ accepted \in Nat /\ rejected \in Nat /\ peak \in Nat
  BY <1>1, <1>3, TasksType, HttpServerAssumption
     DEF IInv, TypeOK, SlotsAreExact, Tasks, CapHolds, Config
<1>6. Accepted = accepted /\ Rejected = rejected /\ Peak = peak
  BY <1>1, <1>5 DEF Accepted, Rejected, Peak, Due
<1>7. CASE inFlight + 1 > cfg.max
  <2>1. loop' = "giveBack" BY <1>7 DEF Claim
  <2>2. In' = In /\ Gone' = Gone \cup {holds} BY <1>1, <1>2, <1>3, <2>1 DEF In, Gone, Held
  <2>3. Accepted' = accepted /\ Rejected' = rejected + 1 /\ Peak' = peak
    BY <1>2, <1>5, <2>1 DEF Accepted, Rejected, Peak, Due
  <2>4. Slots!Cardinality(In) = cfg.max BY <1>5, <1>7, SameCardinality
  <2>5. UNCHANGED cfg.max /\ Rejected' = Rejected + 1 BY <1>2, <1>6, <2>3
  <2>6. Accepted' = Accepted /\ Peak' = Peak BY <1>6, <2>3
  <2> QED BY <1>4, <2>2, <2>4, <2>5, <2>6 DEF Slots!TurnAway, Accepted, Rejected, Peak
<1>8. CASE ~(inFlight + 1 > cfg.max)
  <2>1. loop' = "raisePeak" /\ now' = inFlight + 1 BY <1>8 DEF Claim
  <2>2. In' = In \cup {holds} /\ Gone' = Gone BY <1>1, <1>2, <1>3, <2>1 DEF In, Gone, Held
  <2>3. Accepted' = accepted + 1 /\ Rejected' = rejected
    BY <1>2, <1>5, <2>1 DEF Accepted, Rejected, Due
  <2>4. Peak' = Slots!Larger(Slots!Cardinality(In) + 1, peak)
    BY <1>2, <1>5, <2>1, SameCardinality DEF Peak, Slots!Larger
  <2>5. Slots!Cardinality(In) < cfg.max BY <1>5, <1>8, SameCardinality
  <2>6. UNCHANGED cfg.max /\ Accepted' = Accepted + 1 BY <1>2, <1>6, <2>3
  <2>7. Rejected' = Rejected BY <1>6, <2>3
  <2>8. Peak' = Slots!Larger(Slots!Cardinality(In) + 1, Peak) BY <1>6, <2>4
  <2> QED BY <1>4, <2>2, <2>5, <2>6, <2>7, <2>8 DEF Slots!LetIn, Accepted, Rejected, Peak
<1> QED BY <1>7, <1>8

(* The task gives its slot back.                                           *)
LEMMA LeaveAdmits ==
  ASSUME IInv, NEW c \in Conns, GiveSlot(c), at[c] = "counted"
  PROVE  Slots!Leave(c)
<1>1. /\ Concurrent /\ Concurrent' = Concurrent
      /\ UNCHANGED <<cfg, loop, holds, now, accepted, rejected, peak>>
      /\ at' = [at EXCEPT ![c] = "slotFree"] /\ at \in [Conns -> ConnAt]
  BY DEF GiveSlot, Concurrent, accepting, Move, IInv, TypeOK
<1>2. HasSlot' = HasSlot \ {c} /\ c \in HasSlot BY <1>1 DEF HasSlot
<1>3. c \notin Held(Under) BY DEF Held, IInv, Holding
<1>4. Held(Under)' = Held(Under) /\ Held(Over)' = Held(Over) BY <1>1 DEF Held
<1>5. In' = In \ {c} /\ c \in In BY <1>1, <1>2, <1>3, <1>4 DEF In
<1>6. Gone' = Gone \cup {c} BY <1>1, <1>4 DEF Gone
<1>7. Accepted' = Accepted /\ Rejected' = Rejected /\ Peak' = Peak
  BY <1>1 DEF Accepted, Rejected, Peak, Due
<1> QED BY <1>1, <1>5, <1>6, <1>7 DEF Slots!Leave, Accepted, Rejected, Peak

LEMMA SlotsStay ==
  ASSUME cfg' = cfg, In' = In, Gone' = Gone, Accepted' = Accepted, Rejected' = Rejected,
         Peak' = Peak
  PROVE  UNCHANGED Slots!vars
BY DEF Slots!vars, Accepted, Rejected, Peak

(* A step of a connection that neither takes nor gives back a slot.        *)
LEMMA ConnAdmits ==
  ASSUME IInv, NEW c \in Conns, NEW pc, Move(c, pc), UNCHANGED <<cfg, loop, holds, now>>,
         UNCHANGED <<accepted, rejected, peak>>,
         at[c] \in Slotted <=> pc \in Slotted,
         at[c] \in {"slotFree", "closed"} <=> pc \in {"slotFree", "closed"}
  PROVE  UNCHANGED Slots!vars
<1>1. at' = [at EXCEPT ![c] = pc] /\ at \in [Conns -> ConnAt] BY DEF Move, IInv, TypeOK
<1>2. HasSlot' = HasSlot BY <1>1 DEF HasSlot, Slotted
<1>3. In' = In BY <1>2 DEF In, Held, Concurrent
<1>4. Gone' = Gone BY <1>1 DEF Gone, Held, Concurrent
<1> QED BY <1>3, <1>4, SlotsStay DEF Accepted, Rejected, Peak, Due

LEMMA AdmissionStep == IInv /\ [Next]_vars => [Slots!Next]_(Slots!vars)
<1> SUFFICES ASSUME IInv, [Next]_vars PROVE Slots!Next \/ UNCHANGED Slots!vars
  OBVIOUS
<1>0. accepted \in Nat /\ rejected \in Nat /\ peak \in Nat /\ now \in Nat BY DEF IInv, TypeOK
<1>1. CASE Claim
  <2>1. holds \in Conns BY <1>1 DEF Claim, IInv, Holding
  <2> QED BY <1>1, <2>1, ClaimAdmits DEF Slots!Next
<1>2. ASSUME NEW c \in Conns, GiveSlot(c) PROVE Slots!Next \/ UNCHANGED Slots!vars
  <2>1. CASE at[c] = "counted" BY <1>2, <2>1, LeaveAdmits DEF Slots!Next
  <2>2. CASE at[c] = "ended" BY <1>2, <2>2, ConnAdmits DEF GiveSlot, Slotted, accepting
  <2> QED BY <1>2, <2>1, <2>2 DEF GiveSlot
<1>3. ASSUME NEW c \in Conns,
             Connect(c) \/ ReadHead(c) \/ Reply(c) \/ Exchange(c) \/ Write(c) \/ Close(c)
      PROVE  UNCHANGED Slots!vars
  <2>1. UNCHANGED <<cfg, loop, holds, now, accepted, rejected, peak>>
    BY <1>3 DEF Connect, ReadHead, Reply, Exchange, Write, Close, accepting, counters
  <2>2. PICK pc : /\ Move(c, pc)
                  /\ at[c] \in Slotted <=> pc \in Slotted
                  /\ at[c] \in {"slotFree", "closed"} <=> pc \in {"slotFree", "closed"}
    BY <1>3 DEF Connect, ReadHead, Reply, Exchange, Write, Close, Slotted
  <2> QED BY <2>1, <2>2, ConnAdmits
<1>4. ASSUME NEW c \in Conns, Accept(c) \/ ServeNext(c) PROVE UNCHANGED Slots!vars
  <2>1. /\ UNCHANGED <<cfg, now, accepted, rejected, peak>> /\ Concurrent' = Concurrent
        /\ loop \notin Over \cup Under /\ loop' \notin Over \cup Under
    BY <1>4 DEF Accept, ServeNext, counters, Concurrent
  <2>2. Accepted' = Accepted /\ Rejected' = Rejected /\ Peak' = Peak
    BY <2>1 DEF Accepted, Rejected, Peak, Due
  <2>3. CASE Concurrent
    <3>1. Accept(c) /\ Move(c, "held") /\ at[c] = "backlog"
      BY <1>4, <2>3 DEF Accept, ServeNext, IInv, Holding
    <3>2. at' = [at EXCEPT ![c] = "held"] /\ at \in [Conns -> ConnAt] BY <3>1 DEF Move, IInv, TypeOK
    <3>3. HasSlot' = HasSlot BY <3>1, <3>2 DEF HasSlot
    <3>4. In' = In BY <2>1, <3>3 DEF In, Held
    <3>5. Gone' = Gone BY <2>1, <3>1, <3>2 DEF Gone, Held
    <3> QED BY <2>1, <2>2, <3>4, <3>5, SlotsStay
  <2>4. CASE ~Concurrent BY <2>1, <2>2, <2>4, SlotsStay DEF In, Gone
  <2> QED BY <2>3, <2>4
<1>5. CASE GiveBack \/ Reject \/ RaisePeak \/ CountIn \/ Return
  <2>1. UNCHANGED <<cfg, holds, now, at>> /\ Concurrent' = Concurrent /\ HasSlot' = HasSlot
    BY <1>5 DEF GiveBack, Reject, RaisePeak, CountIn, Return, Concurrent, HasSlot
  <2>2. Held(Under)' = Held(Under) /\ Held(Over)' = Held(Over)
    BY <1>5, <2>1 DEF GiveBack, Reject, RaisePeak, CountIn, Return, Held
  <2>3. In' = In /\ Gone' = Gone BY <2>1, <2>2 DEF In, Gone
  <2>4. Accepted' = Accepted /\ Rejected' = Rejected
    BY <1>0, <1>5 DEF GiveBack, Reject, RaisePeak, CountIn, Return, Accepted, Rejected, Due, counters
  <2>5. Peak' = Peak
    BY <1>0, <1>5 DEF GiveBack, Reject, RaisePeak, CountIn, Return, Peak, counters
  <2> QED BY <2>1, <2>3, <2>4, <2>5, SlotsStay
<1>6. CASE Refuse \/ SpawnTask
  <2>1. Concurrent /\ Concurrent' = Concurrent /\ holds \in Conns /\ at[holds] = "held"
    BY <1>6 DEF Refuse, SpawnTask, IInv, Holding, Concurrent
  <2>2. /\ UNCHANGED <<cfg, now, accepted, rejected, peak>> /\ loop' = "accept"
        /\ at \in [Conns -> ConnAt]
    BY <1>6 DEF Refuse, SpawnTask, counters, IInv, TypeOK
  <2>3. Accepted' = Accepted /\ Rejected' = Rejected /\ Peak' = Peak
    BY <1>6, <2>2 DEF Refuse, SpawnTask, Accepted, Rejected, Peak, Due
  <2>4. CASE Refuse
    <3>1. at' = [at EXCEPT ![holds] = "closed"] /\ loop = "refuse" BY <2>4 DEF Refuse, Move
    <3>2. HasSlot' = HasSlot BY <2>1, <2>2, <3>1 DEF HasSlot
    <3>3. In' = In BY <2>1, <2>2, <3>1, <3>2 DEF In, Held
    <3>4. Gone' = Gone BY <2>1, <2>2, <3>1 DEF Gone, Held
    <3> QED BY <2>2, <2>3, <3>3, <3>4, SlotsStay
  <2>5. CASE SpawnTask
    <3>1. at' = [at EXCEPT ![holds] = "head"] /\ loop = "spawn" BY <2>5 DEF SpawnTask, Move
    <3>2. HasSlot' = HasSlot \cup {holds} BY <2>1, <2>2, <3>1 DEF HasSlot
    <3>3. In' = In BY <2>1, <2>2, <3>1, <3>2 DEF In, Held
    <3>4. Gone' = Gone BY <2>1, <2>2, <3>1 DEF Gone, Held
    <3> QED BY <2>2, <2>3, <3>3, <3>4, SlotsStay
  <2> QED BY <1>6, <2>4, <2>5
<1>7. CASE UNCHANGED vars
  BY <1>7, SlotsStay DEF vars, In, Gone, Held, Concurrent, HasSlot, Accepted, Rejected, Peak, Due
<1> QED BY <1>1, <1>2, <1>3, <1>4, <1>5, <1>6, <1>7 DEF Next, LoopStep, ConnStep

(* serveConcurrent admits as Admission promises: nobody is let in above    *)
(* the ceiling or turned away below it, and what it reports is how many    *)
(* were let in, how many were not, and the most there were at a time.      *)
THEOREM AdmissionImplemented == Spec => ImplementsAdmission
<1>1. Init => Slots!Init
  <2> SUFFICES ASSUME Init PROVE Slots!Init OBVIOUS
  <2>1. cfg.max \in Nat \ {0} BY HttpServerAssumption DEF Init, Config
  <2>2. In = {} /\ Gone = {} BY DEF Init, In, Gone, Held, HasSlot
  <2> QED BY <2>1, <2>2 DEF Init, Slots!Init, Due
<1> QED BY <1>1, AdmissionStep, InductiveInvariant, PTL DEF Spec, ImplementsAdmission, Slots!Spec

-----------------------------------------------------------------------------
(* The sums the server keeps, and the budget of each connection, are       *)
(* invariants of serve and serveConcurrent.                                *)
THEOREM BooksInvariant == Spec => []Books
<1>1. Init => Books BY InitBooks
<1>2. IInv /\ Books /\ [Next]_vars => Books' BY StepBooks
<1> QED BY <1>1, <1>2, InductiveInvariant, PTL DEF Spec

(* Once serveConcurrent has returned and inFlight is 0, no task touches    *)
(* ServeState again: served is the number of requests answered, and        *)
(* accepted and rejected account for every connection that was taken.      *)
THEOREM CompleteWhenDrainedHolds == Spec => []CompleteWhenDrained
<1>1. ASSUME IInv, Books, Concurrent, loop = "returned", inFlight = 0
      PROVE  /\ \A c \in Conns : at[c] \in {"new", "backlog", "slotFree", "closed"}
             /\ served = Cardinality(RequestsOf(Conns))
             /\ accepted + rejected = Cardinality(Taken)
  <2>1. HasSlot = {}
    <3>1. Cardinality(HasSlot) = 0 /\ IsFiniteSet(HasSlot)
      BY <1>1, TasksType DEF IInv, SlotsAreExact, Tasks
    <3> QED BY <3>1, FS_EmptySet
  <2>2. \A c \in Conns : at[c] # "held" BY <1>1 DEF IInv, Holding
  <2>3. \A c \in Conns : at[c] \in {"new", "backlog", "slotFree", "closed"}
    BY <1>1, <2>1, <2>2 DEF HasSlot, IInv, TypeOK
  <2>4. \A c \in Conns \ Counted : answered[c] = 0
    BY <1>1, <2>3 DEF Counted, Books, Budget
  <2>5. RequestsOf(Conns) = RequestsOf(Counted)
    BY <2>4, RequestsElsewhere DEF Counted
  <2>6. Undecided = 0 /\ accepted \in Nat /\ rejected \in Nat
    BY <1>1 DEF Undecided, IInv, TypeOK
  <2>7. served = Cardinality(RequestsOf(Counted)) /\ accepted + rejected + Undecided = Cardinality(Taken)
    BY <1>1 DEF Books, Totals
  <2> QED BY <2>3, <2>5, <2>6, <2>7
<1>2. IInv /\ Books => CompleteWhenDrained BY <1>1 DEF CompleteWhenDrained, Taken
<1> QED BY <1>2, InductiveInvariant, BooksInvariant, PTL

(* serve answers no more than n requests, serveConcurrent takes no more    *)
(* than n sockets, and no connection makes more requests than its limit.   *)
THEOREM NeverOvershootsHolds == Spec => []NeverOvershoots
<1>1. ASSUME IInv, Books, cfg.n > 0, ~Concurrent
      PROVE  Cardinality(RequestsOf(Conns)) <= cfg.n
  <2>1. cfg.n \in Nat /\ served \in Nat /\ served <= cfg.n /\ served = Cardinality(RequestsOf(Counted))
    BY <1>1, NumbersType DEF IInv, TypeOK, Books, Budget, Totals
  <2>2. \A c \in Conns \ Counted : answered[c] # 0 => at[c] \in Talking \cup {"ended"}
    BY <1>1 DEF Counted, Books, Budget, IInv, TypeOK
  <2>3. CASE \A c \in Conns \ Counted : answered[c] = 0
    <3>1. RequestsOf(Conns) = RequestsOf(Counted)
      BY <2>3, RequestsElsewhere DEF Counted
    <3> QED BY <2>1, <3>1
  <2>4. CASE \E c \in Conns \ Counted : answered[c] # 0
    <3>1. PICK c \in Conns \ Counted : answered[c] # 0 BY <2>4
    <3>2. at[c] \in Talking \cup {"ended"} /\ holds = c BY <1>1, <2>2, <3>1 DEF Books, Alone
    <3>3. \A d \in Conns \ (Counted \cup {c}) : answered[d] = 0
      BY <1>1, <2>2, <3>2 DEF Books, Alone
    <3>4. Counted \cup {c} \in SUBSET Conns /\ Counted \in SUBSET Conns BY DEF Counted
    <3>5. RequestsOf(Conns) = RequestsOf(Counted \cup {c})
      BY <3>3, <3>4, RequestsElsewhere
    <3>6. Cardinality(RequestsOf(Counted \cup {c})) = served + answered[c]
      BY <1>1, <2>1, <3>4, RequestsJoin DEF IInv, Books
    <3>7. answered[c] <= Limit /\ answered[c] \in Nat /\ Limit \in Int
      BY <1>1, <3>2, NumbersType DEF IInv, Books, Budget
    <3>8. Limit <= cfg.n - served
      BY <1>1, <2>1, NumbersType DEF Limit, IInv
    <3> QED BY <2>1, <3>5, <3>6, <3>7, <3>8
  <2> QED BY <2>3, <2>4
<1>2. ASSUME IInv, Books PROVE NeverOvershoots
  BY <1>1, <1>2 DEF Books, Budget, NeverOvershoots
<1> QED BY <1>2, InductiveInvariant, BooksInvariant, PTL
=============================================================================
