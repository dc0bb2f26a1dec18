------------------------------ MODULE HttpServer ------------------------------
(***************************************************************************)
(* The accept loops of std/http/server.yoop: serve, which serves one       *)
(* connection after another on its own task, and serveConcurrent, which    *)
(* claims a slot in the caller's ServeState and starts a fire-and-forget   *)
(* connectionTask for each; and the keep-alive loop serveConnectionOn,     *)
(* which both run.                                                         *)
(*                                                                         *)
(* Every atomic operation on a counter of ServeState is a step of its own, *)
(* and so is every await.  What a request says, and what a handler does    *)
(* with it, is its outcome only.                                           *)
(***************************************************************************)
EXTENDS Integers, FiniteSets

CONSTANTS Conns,        (* the connections clients make                     *)
          NoConn,       (* the loop holds no connection                     *)
          MaxSlots,     (* bound: the largest maxConcurrent                 *)
          MaxN,         (* bound: the largest n a server is started with    *)
          MaxRequests   (* bound: the largest maxRequestsPerConnection      *)

ASSUME HttpServerAssumption ==
  /\ IsFiniteSet(Conns) /\ NoConn \notin Conns
  /\ MaxSlots \in Nat \ {0} /\ MaxN \in Nat /\ MaxRequests \in Nat \ {0}

VARIABLES
  cfg,        (* what the server was started with                           *)
  loop,       (* where the accept loop is                                   *)
  holds,      (* the connection it has accepted and not yet passed on       *)
  now,        (* its `live`: what the claim of a slot returned              *)
  handled,    (* its count of accepted sockets                              *)
  at,         (* per connection: where it is, from connect to close         *)
  answered,   (* per connection: `served` of serveConnectionOn              *)
  inFlight, peak, accepted, rejected, served    (* ServeState               *)

vars == <<cfg, loop, holds, now, handled, at, answered,
          inFlight, peak, accepted, rejected, served>>
counters == <<inFlight, peak, accepted, rejected, served>>
accepting == <<loop, holds, now, handled>>

Config == [kind : {"serve", "serveConcurrent"}, max : 1..MaxSlots,
           n : 0..MaxN, limit : 1..MaxRequests]

Concurrent == cfg.kind = "serveConcurrent"

Over == {"giveBack", "reject", "refuse"}
Under == {"raisePeak", "countIn", "spawn"}
LoopAt == {"accept", "claim", "serving", "returned"} \cup Over \cup Under

Talking == {"head", "exchange", "keep", "last", "reply"}
ConnAt == {"new", "backlog", "held", "ended", "counted", "slotFree", "closed"} \cup Talking

Init ==
  /\ cfg \in Config
  /\ loop = "accept" /\ holds = NoConn /\ now = 0 /\ handled = 0
  /\ at = [c \in Conns |-> "new"]
  /\ answered = [c \in Conns |-> 0]
  /\ inFlight = 0 /\ peak = 0 /\ accepted = 0 /\ rejected = 0 /\ served = 0

Move(c, pc) == at' = [at EXCEPT ![c] = pc]

-----------------------------------------------------------------------------
(* A client connects: the listener's backlog.                              *)
Connect(c) ==
  /\ at[c] = "new"
  /\ Move(c, "backlog")
  /\ UNCHANGED <<cfg, accepting, answered, counters>>

(* serveConcurrent counts the sockets it has accepted, serve the requests  *)
(* it has answered.                                                        *)
Continues == cfg.n = 0 \/ (IF Concurrent THEN handled ELSE served) < cfg.n

Accept(c) ==
  /\ loop = "accept" /\ Continues /\ at[c] = "backlog"
  /\ holds' = c
  /\ IF Concurrent
     THEN loop' = "claim" /\ handled' = handled + 1 /\ Move(c, "held")
     ELSE loop' = "serving" /\ UNCHANGED handled /\ Move(c, "head")
  /\ UNCHANGED <<cfg, now, answered, counters>>

(* The listener is cancelled or fails, or n is reached.                    *)
Return ==
  /\ loop = "accept"
  /\ loop' = "returned"
  /\ UNCHANGED <<cfg, holds, now, handled, at, answered, counters>>

(* Mutant: the connection is refused that would take the last slot.        *)
ClaimStrictly ==
  /\ loop = "claim"
  /\ inFlight' = inFlight + 1
  /\ now' = inFlight + 1
  /\ loop' = IF inFlight + 1 >= cfg.max THEN "giveBack" ELSE "raisePeak"
  /\ UNCHANGED <<cfg, holds, handled, at, answered, peak, accepted, rejected, served>>

(* The slot is claimed first and tested by what the increment returned.    *)
Claim ==
  /\ loop = "claim"
  /\ inFlight' = inFlight + 1
  /\ now' = inFlight + 1
  /\ loop' = IF inFlight + 1 > cfg.max THEN "giveBack" ELSE "raisePeak"
  /\ UNCHANGED <<cfg, holds, handled, at, answered, peak, accepted, rejected, served>>

(* Mutant: a refused connection keeps its slot.                            *)
GiveBackNothing ==
  /\ loop = "giveBack"
  /\ loop' = "reject"
  /\ UNCHANGED <<cfg, holds, now, handled, at, answered, counters>>

GiveBack ==
  /\ loop = "giveBack"
  /\ inFlight' = inFlight - 1
  /\ loop' = "reject"
  /\ UNCHANGED <<cfg, holds, now, handled, at, answered, peak, accepted, rejected, served>>

Reject ==
  /\ loop = "reject"
  /\ rejected' = rejected + 1
  /\ loop' = "refuse"
  /\ UNCHANGED <<cfg, holds, now, handled, at, answered, inFlight, peak, accepted, served>>

(* Mutant: the refused connection gives its slot back when it closes, too. *)
RefuseGivesBack ==
  /\ loop = "refuse"
  /\ Move(holds, "closed")
  /\ inFlight' = inFlight - 1
  /\ loop' = "accept" /\ holds' = NoConn
  /\ UNCHANGED <<cfg, now, handled, answered, peak, accepted, rejected, served>>

(* The 503 is awaited by the loop itself, then the stream is closed.       *)
Refuse ==
  /\ loop = "refuse"
  /\ Move(holds, "closed")
  /\ loop' = "accept" /\ holds' = NoConn
  /\ UNCHANGED <<cfg, now, handled, answered, counters>>

RaisePeak ==
  /\ loop = "raisePeak"
  /\ peak' = IF now > peak THEN now ELSE peak
  /\ loop' = "countIn"
  /\ UNCHANGED <<cfg, holds, now, handled, at, answered, inFlight, accepted, rejected, served>>

CountIn ==
  /\ loop = "countIn"
  /\ accepted' = accepted + 1
  /\ loop' = "spawn"
  /\ UNCHANGED <<cfg, holds, now, handled, at, answered, inFlight, peak, rejected, served>>

(* connectionTask takes the stream; nobody keeps its handle.               *)
SpawnTask ==
  /\ loop = "spawn"
  /\ Move(holds, "head")
  /\ loop' = "accept" /\ holds' = NoConn
  /\ UNCHANGED <<cfg, now, handled, answered, counters>>

-----------------------------------------------------------------------------
(* Mutant: the budget of a bounded serve is not passed on.                 *)
LimitOfConfig == cfg.limit

(* How many requests a connection may make: never more than serve has left *)
(* of its n; serveConcurrent passes no budget.                             *)
Limit ==
  IF ~Concurrent /\ cfg.n > 0 /\ cfg.n - served < cfg.limit
  THEN cfg.n - served ELSE cfg.limit

(* readRequestHead: a head, a clean close, or a failure to answer with an  *)
(* error page.                                                             *)
ReadHead(c) ==
  /\ at[c] = "head"
  /\ \E pc \in {"exchange", "ended", "reply"} : Move(c, pc)
  /\ UNCHANGED <<cfg, accepting, answered, counters>>

(* Mutant: after the error page the next request is read.                  *)
ReplyAndGoOn(c) ==
  /\ at[c] = "reply"
  /\ Move(c, "head")
  /\ UNCHANGED <<cfg, accepting, answered, counters>>

(* replyWithError, whose own failure is ignored.                           *)
Reply(c) ==
  /\ at[c] = "reply"
  /\ Move(c, "ended")
  /\ UNCHANGED <<cfg, accepting, answered, counters>>

(* The request is read, handled and counted; the connection is kept only   *)
(* if nothing failed, the client wants it and the limit is not reached.    *)
Exchange(c) ==
  /\ at[c] = "exchange"
  /\ answered' = [answered EXCEPT ![c] = @ + 1]
  /\ \/ Move(c, "last")
     \/ answered[c] + 1 < Limit /\ Move(c, "keep")
  /\ UNCHANGED <<cfg, accepting, counters>>

(* writeResponse, which may fail.                                          *)
Write(c) ==
  /\ \/ at[c] \in {"keep", "last"} /\ Move(c, "ended")
     \/ at[c] = "keep" /\ Move(c, "head")
  /\ UNCHANGED <<cfg, accepting, answered, counters>>

(* serve goes on when the connection has ended, and closes it.             *)
ServeNext(c) ==
  /\ loop = "serving" /\ holds = c /\ at[c] = "ended"
  /\ served' = served + answered[c]
  /\ Move(c, "closed")
  /\ loop' = "accept" /\ holds' = NoConn
  /\ UNCHANGED <<cfg, now, handled, answered, inFlight, peak, accepted, rejected>>

(* Mutant: the slot is given back before the requests are added.           *)
GiveSlotFirst(c) ==
  /\ Concurrent /\ at[c] \in {"ended", "counted"}
  /\ IF at[c] = "ended"
     THEN inFlight' = inFlight - 1 /\ Move(c, "counted") /\ UNCHANGED served
     ELSE served' = served + answered[c] /\ Move(c, "slotFree") /\ UNCHANGED inFlight
  /\ UNCHANGED <<cfg, accepting, answered, peak, accepted, rejected>>

(* Mutant: a connection without a request keeps its slot.                  *)
GiveSlotIfServed(c) ==
  /\ Concurrent /\ at[c] \in {"ended", "counted"}
  /\ IF at[c] = "ended"
     THEN served' = served + answered[c] /\ Move(c, "counted") /\ UNCHANGED inFlight
     ELSE /\ inFlight' = IF answered[c] > 0 THEN inFlight - 1 ELSE inFlight
          /\ Move(c, "slotFree") /\ UNCHANGED served
  /\ UNCHANGED <<cfg, accepting, answered, peak, accepted, rejected>>

(* connectionTask adds what was answered, then gives the slot back, ...    *)
GiveSlot(c) ==
  /\ Concurrent /\ at[c] \in {"ended", "counted"}
  /\ IF at[c] = "ended"
     THEN served' = served + answered[c] /\ Move(c, "counted") /\ UNCHANGED inFlight
     ELSE inFlight' = inFlight - 1 /\ Move(c, "slotFree") /\ UNCHANGED served
  /\ UNCHANGED <<cfg, accepting, answered, peak, accepted, rejected>>

(* ... and closes the stream when it returns.                              *)
Close(c) ==
  /\ at[c] = "slotFree"
  /\ Move(c, "closed")
  /\ UNCHANGED <<cfg, accepting, answered, counters>>

LoopStep ==
  \/ Claim \/ GiveBack \/ Reject \/ Refuse
  \/ RaisePeak \/ CountIn \/ SpawnTask
  \/ \E c \in Conns : Accept(c) \/ ServeNext(c)

ConnStep(c) ==
  \/ ReadHead(c) \/ Reply(c) \/ Exchange(c) \/ Write(c) \/ GiveSlot(c) \/ Close(c)

Next ==
  \/ \E c \in Conns : Connect(c) \/ ConnStep(c)
  \/ LoopStep \/ Return

Spec == Init /\ [][Next]_vars

(* Runnable code runs; a client that has a connection sends or closes in   *)
(* the end (the code sets no deadline on a read); a bounded loop returns.  *)
FairSpec ==
  /\ Spec
  /\ WF_vars(LoopStep) /\ WF_vars(~Continues /\ Return)
  /\ \A c \in Conns : WF_vars(ConnStep(c))

-----------------------------------------------------------------------------
TypeOK ==
  /\ cfg \in Config
  /\ loop \in LoopAt
  /\ holds \in Conns \cup {NoConn}
  /\ now \in Nat /\ handled \in Nat
  /\ at \in [Conns -> ConnAt]
  /\ answered \in [Conns -> Nat]
  /\ inFlight \in Nat /\ peak \in Nat
  /\ accepted \in Nat /\ rejected \in Nat /\ served \in Nat

(* The connections whose task has not given its slot back.                 *)
HasSlot == {c \in Conns : at[c] \in Talking \cup {"ended", "counted"}}
Tasks == IF Concurrent THEN Cardinality(HasSlot) ELSE 0

(***************************************************************************)
(* No slot is lost and none is counted twice: inFlight is the number of    *)
(* running connectionTasks, and one more only while serveConcurrent has    *)
(* claimed a slot and not yet started the task or given the slot back.     *)
(***************************************************************************)
SlotsAreExact ==
  inFlight = Tasks + IF loop \in Under \cup {"giveBack"} THEN 1 ELSE 0

(***************************************************************************)
(* The ceiling holds (server.yoop, maxConcurrent): never more tasks than   *)
(* slots, and the reported peak is a number of tasks there really were     *)
(* room for and never below what is running now.                           *)
(***************************************************************************)
CapHolds == Tasks <= peak /\ peak <= cfg.max

SlotsAreSound == SlotsAreExact /\ CapHolds

(* The requests that connections S have had answered, one by one, so that  *)
(* their number is the sum of the connections' own counts.                 *)
RequestsOf(S) == UNION {{c} \X (1..answered[c]) : c \in S}

(***************************************************************************)
(* A caller that polls serveInFlight after serveConcurrent has returned    *)
(* may read its ServeState, and drop it, as soon as that is 0: no task     *)
(* touches it again, and every counter has its final value.                *)
(***************************************************************************)
CompleteWhenDrained ==
  Concurrent /\ loop = "returned" /\ inFlight = 0 =>
    /\ \A c \in Conns : at[c] \in {"new", "backlog", "slotFree", "closed"}
    /\ served = Cardinality(RequestsOf(Conns))
    /\ accepted + rejected = Cardinality({c \in Conns : at[c] \notin {"new", "backlog"}})

(***************************************************************************)
(* A bounded run does not overshoot: serve answers no more than n requests *)
(* just because keep-alive would have allowed more, serveConcurrent        *)
(* accepts no more than n sockets, and no connection makes more requests   *)
(* than its limit.                                                         *)
(***************************************************************************)
NeverOvershoots ==
  /\ \A c \in Conns : answered[c] <= cfg.limit
  /\ cfg.n > 0 => IF Concurrent THEN handled <= cfg.n
                  ELSE Cardinality(RequestsOf(Conns)) <= cfg.n

(***************************************************************************)
(* serveConcurrent implements Admission.  The claim of a slot is where it  *)
(* is decided: from then on the connection is in, or is gone, although the *)
(* counters follow in later steps of the loop, and a refused one still     *)
(* waits for its 503.  It leaves when its task gives the slot back.  serve *)
(* reports nothing and lets nobody in through a ServeState.                *)
(***************************************************************************)
Held(pcs) == IF loop \in pcs THEN {holds} ELSE {}
Due(pcs) == IF loop \in pcs THEN 1 ELSE 0

In == IF Concurrent THEN HasSlot \cup Held(Under) ELSE {}
Gone == IF Concurrent THEN {c \in Conns : at[c] \in {"slotFree", "closed"}} \cup Held(Over) ELSE {}

Slots == INSTANCE Admission WITH
  room <- cfg.max, in <- In, gone <- Gone,
  accepted <- accepted + Due({"raisePeak", "countIn"}),
  rejected <- rejected + Due({"giveBack", "reject"}),
  peak <- IF loop = "raisePeak" /\ now > peak THEN now ELSE peak

ImplementsAdmission == Slots!Spec

(***************************************************************************)
(* Every slot comes back: once serveConcurrent has returned, inFlight      *)
(* reaches 0 and stays there, and every connection it took is closed.      *)
(***************************************************************************)
Drains ==
  loop = "returned" ~>
    [](inFlight = 0 /\ \A c \in Conns : at[c] \in {"new", "backlog", "closed"})

(***************************************************************************)
(* Whoever connects is served or refused, and disconnected, unless the     *)
(* server has stopped accepting: a connection costs no other its turn,     *)
(* provided that clients send or close in the end (FairSpec).  One that    *)
(* does neither does stall serve, as server.yoop says (400, 570).          *)
(***************************************************************************)
EveryoneIsAnswered ==
  \A c \in Conns : at[c] = "backlog" ~> at[c] = "closed" \/ loop = "returned"
=============================================================================
