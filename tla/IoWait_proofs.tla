---------------------------- MODULE IoWait_proofs ----------------------------
(***************************************************************************)
(* Proofs about IoWait, for any callers, kinds, directions and bound on    *)
(* the sequence numbers: types, NoDanglingFrame, NoStranded, StopIsSeen,   *)
(* and that a call implements WaitPromise.                                 *)
(*                                                                         *)
(* Around them stand: what a call may have been told where it is (Calls),  *)
(* what the entries say of their owners (Entries), that a wait which has   *)
(* not been told has its entry (Registered), that until the shutdown every *)
(* entry is of a current call (Owned), wakes a task once (WokenOnce) and   *)
(* is covered (Serving), that a call has one entry at most (Once), that a  *)
(* loop that is down left nothing (Stopping), and that who is on the list  *)
(* of a cancelled token has its wake (Listed).                             *)
(***************************************************************************)
EXTENDS IoWait, TLAPS

InPark(c) == pc[c] \in {"park", "parked"}

(* Nobody has woken the call since it registered; or somebody has.         *)
Unwoken(c) == (pc[c] = "park" /\ park[c] = 0) \/ (pc[c] = "parked" /\ park[c] = 2)
Awoken(c) == (pc[c] = "park" => park[c] = 1) /\ (pc[c] = "parked" => park[c] # 2)

Calls ==
  \A c \in Callers :
    /\ IsTask(c) => pc[c] \in {"idle", "claim", "park", "parked", "check"}
    /\ pc[c] # "parked" => park[c] # 2
    /\ mine[c] # NoSeq => mine[c][1] = c
    /\ c \in fired => /\ ~IsTask(c) /\ pc[c] \in InWait \cup {"unlink"}
                      /\ Awoken(c) /\ (pc[c] = "link" => park[c] = 1)
    /\ c \in loop.wakes => IsTask(c)
    /\ c \in token.waiters => /\ ~IsTask(c) /\ c \in WithToken
                              /\ pc[c] \in (InWait \ {"link"}) \cup {"unlink"}

Entries ==
  \A r \in table :
    /\ r.op <=> Kind[r.owner] \in OpKinds
    /\ r.seq[1] = r.owner
    /\ r.delivered => r.op
    /\ ~Suspended(r) => pc[r.owner] \in InWait /\ r.seq = mine[r.owner]

HasEntry(c) == \E r \in table : r.seq = mine[c] /\ ~r.delivered

Registered ==
  \A c \in Callers :
    /\ ~IsTask(c) /\ pc[c] \in InWait /\ c \notin fired => HasEntry(c)
    /\ IsTask(c) /\ InPark(c) => c \in loop.wakes \/ Awoken(c) \/ HasEntry(c)

InHand(h, s) == \E i \in 1..Len(h) : h[i] = s

(* Until the shutdown begins: every entry is of the call its owner is in;  *)
(* a task is woken once per entry; and every entry is covered.             *)
Owned == stop = "no" => \A r \in table : pc[r.owner] \in InWait /\ r.seq = mine[r.owner]

WokenOnce ==
  stop = "no" =>
    /\ \A r \in table : ~r.delivered /\ Suspended(r) =>
                          Unwoken(r.owner) /\ r.owner \notin loop.wakes
    /\ \A c \in loop.wakes : Unwoken(c)
    /\ \A c \in Callers : IsTask(c) /\ ~InPark(c) => park[c] = 0

CoveredNow(r) ==
  \/ ep[Dir[r.owner]] = r.seq /\ (Dir[r.owner] \in kernel \/ "fd" \in loop.batch)
  \/ InHand(loop.hand, r.seq)

(* A seq is in one place: a slot, or what the loop has claimed, once; and   *)
(* in none when it has been delivered.                                     *)
Once ==
  /\ \A i, j \in 1..Len(loop.hand) : loop.hand[i] = loop.hand[j] => i = j
  /\ \A d \in Dirs : ep[d] # NoSeq => ~InHand(loop.hand, ep[d])
  /\ \A d, e \in Dirs : ep[d] = ep[e] /\ ep[d] # NoSeq => d = e
  /\ \A r \in table : r.delivered => ~InHand(loop.hand, r.seq) /\ \A d \in Dirs : ep[d] # r.seq

Serving == stop = "no" => \A r \in table : ~r.delivered => CoveredNow(r)

Stopping ==
  /\ ~loop.alive => loop = Idle
  /\ stop = "no" => ~stopping /\ ~loop.last
  /\ stop \in {"announced", "nudging", "flushing", "flushed"} => stopping
  /\ StopIsSeen

Listed == token.flag /\ ~token.waking => \A c \in token.waiters : Awoken(c)

IInv == TypeOK /\ Calls /\ Entries /\ Registered /\ Owned /\ WokenOnce /\ Once /\ Serving
        /\ Stopping /\ Listed

-----------------------------------------------------------------------------
LEMMA NoSeqIsNone == NoSeq \notin Seqs
BY DEF NoSeq, Seqs

LEMMA IdleType == /\ Idle \in LoopState
                  /\ [Idle EXCEPT !.alive = TRUE] \in LoopState
                  /\ [Idle EXCEPT !.alive = TRUE].wakes = {}
<1>1. <<>> \in Seq(Seqs) OBVIOUS
<1> QED BY <1>1 DEF Idle, LoopState

LEMMA NoSlotsType == NoSlots \in [Dirs -> {NoSeq} \cup Seqs] /\ Armed(NoSlots) = {}
BY DEF NoSlots, Armed

LEMMA FreshSeq ==
  ASSUME NEW c \in Callers, FreshSeqs(c) # {}
  PROVE  /\ NewSeq(c) \in Seqs /\ NewSeq(c)[1] = c
         /\ \A r \in table : r.seq # NewSeq(c)
         /\ \A d \in Dirs : ep[d] # NewSeq(c)
         /\ ~InHand(loop.hand, NewSeq(c))
<1>1. NewSeq(c) \in FreshSeqs(c) BY DEF NewSeq
<1> QED BY <1>1 DEF FreshSeqs, InUse, InHand

LEMMA TailHas ==
  ASSUME NEW h \in Seq(Seqs), h # <<>>, NEW s, InHand(h, s), s # Head(h)
  PROVE  InHand(Tail(h), s)
<1>1. PICK i \in 1..Len(h) : h[i] = s BY DEF InHand
<1>2. i # 1 BY <1>1
<1>3. i - 1 \in 1..Len(Tail(h)) /\ Tail(h)[i - 1] = h[i] BY <1>2
<1> QED BY <1>1, <1>3 DEF InHand

LEMMA TailOnly ==
  ASSUME NEW h \in Seq(Seqs), h # <<>>, \A i, j \in 1..Len(h) : h[i] = h[j] => i = j
  PROVE  /\ \A i, j \in 1..Len(Tail(h)) : Tail(h)[i] = Tail(h)[j] => i = j
         /\ ~InHand(Tail(h), Head(h))
         /\ \A s : InHand(Tail(h), s) => InHand(h, s)
<1>1. \A i \in 1..Len(Tail(h)) : i + 1 \in 1..Len(h) /\ Tail(h)[i] = h[i + 1] /\ i + 1 # 1 OBVIOUS
<1>2. Head(h) = h[1] /\ 1 \in 1..Len(h) OBVIOUS
<1>3. ~InHand(Tail(h), Head(h)) BY <1>1, <1>2 DEF InHand
<1>4. \A s : InHand(Tail(h), s) => InHand(h, s) BY <1>1 DEF InHand
<1>5. \A i, j \in 1..Len(Tail(h)) : Tail(h)[i] = Tail(h)[j] => i = j BY <1>1
<1> QED BY <1>3, <1>4, <1>5

LEMMA SlotType ==
  ASSUME NEW e \in [Dirs -> {NoSeq} \cup Seqs], NEW D, NEW d \in Dirs
  PROVE  /\ Slot(e, D, d) \in Seq(Seqs)
         /\ d \in D /\ e[d] # NoSeq => Slot(e, D, d) = <<e[d]>>
<1> DEFINE s == e[d]
<1>1. s \in {NoSeq} \cup Seqs OBVIOUS
<1> HIDE DEF s
<1>2. s # NoSeq => <<s>> \in Seq(Seqs) BY <1>1
<1> QED BY <1>2 DEF Slot

LEMMA FiredHas ==
  ASSUME NEW e \in [Dirs -> {NoSeq} \cup Seqs], NEW D
  PROVE  /\ Fired(e, D) \in Seq(Seqs)
         /\ \A d \in Dirs : d \in D /\ e[d] # NoSeq => InHand(Fired(e, D), e[d])
         /\ \A s : InHand(Fired(e, D), s) => \E d \in Dirs : d \in D /\ e[d] = s /\ s # NoSeq
         /\ e["read"] # e["write"] =>
              \A i, j \in 1..Len(Fired(e, D)) : Fired(e, D)[i] = Fired(e, D)[j] => i = j
<1> DEFINE a == Slot(e, D, "read")
           b == Slot(e, D, "write")
<1>1. a \in Seq(Seqs) /\ b \in Seq(Seqs) BY SlotType DEF Dirs
<1>2. IF "read" \in D /\ e["read"] # NoSeq THEN a = <<e["read"]>> ELSE a = <<>>
  BY DEF Slot
<1>3. IF "write" \in D /\ e["write"] # NoSeq THEN b = <<e["write"]>> ELSE b = <<>>
  BY DEF Slot
<1> HIDE DEF a, b
<1>4. Fired(e, D) = a \o b BY DEF Fired, a, b
<1>5. a \o b \in Seq(Seqs) BY <1>1
<1>6. ASSUME a = <<e["read"]>> PROVE InHand(a \o b, e["read"])
  <2>1. 1 \in 1..Len(a \o b) /\ (a \o b)[1] = e["read"] BY <1>1, <1>6
  <2> QED BY <2>1 DEF InHand
<1>7. ASSUME b = <<e["write"]>> PROVE InHand(a \o b, e["write"])
  <2>1. /\ Len(a) + 1 \in 1..Len(a \o b)
        /\ (a \o b)[Len(a) + 1] = e["write"]
    BY <1>1, <1>7
  <2> QED BY <2>1 DEF InHand
<1>8. ASSUME NEW i \in 1..Len(a \o b)
      PROVE  \/ a = <<e["read"]>> /\ i = 1 /\ (a \o b)[i] = e["read"]
             \/ b = <<e["write"]>> /\ i = Len(a) + 1 /\ (a \o b)[i] = e["write"]
  <2>1. Len(a) \in Nat /\ Len(b) \in Nat /\ Len(a \o b) = Len(a) + Len(b) BY <1>1
  <2>2. CASE i \in 1..Len(a)
    <3>1. a = <<e["read"]>> /\ Len(a) = 1 BY <1>2, <2>2
    <3>2. (a \o b)[i] = a[i] BY <1>1, <2>2
    <3> QED BY <2>2, <3>1, <3>2
  <2>3. CASE i \notin 1..Len(a)
    <3>1. b # <<>> BY <2>1, <2>3
    <3>2. b = <<e["write"]>> /\ Len(b) = 1 BY <1>3, <3>1
    <3>3. i = Len(a) + 1 BY <2>1, <2>3, <3>2
    <3>4. (a \o b)[i] = b[1] BY <1>1, <3>2, <3>3
    <3> QED BY <3>2, <3>3, <3>4
  <2> QED BY <2>2, <2>3
<1>9. \A s : InHand(a \o b, s) => \E d \in Dirs : d \in D /\ e[d] = s /\ s # NoSeq
  BY <1>2, <1>3, <1>8 DEF InHand, Dirs
<1>10. e["read"] # e["write"] => \A i, j \in 1..Len(a \o b) : (a \o b)[i] = (a \o b)[j] => i = j
  BY <1>8
<1>11. \A d \in Dirs : d \in D /\ e[d] # NoSeq => InHand(a \o b, e[d])
  BY <1>2, <1>3, <1>6, <1>7 DEF Dirs
<1> QED BY <1>4, <1>5, <1>9, <1>10, <1>11

(* What a wake does to a park token.                                       *)
LEMMA WokenFacts ==
  ASSUME TypeOK, NEW S, park' = Woken(S)
  PROVE  /\ park' \in [Callers -> 0..2]
         /\ \A c \in Callers : /\ c \notin S => park'[c] = park[c]
                               /\ park'[c] = 2 => park[c] = 2 /\ c \notin S
                               /\ c \in S /\ park[c] = 0 => park'[c] = 1
                               /\ park[c] = 1 => park'[c] = 1
BY DEF TypeOK, Woken

LEMMA InitInv == Init => IInv
<1> SUFFICES ASSUME Init PROVE IInv OBVIOUS
<1>1. TypeOK
  <2>1. loop \in LoopState /\ ep \in [Dirs -> {NoSeq} \cup Seqs] /\ kernel \subseteq Armed(ep)
    BY IdleType, NoSlotsType DEF Init
  <2>2. token \in [flag : BOOLEAN, waking : BOOLEAN, waiters : SUBSET Callers, limited : BOOLEAN]
    BY DEF Init
  <2>3. pc \in [Callers -> {"idle", "begin", "claim", "unlink"} \cup InWait]
        /\ park \in [Callers -> 0..2] /\ mine \in [Callers -> {NoSeq} \cup Seqs]
    BY DEF Init
  <2> QED BY <2>1, <2>2, <2>3 DEF Init, TypeOK
<1>2. Calls BY DEF Init, Calls, Idle
<1>3. Entries BY DEF Init, Entries
<1>4. Registered BY DEF Init, Registered, InWait, InPark
<1>5. Owned /\ WokenOnce /\ Serving BY DEF Init, Owned, WokenOnce, Serving, Idle
<1>6. Stopping /\ Listed BY DEF Init, Stopping, StopIsSeen, Listed, Idle
<1>7. Once BY DEF Init, Once, Idle, NoSlots
<1> QED BY <1>1, <1>2, <1>3, <1>4, <1>5, <1>6, <1>7 DEF IInv

LEMMA CallInv == ASSUME IInv, NEW c \in Callers, Call(c) PROVE IInv'
<1>a. /\ pc[c] = "idle" /\ pc' = [pc EXCEPT ![c] = IF IsTask(c) THEN "claim" ELSE "begin"]
      /\ stop \in {"no", "done"}
      /\ UNCHANGED <<limited, park, fired, mine, table, ep, kernel, stop, nudged, token>>
  BY DEF Call, InitMuFree, At, Goto
<1>b. \/ UNCHANGED <<loop, stopping>>
      \/ /\ loop = Idle /\ loop' = [Idle EXCEPT !.alive = TRUE] /\ stopping' = FALSE
         /\ loop'.hand = loop.hand /\ loop'.batch = loop.batch /\ loop'.wakes = loop.wakes
                /\ loop.wakes = {}
         /\ ~loop'.last /\ loop'.alive
  BY DEF Call, Up, IInv, Stopping, Idle
<1>c. loop' \in LoopState /\ loop'.hand = loop.hand /\ loop'.batch = loop.batch
          /\ loop'.wakes = loop.wakes
  BY <1>b, IdleType DEF IInv, TypeOK
<1>1. TypeOK'
  <2>1. pc' \in [Callers -> {"idle", "begin", "claim", "unlink"} \cup InWait]
    BY <1>a DEF IInv, TypeOK
  <2>2. stopping' \in BOOLEAN BY <1>b DEF IInv, TypeOK
  <2> QED BY <1>a, <1>c, <2>1, <2>2 DEF IInv, TypeOK
<1>2. Calls' BY <1>a, <1>c DEF IInv, Calls, InWait, Awoken
<1>3. Entries' BY <1>a, <1>c DEF IInv, Entries, InWait
<1>4. Registered' BY <1>a, <1>c DEF IInv, Registered, InWait, InPark, Awoken, HasEntry
<1>5. Owned' BY <1>a, <1>c DEF IInv, Owned, InWait
<1>6. WokenOnce' BY <1>a, <1>c DEF IInv, WokenOnce, InPark, Unwoken
<1>7. Once' BY <1>a, <1>c DEF IInv, Once
<1>8. Serving' BY <1>a, <1>c DEF IInv, Serving, CoveredNow
<1>9. Stopping' BY <1>a, <1>c, <1>b DEF IInv, Stopping, StopIsSeen
<1>10. Listed' BY <1>a, <1>c DEF IInv, Listed, Awoken
<1> QED BY <1>1, <1>2, <1>3, <1>4, <1>5, <1>6, <1>7, <1>8, <1>9, <1>10 DEF IInv

LEMMA BeginInv == ASSUME IInv, NEW c \in Callers, Begin(c) PROVE IInv'
<1>a. /\ pc[c] = "begin" /\ (pc' = [pc EXCEPT ![c] = "claim"] \/ pc' = [pc EXCEPT ![c] = "idle"])
      /\ limited' = limited \/ limited' = limited \cup {c}
      /\ UNCHANGED <<park, fired, mine, table, ep, kernel, loop, stop, stopping, nudged, token>>
  BY DEF Begin, engineVars, stopVars, At, Goto
<1>1. TypeOK' BY <1>a DEF IInv, TypeOK
<1>2. Calls' BY <1>a DEF IInv, TypeOK, Calls, InWait, Awoken
<1>3. Entries' BY <1>a DEF IInv, TypeOK, Entries, Registration, InWait
<1>4. Registered' BY <1>a DEF IInv, TypeOK, Registered, InWait, InPark, Awoken, HasEntry
<1>5. Owned' BY <1>a DEF IInv, TypeOK, Owned, Registration, InWait
<1>6. WokenOnce' BY <1>a DEF IInv, TypeOK, WokenOnce, LoopState, Registration, InPark, Unwoken
<1>7. Once' BY <1>a DEF IInv, Once
<1>8. Serving' BY <1>a DEF IInv, Serving, CoveredNow
<1>9. Stopping' BY <1>a DEF IInv, Stopping, StopIsSeen
<1>10. Listed' BY <1>a DEF IInv, TypeOK, Listed, Awoken
<1> QED BY <1>1, <1>2, <1>3, <1>4, <1>5, <1>6, <1>7, <1>8, <1>9, <1>10 DEF IInv

LEMMA ClaimInv == ASSUME IInv, NEW c \in Callers, Claim(c) PROVE IInv'
<1>a. /\ mine' = [mine EXCEPT ![c] = NewSeq(c)]
      /\ table' = table \cup {[seq |-> NewSeq(c), owner |-> c, op |-> Kind[c] \in OpKinds,
                               delivered |-> FALSE]}
      /\ ep' = [ep EXCEPT ![Dir[c]] = NewSeq(c)]
      /\ pc' = [pc EXCEPT ![c] = IF IsTask(c) THEN "park" ELSE "link"] /\ pc[c] = "claim"
      /\ kernel' = Armed(ep') /\ \A r \in table : Dir[r.owner] # Dir[c]
      /\ UNCHANGED <<limited, fired, park, loop, stop, stopping, nudged, token>>
  BY DEF Claim, stopVars, At, Goto
<1>b. /\ NewSeq(c) \in Seqs /\ NewSeq(c)[1] = c /\ NewSeq(c) # NoSeq
      /\ \A r \in table : r.seq # NewSeq(c)
      /\ \A d \in Dirs : ep[d] # NewSeq(c)
      /\ ~InHand(loop.hand, NewSeq(c))
  BY FreshSeq, NoSeqIsNone DEF Claim
<1> DEFINE s == NewSeq(c)
           e == [seq |-> s, owner |-> c, op |-> Kind[c] \in OpKinds, delivered |-> FALSE]
<1>c. /\ e \in Registration /\ table' = table \cup {e}
      /\ e.seq = s /\ e.owner = c /\ ~e.delivered /\ (e.op <=> Kind[c] \in OpKinds)
  <2>1. s \in Seqs /\ (Kind[c] \in OpKinds) \in BOOLEAN BY <1>b
  <2>2. table' = table \cup {e} BY <1>a
  <2> HIDE DEF s
  <2> QED BY <2>1, <2>2 DEF Registration
<1>d. mine' = [mine EXCEPT ![c] = s] /\ ep' = [ep EXCEPT ![Dir[c]] = s] /\ s \in Seqs
          /\ s[1] = c /\ s # NoSeq
      /\ Dir \in [Callers -> Dirs]
  BY <1>a, <1>b, IoWaitAssumption
<1>e. ep' \in [Dirs -> {NoSeq} \cup Seqs] /\ ep'[Dir[c]] = s
          /\ \A d \in Dirs \ {Dir[c]} : ep'[d] = ep[d]
  BY <1>d DEF IInv, TypeOK
<1>f. (\A r \in table : r.seq # s) /\ (\A d \in Dirs : ep[d] # s) /\ ~InHand(loop.hand, s)
  BY <1>b DEF s
<1>g. table \subseteq Registration /\ table' \subseteq Registration BY <1>c DEF IInv, TypeOK
<1> HIDE DEF s, e
<1>1. TypeOK'
  <2>1. pc' \in [Callers -> {"idle", "begin", "claim", "unlink"} \cup InWait]
    BY <1>a DEF IInv, TypeOK, InWait
  <2>2. mine' \in [Callers -> {NoSeq} \cup Seqs] BY <1>d DEF IInv, TypeOK
  <2> QED BY <1>a, <1>e, <1>g, <2>1, <2>2 DEF IInv, TypeOK
<1>2. Calls' BY <1>a, <1>c, <1>d DEF IInv, Calls, InWait, Awoken
<1>3. Entries' BY <1>a, <1>c, <1>d DEF IInv, TypeOK, Entries, InWait
<1>4. Registered' BY <1>a, <1>c, <1>d DEF IInv, TypeOK, Registered, InPark, Awoken, HasEntry
<1>5. Owned' BY <1>a, <1>c, <1>d DEF IInv, TypeOK, Owned, InWait
<1>6. WokenOnce' BY <1>a, <1>c, <1>d DEF IInv, TypeOK, WokenOnce, InPark, Unwoken, Suspended
<1>7. Once' BY <1>a, <1>c, <1>d, <1>e, <1>f DEF IInv, Once
<1>8. Serving'
  <2> SUFFICES ASSUME stop = "no", NEW r \in table', ~r.delivered PROVE CoveredNow(r)'
    BY <1>a DEF Serving
  <2>1. CASE r = e BY <1>a, <1>c, <1>d, <1>e, <2>1 DEF CoveredNow, Armed
  <2>2. CASE r \in table
    <3>1. CoveredNow(r) BY <2>2 DEF IInv, Serving
    <3>2. Dir[r.owner] \in Dirs \ {Dir[c]} BY <1>a, <1>d, <1>g, <2>2 DEF Registration
    <3>3. r.seq # NoSeq BY <1>g, <2>2, NoSeqIsNone DEF Registration
    <3> QED BY <1>a, <1>e, <3>1, <3>2, <3>3 DEF CoveredNow, Armed
  <2> QED BY <1>c, <2>1, <2>2
<1>9. Stopping' BY <1>a, <1>c, <1>d DEF IInv, Stopping, StopIsSeen
<1>10. Listed' BY <1>a, <1>c, <1>d DEF IInv, Listed, Awoken, Calls
<1> QED BY <1>1, <1>2, <1>3, <1>4, <1>5, <1>6, <1>7, <1>8, <1>9, <1>10 DEF IInv

LEMMA RefuseInv == ASSUME IInv, NEW c \in Callers, Refuse(c) PROVE IInv'
<1>1. TypeOK' BY DEF IInv, TypeOK, Refuse, engineVars, stopVars, Goto
<1>2. Calls' BY DEF IInv, Calls, Refuse, engineVars, At, Goto, InWait, Awoken
<1>3. Entries' BY DEF IInv, Entries, Refuse, At, Goto, InWait
<1>4. Registered'
  BY DEF IInv, Registered, Refuse, engineVars, Goto, InWait, InPark, Awoken, HasEntry
<1>5. Owned' BY DEF IInv, Owned, Refuse, stopVars, At, Goto, InWait
<1>6. WokenOnce' BY DEF IInv, WokenOnce, Refuse, engineVars, stopVars, At, Goto, InPark, Unwoken
<1>7. Once' BY DEF IInv, Once, Refuse, engineVars
<1>8. Serving' BY DEF IInv, Serving, Refuse, engineVars, stopVars, CoveredNow
<1>9. Stopping' BY DEF IInv, Stopping, Refuse, engineVars, stopVars, StopIsSeen
<1>10. Listed' BY DEF IInv, Listed, Refuse, Goto, Awoken
<1> QED BY <1>1, <1>2, <1>3, <1>4, <1>5, <1>6, <1>7, <1>8, <1>9, <1>10 DEF IInv

LEMMA LinkInv == ASSUME IInv, NEW c \in Callers, Link(c) PROVE IInv'
<1>a. /\ pc[c] = "link" /\ pc' = [pc EXCEPT ![c] = "park"] /\ ~token.waking
      /\ token' = token \/ (~token.flag /\ c \in WithToken
             /\ token' = [token EXCEPT !.waiters = @ \cup {c}])
      /\ UNCHANGED <<limited, park, fired, mine, table, ep, kernel, loop, stop, stopping, nudged>>
  BY DEF Link, engineVars, stopVars, At, Goto
<1>1. TypeOK' BY <1>a DEF IInv, TypeOK, InWait
<1>2. Calls' BY <1>a DEF IInv, TypeOK, Calls, InWait, Awoken
<1>3. Entries' BY <1>a DEF IInv, Entries, InWait
<1>4. Registered' BY <1>a DEF IInv, TypeOK, Registered, InPark, Awoken, HasEntry, Calls
<1>5. Owned' BY <1>a DEF IInv, Owned, InWait
<1>6. WokenOnce' BY <1>a DEF IInv, WokenOnce, InPark, Unwoken
<1>7. Once' BY <1>a DEF IInv, Once
<1>8. Serving' BY <1>a DEF IInv, Serving, CoveredNow
<1>9. Stopping' BY <1>a DEF IInv, Stopping, StopIsSeen
<1>10. Listed' BY <1>a DEF IInv, TypeOK, Listed, Awoken, Calls
<1> QED BY <1>1, <1>2, <1>3, <1>4, <1>5, <1>6, <1>7, <1>8, <1>9, <1>10 DEF IInv

LEMMA ParkInv == ASSUME IInv, NEW c \in Callers, Park(c) PROVE IInv'
<1>a. /\ pc[c] = "park"
      /\ \/ park[c] = 1 /\ park' = [park EXCEPT ![c] = 0] /\ pc' = [pc EXCEPT ![c] = "check"]
         \/ park[c] # 1 /\ park' = [park EXCEPT ![c] = 2] /\ pc' = [pc EXCEPT ![c] = "parked"]
      /\ UNCHANGED <<limited, fired, mine, table, ep, kernel, loop, stop, stopping, nudged, token>>
  BY DEF Park, engineVars, stopVars, At, Goto
<1>1. TypeOK' BY <1>a DEF IInv, TypeOK, InWait
<1>2. Calls' BY <1>a DEF IInv, TypeOK, Calls, InWait, Awoken
<1>3. Entries' BY <1>a DEF IInv, TypeOK, Entries, Registration, InWait
<1>4. Registered' BY <1>a, NoSeqIsNone DEF IInv, TypeOK, Registered, InPark, Awoken, HasEntry, Calls
<1>5. Owned' BY <1>a DEF IInv, TypeOK, Owned, Registration, InWait
<1>6. WokenOnce'
  <2> SUFFICES ASSUME stop = "no" PROVE WokenOnce' BY <1>a DEF WokenOnce
  <2>1. \A x \in Callers : x # c => (Unwoken(x)' <=> Unwoken(x)) /\ (InPark(x)' <=> InPark(x))
            /\ park'[x] = park[x]
    BY <1>a DEF IInv, TypeOK, Unwoken, InPark
  <2>2. Unwoken(c) => Unwoken(c)' BY <1>a DEF IInv, TypeOK, Unwoken
  <2>3. ~InPark(c)' => park'[c] = 0 BY <1>a DEF IInv, TypeOK, InPark
  <2>4. UNCHANGED <<table, loop, stop>> BY <1>a
  <2> QED BY <2>1, <2>2, <2>3, <2>4 DEF IInv, TypeOK, WokenOnce, Registration, LoopState
<1>7. Once' BY <1>a DEF IInv, Once
<1>8. Serving' BY <1>a DEF IInv, Serving, CoveredNow
<1>9. Stopping' BY <1>a DEF IInv, Stopping, StopIsSeen
<1>10. Listed' BY <1>a DEF IInv, TypeOK, Listed, Awoken
<1> QED BY <1>1, <1>2, <1>3, <1>4, <1>5, <1>6, <1>7, <1>8, <1>9, <1>10 DEF IInv

LEMMA UnparkedInv == ASSUME IInv, NEW c \in Callers, Unparked(c) PROVE IInv'
<1>1. TypeOK' BY DEF IInv, TypeOK, Unparked, engineVars, stopVars, Goto, InWait
<1>2. Calls' BY DEF IInv, Calls, Unparked, engineVars, Goto, InWait, Awoken
<1>3. Entries' BY DEF IInv, Entries, Unparked, Goto, InWait
<1>4. Registered'
  BY DEF IInv, TypeOK, Registered, Unparked, engineVars, At, Goto, InPark, Awoken, HasEntry
<1>5. Owned' BY DEF IInv, Owned, Unparked, stopVars, Goto, InWait
<1>6. WokenOnce'
  BY DEF IInv, TypeOK, WokenOnce, Unparked, engineVars, stopVars, At, Goto, InPark, Unwoken
<1>7. Once' BY DEF IInv, Once, Unparked, engineVars
<1>8. Serving' BY DEF IInv, Serving, Unparked, engineVars, stopVars, CoveredNow
<1>9. Stopping' BY DEF IInv, Stopping, Unparked, engineVars, stopVars, StopIsSeen
<1>10. Listed' BY DEF IInv, TypeOK, Listed, Unparked, Goto, Awoken
<1> QED BY <1>1, <1>2, <1>3, <1>4, <1>5, <1>6, <1>7, <1>8, <1>9, <1>10 DEF IInv

LEMMA ParkTimeoutInv == ASSUME IInv, NEW c \in Callers, ParkTimeout(c) PROVE IInv'
<1>a. /\ pc[c] = "parked" /\ park[c] = 2 /\ ~IsTask(c)
      /\ park' = [park EXCEPT ![c] = 0] /\ pc' = [pc EXCEPT ![c] = "late"]
      /\ UNCHANGED <<limited, fired, mine, table, ep, kernel, loop, stop, stopping, nudged, token>>
  BY DEF ParkTimeout, engineVars, stopVars, At, Goto
<1>1. TypeOK' BY <1>a DEF IInv, TypeOK, InWait
<1>2. Calls' BY <1>a DEF IInv, TypeOK, Calls, InWait, Awoken
<1>3. Entries' BY <1>a DEF IInv, Entries, InWait
<1>4. Registered' BY <1>a DEF IInv, TypeOK, Registered, InPark, Awoken, HasEntry
<1>5. Owned' BY <1>a DEF IInv, Owned, InWait
<1>6. WokenOnce' BY <1>a DEF IInv, WokenOnce, InPark, Unwoken, Suspended, Calls
<1>7. Once' BY <1>a DEF IInv, Once
<1>8. Serving' BY <1>a DEF IInv, Serving, CoveredNow
<1>9. Stopping' BY <1>a DEF IInv, Stopping, StopIsSeen
<1>10. Listed' BY <1>a DEF IInv, Listed, Awoken
<1> QED BY <1>1, <1>2, <1>3, <1>4, <1>5, <1>6, <1>7, <1>8, <1>9, <1>10 DEF IInv

LEMMA CollectInv == ASSUME IInv, NEW c \in Callers, Collect(c) PROVE IInv'
<1>a. /\ pc[c] \in {"check", "late"} /\ ~IsTask(c) /\ c \in fired
      /\ table' = {r \in table : r.seq # mine[c]} /\ pc' = [pc EXCEPT ![c] = "unlink"]
      /\ UNCHANGED <<limited, park, fired, mine, ep, kernel, loop, stop, stopping, nudged, token>>
  BY DEF Collect, engineVars, stopVars, At, Goto, Of
<1>1. TypeOK' BY <1>a DEF IInv, TypeOK
<1>2. Calls' BY <1>a DEF IInv, Calls, Awoken
<1>3. Entries' BY <1>a DEF IInv, Entries
<1>4. Registered'
  BY <1>a, NoSeqIsNone
     DEF IInv, TypeOK, Registered, Registration, InPark, Awoken, HasEntry, Calls
<1>5. Owned' BY <1>a DEF IInv, Owned
<1>6. WokenOnce' BY <1>a DEF IInv, WokenOnce, InPark, Unwoken
<1>7. Once' BY <1>a DEF IInv, Once
<1>8. Serving' BY <1>a DEF IInv, Serving, CoveredNow
<1>9. Stopping' BY <1>a DEF IInv, Stopping, StopIsSeen
<1>10. Listed' BY <1>a DEF IInv, Listed, Awoken
<1> QED BY <1>1, <1>2, <1>3, <1>4, <1>5, <1>6, <1>7, <1>8, <1>9, <1>10 DEF IInv

LEMMA GiveUpInv == ASSUME IInv, NEW c \in Callers, GiveUp(c) PROVE IInv'
<1>a. /\ pc[c] \in {"check", "late"} /\ ~IsTask(c) /\ c \notin fired
      /\ table' = {r \in table : r.seq # mine[c]} /\ pc' = [pc EXCEPT ![c] = "unlink"]
      /\ ep' = [ep EXCEPT ![Dir[c]] = IF @ = mine[c] THEN NoSeq ELSE @]
      /\ kernel' = (IF ep' = ep THEN kernel ELSE Armed(ep'))
      /\ UNCHANGED <<limited, park, fired, mine, loop, stop, stopping, nudged, token>>
  BY DEF GiveUp, stopVars, At, Goto, MayGiveUp, Deregistered, Of
<1>1. TypeOK' BY <1>a, IoWaitAssumption DEF IInv, TypeOK, IsTask, InWait, Dirs, LoopState, Armed
<1>2. Calls' BY <1>a DEF IInv, Calls, Awoken
<1>3. Entries' BY <1>a DEF IInv, Entries
<1>4. Registered'
  BY <1>a, NoSeqIsNone
     DEF IInv, TypeOK, Registered, Registration, InWait, InPark, Awoken, HasEntry, Calls
<1>5. Owned' BY <1>a DEF IInv, Owned
<1>6. WokenOnce' BY <1>a DEF IInv, WokenOnce, InPark, Unwoken
<1>7. Once' BY <1>a, NoSeqIsNone, IoWaitAssumption DEF IInv, TypeOK, Once, Registration
<1>8. Serving' BY <1>a, IoWaitAssumption, NoSeqIsNone DEF IInv, TypeOK, Serving, CoveredNow, Armed
<1>9. Stopping' BY <1>a DEF IInv, Stopping, StopIsSeen
<1>10. Listed' BY <1>a DEF IInv, Listed, Awoken
<1> QED BY <1>1, <1>2, <1>3, <1>4, <1>5, <1>6, <1>7, <1>8, <1>9, <1>10 DEF IInv

LEMMA ParkAgainInv == ASSUME IInv, NEW c \in Callers, ParkAgain(c) PROVE IInv'
<1>a. /\ pc[c] = "check" /\ ~IsTask(c) /\ c \notin fired /\ ~(c \in WithToken /\ token.flag)
      /\ pc' = [pc EXCEPT ![c] = "park"]
      /\ UNCHANGED <<limited, park, fired, mine, table, ep, kernel, loop, stop, stopping, nudged,
                     token>>
  BY DEF ParkAgain, engineVars, stopVars, At, Goto
<1>1. TypeOK' BY <1>a DEF IInv, TypeOK, InWait
<1>2. Calls' BY <1>a DEF IInv, Calls, InWait, Awoken
<1>3. Entries' BY <1>a DEF IInv, Entries, InWait
<1>4. Registered' BY <1>a DEF IInv, TypeOK, Registered, InPark, Awoken, HasEntry
<1>5. Owned' BY <1>a DEF IInv, Owned, InWait
<1>6. WokenOnce' BY <1>a DEF IInv, WokenOnce, InPark, Unwoken
<1>7. Once' BY <1>a DEF IInv, Once
<1>8. Serving' BY <1>a DEF IInv, Serving, CoveredNow
<1>9. Stopping' BY <1>a DEF IInv, Stopping, StopIsSeen
<1>10. Listed' BY <1>a DEF IInv, Listed, Awoken, Calls
<1> QED BY <1>1, <1>2, <1>3, <1>4, <1>5, <1>6, <1>7, <1>8, <1>9, <1>10 DEF IInv

LEMMA UnlinkInv == ASSUME IInv, NEW c \in Callers, Unlink(c) PROVE IInv'
<1>1. TypeOK' BY DEF IInv, TypeOK, Unlink, engineVars, stopVars, Goto
<1>2. Calls' BY DEF IInv, TypeOK, Calls, Unlink, engineVars, Goto, Awoken
<1>3. Entries' BY DEF IInv, Entries, Unlink, At, Goto, InWait
<1>4. Registered'
  BY DEF IInv, TypeOK, Registered, Unlink, engineVars, Goto, InWait, InPark, Awoken, HasEntry
<1>5. Owned' BY DEF IInv, Owned, Unlink, stopVars, At, Goto, InWait
<1>6. WokenOnce' BY DEF IInv, WokenOnce, Unlink, engineVars, stopVars, At, Goto, InPark, Unwoken
<1>7. Once' BY DEF IInv, Once, Unlink, engineVars
<1>8. Serving' BY DEF IInv, Serving, Unlink, engineVars, stopVars, CoveredNow
<1>9. Stopping' BY DEF IInv, Stopping, Unlink, engineVars, stopVars, StopIsSeen
<1>10. Listed' BY DEF IInv, Listed, Unlink, Goto, Awoken
<1> QED BY <1>1, <1>2, <1>3, <1>4, <1>5, <1>6, <1>7, <1>8, <1>9, <1>10 DEF IInv

LEMMA ResumeInv == ASSUME IInv, NEW c \in Callers, Resume(c) PROVE IInv'
<1>a. /\ pc[c] = "check" /\ IsTask(c) /\ pc' = [pc EXCEPT ![c] = "idle"]
      /\ table' = (IF Kind[c] = "taskop" THEN table \ {r \in table : r.owner = c /\ r.op}
                   ELSE table)
      /\ mine' = [mine EXCEPT ![c] = NoSeq]
      /\ UNCHANGED <<limited, park, fired, ep, kernel, loop, stop, stopping, nudged, token>>
  BY DEF Resume, engineVars, stopVars, At, Goto
<1>1. TypeOK' BY <1>a DEF IInv, TypeOK
<1>2. Calls' BY <1>a DEF IInv, Calls, Awoken
<1>3. Entries' BY <1>a DEF IInv, Entries, Suspended
<1>4. Registered'
  BY <1>a, NoSeqIsNone
     DEF IInv, TypeOK, Registered, Registration, InPark, Awoken, HasEntry, Entries, Calls
<1>5. Owned'
  BY <1>a, IoWaitAssumption
     DEF IInv, Owned, IsTask, Suspended, Entries, WokenOnce, Unwoken, TaskKinds, OpKinds
<1>6. WokenOnce' BY <1>a DEF IInv, WokenOnce, InPark, Unwoken
<1>7. Once' BY <1>a DEF IInv, Once
<1>8. Serving' BY <1>a DEF IInv, Serving, CoveredNow
<1>9. Stopping' BY <1>a DEF IInv, Stopping, StopIsSeen
<1>10. Listed' BY <1>a DEF IInv, Listed, Awoken
<1> QED BY <1>1, <1>2, <1>3, <1>4, <1>5, <1>6, <1>7, <1>8, <1>9, <1>10 DEF IInv

LEMMA CloseInv == ASSUME IInv, Close PROVE IInv'
<1>1. TypeOK' BY NoSlotsType DEF IInv, TypeOK, Close, callVars, stopVars
<1>2. Calls' BY DEF IInv, Calls, Close, callVars, At, InWait
<1>3. Entries' BY DEF IInv, Entries, Close, callVars
<1>4. Registered' BY DEF Registered, Close, callVars, At, InWait, InPark
<1>5. Owned' BY DEF IInv, Owned, Close, callVars, stopVars
<1>6. WokenOnce' BY DEF IInv, WokenOnce, Close, callVars, stopVars, InPark, Unwoken
<1>7. Once' BY NoSeqIsNone DEF IInv, TypeOK, Once, Close, Registration, NoSlots
<1>8. Serving' BY DEF IInv, TypeOK, Serving, Close, stopVars, At, Registration, Owned, InWait
<1>9. Stopping' BY DEF IInv, Stopping, Close, stopVars, StopIsSeen
<1>10. Listed' BY DEF IInv, Listed, Close, callVars, Awoken
<1> QED BY <1>1, <1>2, <1>3, <1>4, <1>5, <1>6, <1>7, <1>8, <1>9, <1>10 DEF IInv

LEMMA PollInv ==
  ASSUME IInv, NEW D \in SUBSET Dirs, NEW events \in SUBSET {"fd", "wake"}, Poll(D, events)
  PROVE  IInv'
<1>1. TypeOK'
  BY DEF IInv, TypeOK, Poll, BatchDone, callVars, engineVars, stopVars, At, Goto, InWait, Dirs,
         LoopState
<1>2. Calls' BY DEF IInv, Calls, Poll, callVars, Awoken
<1>3. Entries' BY DEF IInv, Entries, Poll, callVars
<1>4. Registered' BY DEF IInv, Registered, Poll, callVars, InPark, Awoken, HasEntry
<1>5. Owned' BY DEF IInv, Owned, Poll, callVars, stopVars
<1>6. WokenOnce' BY DEF IInv, WokenOnce, Poll, callVars, stopVars, InPark, Unwoken
<1>7. Once' BY DEF IInv, Once, Poll
<1>8. Serving' BY DEF IInv, Serving, Poll, BatchDone, stopVars, CoveredNow
<1>9. Stopping' BY DEF IInv, Stopping, Poll, stopVars, StopIsSeen
<1>10. Listed' BY DEF IInv, Listed, Poll, callVars, Awoken
<1> QED BY <1>1, <1>2, <1>3, <1>4, <1>5, <1>6, <1>7, <1>8, <1>9, <1>10 DEF IInv

LEMMA TakeNudgeInv == ASSUME IInv, TakeNudge PROVE IInv'
<1>1. TypeOK'
  BY DEF IInv, TypeOK, TakeNudge, callVars, engineVars, stopVars, At, Goto, InWait, Dirs, LoopState
<1>2. Calls' BY DEF IInv, Calls, TakeNudge, callVars, Awoken
<1>3. Entries' BY DEF IInv, Entries, TakeNudge, callVars
<1>4. Registered' BY DEF IInv, Registered, TakeNudge, callVars, InPark, Awoken, HasEntry
<1>5. Owned' BY DEF IInv, Owned, TakeNudge, callVars
<1>6. WokenOnce' BY DEF IInv, WokenOnce, TakeNudge, callVars, InPark, Unwoken
<1>7. Once' BY DEF IInv, Once, TakeNudge
<1>8. Serving' BY DEF IInv, Serving, TakeNudge, CoveredNow
<1>9. Stopping' BY DEF IInv, Stopping, TakeNudge, StopIsSeen, Idle
<1>10. Listed' BY DEF IInv, Listed, TakeNudge, callVars, Awoken
<1> QED BY <1>1, <1>2, <1>3, <1>4, <1>5, <1>6, <1>7, <1>8, <1>9, <1>10 DEF IInv

LEMMA TakeEventInv == ASSUME IInv, TakeEvent PROVE IInv'
<1>a. /\ "fd" \in loop.batch /\ loop.hand = <<>> /\ loop.wakes = {}
      /\ ep' = [d \in Dirs |-> IF d \in loop.dirs THEN NoSeq ELSE ep[d]]
      /\ kernel' = (IF ep = NoSlots THEN kernel ELSE Armed(ep'))
      /\ UNCHANGED <<pc, limited, fired, mine, park, table, stop, stopping, nudged, token>>
  BY DEF TakeEvent, callVars, stopVars
<1>b. /\ Fired(ep, loop.dirs) \in Seq(Seqs)
      /\ \A d \in Dirs : d \in loop.dirs /\ ep[d] # NoSeq => InHand(Fired(ep, loop.dirs), ep[d])
      /\ \A s : InHand(Fired(ep, loop.dirs), s) =>
           \E d \in Dirs : d \in loop.dirs /\ ep[d] = s /\ s # NoSeq
  BY FiredHas DEF IInv, TypeOK
<1>c. /\ loop' \in LoopState /\ loop'.hand = Fired(ep, loop.dirs) /\ loop'.wakes = {}
      /\ loop'.alive = loop.alive /\ loop'.last = loop.last
  BY <1>a, <1>b DEF TakeEvent, IInv, TypeOK, LoopState
<1>1. TypeOK' BY <1>a, <1>c, NoSlotsType DEF IInv, TypeOK, InWait, Dirs, LoopState, Armed, NoSlots
<1>2. Calls' BY <1>a, <1>c DEF IInv, Calls, Awoken
<1>3. Entries' BY <1>a, <1>c DEF IInv, Entries
<1>4. Registered' BY <1>a, <1>c DEF IInv, Registered, InPark, Awoken, HasEntry
<1>5. Owned' BY <1>a, <1>c DEF IInv, Owned
<1>6. WokenOnce' BY <1>a, <1>c DEF IInv, WokenOnce, InPark, Unwoken
<1>7. Once'
  <2>1. \A i, j \in 1..Len(loop'.hand) : loop'.hand[i] = loop'.hand[j] => i = j
    <3>1. CASE ep["read"] # ep["write"] BY <1>c, <3>1, FiredHas DEF IInv, TypeOK
    <3>2. CASE ep["read"] = ep["write"]
      <4>1. ep["read"] = NoSeq /\ ep["write"] = NoSeq BY <3>2 DEF IInv, Once, Dirs
      <4>2. Fired(ep, loop.dirs) = <<>> BY <4>1 DEF Fired, Slot
      <4> QED BY <1>c, <4>2
    <3> QED BY <3>1, <3>2
  <2>2. \A d \in Dirs : ep'[d] # NoSeq => ep'[d] = ep[d] /\ d \notin loop.dirs BY <1>a
  <2>3. \A d \in Dirs : ep'[d] # NoSeq => ~InHand(loop'.hand, ep'[d])
    BY <1>b, <1>c, <2>2 DEF IInv, Once
  <2>4. \A r \in table : r.delivered => ~InHand(loop'.hand, r.seq) /\ \A d \in Dirs : ep'[d] # r.seq
    BY <1>b, <1>c, <2>2, NoSeqIsNone DEF IInv, TypeOK, Registration, Once
  <2>5. \A d, e \in Dirs : ep'[d] = ep'[e] /\ ep'[d] # NoSeq => d = e
    BY <2>2 DEF IInv, Once
  <2> QED BY <1>a, <2>1, <2>3, <2>4, <2>5 DEF Once
<1>8. Serving'
  <2> SUFFICES ASSUME stop = "no", NEW r \in table, ~r.delivered PROVE CoveredNow(r)'
    BY <1>a DEF Serving
  <2>1. CoveredNow(r) BY DEF IInv, Serving
  <2>2. r.seq # NoSeq /\ Dir[r.owner] \in Dirs
    BY NoSeqIsNone, IoWaitAssumption DEF IInv, TypeOK, Registration
  <2>3. ep[Dir[r.owner]] = r.seq BY <1>a, <2>1 DEF CoveredNow, InHand
  <2>4. ep # NoSlots BY <2>2, <2>3 DEF NoSlots
  <2>5. CASE Dir[r.owner] \in loop.dirs BY <1>b, <1>c, <2>2, <2>3, <2>5 DEF CoveredNow
  <2>6. CASE Dir[r.owner] \notin loop.dirs BY <1>a, <2>2, <2>3, <2>4, <2>6 DEF CoveredNow, Armed
  <2> QED BY <2>5, <2>6
<1>9. Stopping' BY <1>a, <1>c DEF IInv, Stopping, StopIsSeen, Idle
<1>10. Listed' BY <1>a, <1>c DEF IInv, Listed, Awoken
<1> QED BY <1>1, <1>2, <1>3, <1>4, <1>5, <1>6, <1>7, <1>8, <1>9, <1>10 DEF IInv

LEMMA DeliverInv == ASSUME IInv, Deliver PROVE IInv'
<1>a. /\ loop.hand # <<>> /\ loop.wakes = {} /\ loop.hand \in Seq(Seqs) /\ loop \in LoopState
      /\ UNCHANGED <<pc, limited, mine, ep, kernel, stop, stopping, nudged, token>>
  BY DEF Deliver, stopVars, IInv, TypeOK, LoopState
<1> DEFINE s == Head(loop.hand)
           threads == {r.owner : r \in {x \in Of(s) : ~Suspended(x)}}
           tasks == {r.owner : r \in {x \in Of(s) : Suspended(x)}}
           dead == {r \in table : r.seq = s}
           kept == {[r EXCEPT !.delivered = TRUE] : r \in {x \in dead : x.op}}
<1>b. /\ fired' = fired \cup threads /\ park' = Woken(threads)
      /\ loop' = [loop EXCEPT !.hand = Tail(@), !.wakes = tasks]
  BY DEF Deliver
<1>c. table' = (table \ dead) \cup kept BY DEF Deliver, Of, Delivered
<1>d. /\ threads \subseteq Callers /\ tasks \subseteq Callers
      /\ \A c \in threads : ~IsTask(c) /\ \E r \in table : r.seq = s /\ r.owner = c
      /\ \A c \in tasks : IsTask(c) /\ \E r \in table : r.seq = s /\ r.owner = c
      /\ \A r \in table : r.seq = s => r.owner \in IF IsTask(r.owner) THEN tasks ELSE threads
  BY DEF IInv, TypeOK, Registration, Of, Suspended
<1>e. s \in Seqs /\ Tail(loop.hand) \in Seq(Seqs) BY <1>a
<1>f. /\ \A r \in table' : \/ r \in table /\ r.seq # s
                           \/ r.delivered /\ r.seq = s /\ r.op /\ r \in Registration
                              /\ \E q \in table : q.seq = s /\ q.owner = r.owner /\ q.op
      /\ \A r \in table : r.seq # s => r \in table'
  <2>1. \A q \in dead : q.op =>
          LET n == [q EXCEPT !.delivered = TRUE]
          IN  n \in Registration /\ n.delivered /\ n.op /\ n.seq = s /\ n.owner = q.owner
    BY DEF IInv, TypeOK, Registration
  <2> QED BY <1>c, <2>1
<1>g. loop' \in LoopState /\ loop'.wakes = tasks /\ loop'.hand = Tail(loop.hand)
          /\ loop'.batch = loop.batch
      /\ loop'.alive = loop.alive /\ loop'.last = loop.last
  BY <1>a, <1>b, <1>d, <1>e DEF LoopState
<1>h. /\ park' \in [Callers -> 0..2]
      /\ \A c \in Callers : /\ c \notin threads => park'[c] = park[c]
                            /\ park'[c] = 2 => park[c] = 2 /\ c \notin threads
                            /\ c \in threads /\ park[c] = 0 => park'[c] = 1
                            /\ park[c] = 1 => park'[c] = 1
  BY <1>b, WokenFacts DEF IInv
<1> HIDE DEF s, threads, tasks, dead, kept
<1>1. TypeOK' BY <1>a, <1>b, <1>d, <1>f, <1>g, <1>h DEF IInv, TypeOK
<1>2. Calls'
  <2>1. \A c \in threads : pc[c] \in InWait BY <1>d DEF IInv, Entries, Suspended
  <2> QED BY <1>a, <1>b, <1>d, <1>g, <1>h, <2>1 DEF IInv, TypeOK, Calls, Awoken
<1>3. Entries' BY <1>a, <1>f DEF IInv, Entries, Suspended
<1>4. Registered'
  <2>1. \A c \in Callers : HasEntry(c) =>
          HasEntry(c)' \/ (mine[c] = s /\ \E r \in table : r.seq = s /\ r.owner = c)
    <3> SUFFICES ASSUME NEW c \in Callers, HasEntry(c), ~HasEntry(c)'
                 PROVE mine[c] = s /\ \E r \in table : r.seq = s /\ r.owner = c
      OBVIOUS
    <3>1. PICK r \in table : r.seq = mine[c] /\ ~r.delivered BY DEF HasEntry
    <3>2. r.seq = s BY <1>a, <1>f, <3>1 DEF HasEntry
    <3>3. r.owner = c
      <4>1. r.seq[1] = r.owner BY DEF IInv, Entries
      <4>2. mine[c] # NoSeq BY <1>e, <3>1, <3>2, NoSeqIsNone
      <4> QED BY <3>1, <4>1, <4>2 DEF IInv, Calls
    <3> QED BY <3>1, <3>2, <3>3
  <2>2. \A c \in Callers : HasEntry(c) => HasEntry(c)' \/ c \in threads \/ c \in tasks
    BY <1>d, <2>1
  <2> QED BY <1>a, <1>b, <1>d, <1>g, <1>h, <2>2 DEF IInv, Registered, InPark, Awoken
<1>5. Owned' BY <1>a, <1>f DEF IInv, Owned
<1>6. WokenOnce'
  <2> SUFFICES ASSUME stop = "no" PROVE WokenOnce' BY <1>a DEF WokenOnce
  <2>1. \A c \in tasks : Unwoken(c)
    <3> SUFFICES ASSUME NEW c \in tasks PROVE Unwoken(c) OBVIOUS
    <3>1. PICK r \in table : r.seq = s /\ r.owner = c /\ IsTask(c) BY <1>d
    <3>2. InHand(loop.hand, s) BY <1>a DEF InHand, s
    <3>3. ~r.delivered BY <3>1, <3>2 DEF IInv, Once
    <3> QED BY <3>1, <3>3 DEF IInv, WokenOnce, Suspended
  <2>2. \A c \in Callers : IsTask(c) => park'[c] = park[c] /\ (Unwoken(c)' <=> Unwoken(c))
    BY <1>a, <1>d, <1>h DEF Unwoken
  <2>3. \A r \in table' : ~r.delivered /\ Suspended(r) =>
                             Unwoken(r.owner)' /\ r.owner \notin loop'.wakes
    <3> SUFFICES ASSUME NEW r \in table', ~r.delivered, IsTask(r.owner)
                 PROVE  Unwoken(r.owner)' /\ r.owner \notin tasks
      BY <1>g DEF Suspended
    <3>1. r \in table /\ r.seq # s /\ r.owner \in Callers BY <1>f DEF IInv, TypeOK, Registration
    <3>2. Unwoken(r.owner)' BY <2>2, <3>1 DEF IInv, WokenOnce, Suspended
    <3>3. r.owner \notin tasks BY <1>d, <3>1 DEF IInv, Owned
    <3> QED BY <3>2, <3>3
  <2>4. \A c \in loop'.wakes : Unwoken(c)' BY <1>d, <1>g, <2>1, <2>2
  <2>5. \A c \in Callers : IsTask(c) /\ ~InPark(c)' => park'[c] = 0
    BY <1>a, <2>2 DEF IInv, WokenOnce, InPark
  <2> QED BY <1>a, <2>3, <2>4, <2>5 DEF WokenOnce
<1>7. Serving'
  <2> SUFFICES ASSUME stop = "no", NEW r \in table', ~r.delivered PROVE CoveredNow(r)'
    BY <1>a DEF Serving
  <2>1. r \in table /\ r.seq # s BY <1>f
  <2>2. InHand(loop.hand, r.seq) => InHand(loop'.hand, r.seq)
    BY <1>a, <1>g, <2>1, TailHas DEF s
  <2> QED BY <1>a, <1>g, <2>1, <2>2 DEF IInv, Serving, CoveredNow
<1>8. Stopping' BY <1>a, <1>g DEF IInv, Stopping, StopIsSeen, Idle
<1>9. Once'
  <2>1. \A i, j \in 1..Len(loop.hand) : loop.hand[i] = loop.hand[j] => i = j BY DEF IInv, Once
  <2>2. /\ \A i, j \in 1..Len(loop'.hand) : loop'.hand[i] = loop'.hand[j] => i = j
        /\ ~InHand(loop'.hand, s)
        /\ \A x : InHand(loop'.hand, x) => InHand(loop.hand, x)
    BY <1>a, <1>g, <2>1, TailOnly DEF s
  <2>3. InHand(loop.hand, s) BY <1>a DEF InHand, s
  <2>4. \A d \in Dirs : ep[d] # s BY <1>e, <2>3, NoSeqIsNone DEF IInv, Once
  <2> QED BY <1>a, <1>f, <2>2, <2>4 DEF IInv, Once
<1>10. Listed' BY <1>a, <1>h DEF IInv, TypeOK, Listed, Awoken
<1> QED BY <1>1, <1>2, <1>3, <1>4, <1>5, <1>6, <1>7, <1>8, <1>9, <1>10 DEF IInv

LEMMA MakeRunnableInv == ASSUME IInv, MakeRunnable PROVE IInv'
<1>a. /\ park' \in [Callers -> 0..2]
      /\ \A c \in Callers : /\ c \notin loop.wakes => park'[c] = park[c]
                            /\ park'[c] = 2 => park[c] = 2 /\ c \notin loop.wakes
                            /\ c \in loop.wakes /\ park[c] = 0 => park'[c] = 1
                            /\ park[c] = 1 => park'[c] = 1
  BY WokenFacts DEF IInv, MakeRunnable
<1>1. TypeOK'
  BY <1>a
     DEF IInv, TypeOK, MakeRunnable, callVars, engineVars, stopVars, At, Goto, InWait, Dirs,
         LoopState
<1>2. Calls' BY <1>a DEF IInv, Calls, MakeRunnable, callVars, Awoken
<1>3. Entries' BY <1>a DEF IInv, Entries, MakeRunnable, callVars
<1>4. Registered'
  BY <1>a DEF IInv, TypeOK, Registered, MakeRunnable, callVars, InPark, Awoken, HasEntry, Calls
<1>5. Owned' BY <1>a DEF IInv, Owned, MakeRunnable, callVars, stopVars
<1>6. WokenOnce'
  BY <1>a
     DEF IInv, TypeOK, WokenOnce, MakeRunnable, callVars, stopVars, Registration, InPark, Unwoken
<1>7. Once' BY <1>a DEF IInv, Once, MakeRunnable
<1>8. Serving' BY <1>a DEF IInv, Serving, MakeRunnable, stopVars, CoveredNow
<1>9. Stopping' BY <1>a DEF IInv, Stopping, MakeRunnable, stopVars, StopIsSeen, Idle
<1>10. Listed' BY <1>a DEF IInv, TypeOK, Listed, MakeRunnable, callVars, Awoken
<1> QED BY <1>1, <1>2, <1>3, <1>4, <1>5, <1>6, <1>7, <1>8, <1>9, <1>10 DEF IInv

LEMMA LoopEndInv == ASSUME IInv, LoopEnd PROVE IInv'
<1>1. TypeOK' BY IdleType DEF IInv, TypeOK, LoopEnd, callVars, stopVars
<1>2. Calls' BY IdleType DEF IInv, Calls, LoopEnd, callVars, Awoken
<1>3. Entries' BY IdleType DEF IInv, Entries, LoopEnd, callVars
<1>4. Registered'
  BY IdleType DEF IInv, Registered, LoopEnd, BatchDone, callVars, InPark, Awoken, HasEntry
<1>5. Owned' BY IdleType DEF IInv, Owned, LoopEnd, callVars, stopVars
<1>6. WokenOnce' BY IdleType DEF IInv, WokenOnce, LoopEnd, callVars, stopVars, InPark, Unwoken
<1>7. Once' BY IdleType DEF IInv, Once, LoopEnd, BatchDone, Idle
<1>8. Serving' BY IdleType DEF IInv, Serving, LoopEnd, BatchDone, stopVars, CoveredNow, InHand
<1>9. Stopping' BY IdleType DEF IInv, Stopping, LoopEnd, stopVars, StopIsSeen, Idle
<1>10. Listed' BY IdleType DEF IInv, Listed, LoopEnd, callVars, Awoken
<1> QED BY <1>1, <1>2, <1>3, <1>4, <1>5, <1>6, <1>7, <1>8, <1>9, <1>10 DEF IInv

LEMMA AnnounceInv == ASSUME IInv, Announce PROVE IInv'
<1>1. TypeOK' BY DEF IInv, TypeOK, Announce, callVars, engineVars
<1>2. Calls' BY DEF IInv, Calls, Announce, callVars, engineVars, Awoken
<1>3. Entries' BY DEF IInv, Entries, Announce, callVars
<1>4. Registered' BY DEF IInv, Registered, Announce, callVars, engineVars, InPark, Awoken, HasEntry
<1>5. Owned' BY DEF Owned, Announce
<1>6. WokenOnce' BY DEF WokenOnce, Announce
<1>7. Once' BY DEF IInv, Once, Announce, engineVars
<1>8. Serving' BY DEF Serving, Announce
<1>9. Stopping' BY DEF Stopping, Announce, engineVars, StopIsSeen
<1>10. Listed' BY DEF IInv, Listed, Announce, callVars, Awoken
<1> QED BY <1>1, <1>2, <1>3, <1>4, <1>5, <1>6, <1>7, <1>8, <1>9, <1>10 DEF IInv

LEMMA NudgeInv == ASSUME IInv, Nudge PROVE IInv'
<1>1. TypeOK' BY DEF IInv, TypeOK, Nudge, callVars, engineVars
<1>2. Calls' BY DEF IInv, Calls, Nudge, callVars, engineVars, Awoken
<1>3. Entries' BY DEF IInv, Entries, Nudge, callVars
<1>4. Registered' BY DEF IInv, Registered, Nudge, callVars, engineVars, InPark, Awoken, HasEntry
<1>5. Owned' BY DEF Owned, Nudge
<1>6. WokenOnce' BY DEF WokenOnce, Nudge
<1>7. Once' BY DEF IInv, Once, Nudge, engineVars
<1>8. Serving' BY DEF Serving, Nudge
<1>9. Stopping' BY DEF IInv, Stopping, Nudge, engineVars, StopIsSeen
<1>10. Listed' BY DEF IInv, Listed, Nudge, callVars, Awoken
<1> QED BY <1>1, <1>2, <1>3, <1>4, <1>5, <1>6, <1>7, <1>8, <1>9, <1>10 DEF IInv

LEMMA JoinLoopInv == ASSUME IInv, JoinLoop PROVE IInv'
<1>1. TypeOK' BY DEF IInv, TypeOK, JoinLoop, callVars, engineVars
<1>2. Calls' BY DEF IInv, Calls, JoinLoop, callVars, engineVars, Awoken
<1>3. Entries' BY DEF IInv, Entries, JoinLoop, callVars
<1>4. Registered' BY DEF IInv, Registered, JoinLoop, callVars, engineVars, InPark, Awoken, HasEntry
<1>5. Owned' BY DEF Owned, JoinLoop
<1>6. WokenOnce' BY DEF WokenOnce, JoinLoop
<1>7. Once' BY DEF IInv, Once, JoinLoop, engineVars
<1>8. Serving' BY DEF Serving, JoinLoop
<1>9. Stopping' BY DEF IInv, Stopping, JoinLoop, engineVars, StopIsSeen
<1>10. Listed' BY DEF IInv, Listed, JoinLoop, callVars, Awoken
<1> QED BY <1>1, <1>2, <1>3, <1>4, <1>5, <1>6, <1>7, <1>8, <1>9, <1>10 DEF IInv

LEMMA FlushInv == ASSUME IInv, NEW r \in table, Flush(r) PROVE IInv'
<1>a. /\ park' \in [Callers -> 0..2]
      /\ \A c \in Callers : /\ c \notin {r.owner} => park'[c] = park[c]
                            /\ park'[c] = 2 => park[c] = 2 /\ c \notin {r.owner}
                            /\ c \in {r.owner} /\ park[c] = 0 => park'[c] = 1
                            /\ park[c] = 1 => park'[c] = 1
  BY WokenFacts DEF IInv, Flush
<1>b. /\ table' = table \ {r} /\ r.owner \in Callers /\ r \in Registration /\ stop = "flushing"
      /\ fired' = (IF IsTask(r.owner) THEN fired ELSE fired \cup {r.owner})
      /\ UNCHANGED <<pc, limited, mine, ep, kernel, loop, stop, stopping, nudged, token>>
  BY DEF Flush, Suspended, IInv, TypeOK, Registration, engineVars, stopVars
<1>c. ~IsTask(r.owner) => pc[r.owner] \in InWait /\ r.seq = mine[r.owner]
  BY DEF IInv, Entries, Suspended
<1>1. TypeOK' BY <1>a, <1>b, <1>c DEF IInv, TypeOK
<1>2. Calls' BY <1>a, <1>b, <1>c DEF IInv, TypeOK, Calls, Awoken
<1>3. Entries' BY <1>a, <1>b, <1>c DEF IInv, Entries
<1>4. Registered'
  BY <1>a, <1>b, <1>c, NoSeqIsNone
     DEF IInv, TypeOK, Registered, Registration, InPark, Awoken, HasEntry, Calls, Entries
<1>5. Owned' BY <1>a, <1>b, <1>c DEF Owned
<1>6. WokenOnce' BY <1>a, <1>b, <1>c DEF WokenOnce
<1>7. Once' BY <1>a, <1>b, <1>c DEF IInv, Once
<1>8. Serving' BY <1>a, <1>b, <1>c DEF Serving
<1>9. Stopping' BY <1>a, <1>b, <1>c DEF IInv, Stopping, StopIsSeen
<1>10. Listed' BY <1>a, <1>b, <1>c DEF IInv, TypeOK, Listed, Awoken
<1> QED BY <1>1, <1>2, <1>3, <1>4, <1>5, <1>6, <1>7, <1>8, <1>9, <1>10 DEF IInv

LEMMA FlushEndInv == ASSUME IInv, FlushEnd PROVE IInv'
<1>1. TypeOK' BY DEF IInv, TypeOK, FlushEnd, callVars, engineVars
<1>2. Calls' BY DEF IInv, Calls, FlushEnd, callVars, engineVars, Awoken
<1>3. Entries' BY DEF Entries, FlushEnd
<1>4. Registered' BY DEF IInv, Registered, FlushEnd, callVars, engineVars, InPark, Awoken, HasEntry
<1>5. Owned' BY DEF Owned, FlushEnd
<1>6. WokenOnce' BY DEF WokenOnce, FlushEnd
<1>7. Once' BY DEF IInv, Once, FlushEnd, engineVars
<1>8. Serving' BY DEF Serving, FlushEnd
<1>9. Stopping' BY DEF IInv, Stopping, FlushEnd, engineVars, StopIsSeen
<1>10. Listed' BY DEF IInv, Listed, FlushEnd, callVars, Awoken
<1> QED BY <1>1, <1>2, <1>3, <1>4, <1>5, <1>6, <1>7, <1>8, <1>9, <1>10 DEF IInv

LEMMA TeardownInv == ASSUME IInv, Teardown PROVE IInv'
<1>1. TypeOK'
  BY NoSlotsType
     DEF IInv, TypeOK, Teardown, callVars, engineVars, stopVars, At, Goto, InWait, Dirs, LoopState
<1>2. Calls' BY DEF IInv, Calls, Teardown, callVars, Awoken
<1>3. Entries' BY DEF IInv, Entries, Teardown, callVars
<1>4. Registered' BY DEF IInv, Registered, Teardown, callVars, InPark, Awoken, HasEntry
<1>5. Owned' BY DEF Owned, Teardown
<1>6. WokenOnce' BY DEF WokenOnce, Teardown
<1>7. Once' BY NoSeqIsNone DEF IInv, TypeOK, Once, Teardown, Registration, NoSlots
<1>8. Serving' BY DEF Serving, Teardown
<1>9. Stopping' BY DEF IInv, Stopping, Teardown, StopIsSeen
<1>10. Listed' BY DEF IInv, Listed, Teardown, callVars, Awoken
<1> QED BY <1>1, <1>2, <1>3, <1>4, <1>5, <1>6, <1>7, <1>8, <1>9, <1>10 DEF IInv

LEMMA RequestInv == ASSUME IInv, Request PROVE IInv'
<1>1. TypeOK'
  BY DEF IInv, TypeOK, Request, callVars, engineVars, stopVars, At, Goto, InWait, Dirs, LoopState
<1>2. Calls' BY DEF IInv, Calls, Request, callVars, engineVars, Awoken
<1>3. Entries' BY DEF IInv, Entries, Request, callVars
<1>4. Registered' BY DEF IInv, Registered, Request, callVars, engineVars, InPark, Awoken, HasEntry
<1>5. Owned' BY DEF IInv, Owned, Request, callVars, stopVars
<1>6. WokenOnce' BY DEF IInv, WokenOnce, Request, callVars, engineVars, stopVars, InPark, Unwoken
<1>7. Once' BY DEF IInv, Once, Request, engineVars
<1>8. Serving' BY DEF IInv, Serving, Request, engineVars, stopVars, CoveredNow
<1>9. Stopping' BY DEF IInv, Stopping, Request, engineVars, stopVars, StopIsSeen
<1>10. Listed' BY DEF Listed, Request
<1> QED BY <1>1, <1>2, <1>3, <1>4, <1>5, <1>6, <1>7, <1>8, <1>9, <1>10 DEF IInv

LEMMA SetDeadlineInv == ASSUME IInv, SetDeadline PROVE IInv'
<1>1. TypeOK'
  BY DEF IInv, TypeOK, SetDeadline, callVars, engineVars, stopVars, At, Goto, InWait, Dirs,
         LoopState
<1>2. Calls' BY DEF IInv, Calls, SetDeadline, callVars, engineVars, Awoken
<1>3. Entries' BY DEF IInv, Entries, SetDeadline, callVars
<1>4. Registered'
  BY DEF IInv, Registered, SetDeadline, callVars, engineVars, InPark, Awoken, HasEntry
<1>5. Owned' BY DEF IInv, Owned, SetDeadline, callVars, stopVars
<1>6. WokenOnce'
  BY DEF IInv, WokenOnce, SetDeadline, callVars, engineVars, stopVars, InPark, Unwoken
<1>7. Once' BY DEF IInv, Once, SetDeadline, engineVars
<1>8. Serving' BY DEF IInv, Serving, SetDeadline, engineVars, stopVars, CoveredNow
<1>9. Stopping' BY DEF IInv, Stopping, SetDeadline, engineVars, stopVars, StopIsSeen
<1>10. Listed' BY DEF Listed, SetDeadline
<1> QED BY <1>1, <1>2, <1>3, <1>4, <1>5, <1>6, <1>7, <1>8, <1>9, <1>10 DEF IInv

LEMMA WakeWaitersInv == ASSUME IInv, WakeWaiters PROVE IInv'
<1>a. /\ park' \in [Callers -> 0..2]
      /\ \A c \in Callers : /\ c \notin token.waiters => park'[c] = park[c]
                            /\ park'[c] = 2 => park[c] = 2 /\ c \notin token.waiters
                            /\ c \in token.waiters /\ park[c] = 0 => park'[c] = 1
                            /\ park[c] = 1 => park'[c] = 1
  BY WokenFacts DEF IInv, WakeWaiters
<1>1. TypeOK'
  BY <1>a
     DEF IInv, TypeOK, WakeWaiters, callVars, engineVars, stopVars, At, Goto, InWait, Dirs,
         LoopState
<1>2. Calls' BY <1>a DEF IInv, Calls, WakeWaiters, callVars, engineVars, Awoken
<1>3. Entries' BY <1>a DEF IInv, Entries, WakeWaiters, callVars
<1>4. Registered'
  BY <1>a DEF IInv, Registered, WakeWaiters, callVars, engineVars, InPark, Awoken, HasEntry
<1>5. Owned' BY <1>a DEF IInv, Owned, WakeWaiters, callVars, stopVars
<1>6. WokenOnce'
  BY <1>a
     DEF IInv, TypeOK, WokenOnce, WakeWaiters, callVars, engineVars, stopVars, LoopState,
         Registration, InPark, Unwoken, Suspended, Calls
<1>7. Once' BY <1>a DEF IInv, Once, WakeWaiters, engineVars
<1>8. Serving' BY <1>a DEF IInv, Serving, WakeWaiters, engineVars, stopVars, CoveredNow
<1>9. Stopping' BY <1>a DEF IInv, Stopping, WakeWaiters, engineVars, stopVars, StopIsSeen
<1>10. Listed' BY <1>a DEF IInv, TypeOK, Listed, WakeWaiters, callVars, Awoken, Calls
<1> QED BY <1>1, <1>2, <1>3, <1>4, <1>5, <1>6, <1>7, <1>8, <1>9, <1>10 DEF IInv

-----------------------------------------------------------------------------
LEMMA StutterInv == ASSUME IInv, UNCHANGED vars PROVE IInv'
<1>a. UNCHANGED <<pc, limited, park, fired, mine, table, ep, kernel, loop, stop, stopping,
                  nudged, token>>
  BY DEF vars, callVars, engineVars, stopVars
<1>1. TypeOK' /\ Calls' /\ Entries' BY <1>a DEF IInv, TypeOK, Calls, Entries, Awoken
<1>2. Registered' /\ Owned' /\ WokenOnce'
  BY <1>a DEF IInv, Registered, HasEntry, Owned, WokenOnce, Unwoken, Awoken, InPark
<1>3. Once' /\ Serving' /\ Stopping' /\ Listed'
  BY <1>a DEF IInv, Once, Serving, CoveredNow, Stopping, StopIsSeen, Listed, Awoken
<1> QED BY <1>1, <1>2, <1>3 DEF IInv

LEMMA NextInv == ASSUME IInv, [Next]_vars PROVE IInv'
<1>1. ASSUME NEW c \in Callers, Call(c) \/ CallStep(c) PROVE IInv'
  BY <1>1, CallInv, BeginInv, ClaimInv, RefuseInv, LinkInv, ParkInv, UnparkedInv, ParkTimeoutInv,
     CollectInv, GiveUpInv, ParkAgainInv, UnlinkInv, ResumeInv DEF CallStep
<1>2. ASSUME NEW D \in SUBSET Dirs, NEW events \in SUBSET {"fd", "wake"}, Poll(D, events)
      PROVE IInv'
  BY <1>2, PollInv
<1>3. CASE LoopStep
  BY <1>3, TakeNudgeInv, TakeEventInv, DeliverInv, MakeRunnableInv, LoopEndInv DEF LoopStep
<1>4. CASE Announce \/ StopStep
  BY <1>4, AnnounceInv, NudgeInv, JoinLoopInv, FlushInv, FlushEndInv, TeardownInv DEF StopStep
<1>5. CASE Request \/ SetDeadline \/ WakeWaiters \/ Close
  BY <1>5, RequestInv, SetDeadlineInv, WakeWaitersInv, CloseInv
<1>6. CASE UNCHANGED vars BY <1>6, StutterInv
<1> QED BY <1>1, <1>2, <1>3, <1>4, <1>5, <1>6 DEF Next

(* Calls, entries, slots, the loop's claims and the token agree with each  *)
(* other after every step of any caller, the I/O thread and the shutdown.  *)
THEOREM InductiveInvariant == Spec => []IInv
BY InitInv, NextInv, PTL DEF Spec

(* Every variable keeps its type, and the kernel is never asked for a      *)
(* direction that has no slot.                                             *)
THEOREM TypeCorrect == Spec => []TypeOK
<1>1. IInv => TypeOK BY DEF IInv
<1> QED BY <1>1, InductiveInvariant, PTL

(* Neither the engine nor the token ever reaches the frame of a wait that  *)
(* has returned.                                                           *)
THEOREM NoDanglingFrameHolds == Spec => []NoDanglingFrame
<1>1. IInv => NoDanglingFrame BY DEF IInv, TypeOK, Entries, Calls, NoDanglingFrame
<1> QED BY <1>1, InductiveInvariant, PTL

(* Until the shutdown has released the waiters, whoever is parked has its  *)
(* wake on the way or an undelivered registration that is covered; and a   *)
(* waiter on the list of a cancelled token is about to be woken.           *)
THEOREM NoStrandedHolds == Spec => []NoStranded
<1>1. ASSUME IInv, NEW c \in Callers, Parked(c), c \notin loop.wakes
      PROVE  \E r \in Of(mine[c]) : ~r.delivered /\ Covered(r)
  <2>1. pc[c] = "parked" /\ park[c] = 2 BY <1>1 DEF Parked, At
  <2>2. c \notin fired /\ ~Awoken(c) BY <1>1, <2>1 DEF IInv, Calls, Awoken
  <2>3. HasEntry(c) BY <1>1, <2>1, <2>2 DEF IInv, Registered, InPark, InWait
  <2>4. PICK r \in table : r.seq = mine[c] /\ ~r.delivered BY <2>3 DEF HasEntry
  <2>5. stop # "no" \/ CoveredNow(r) BY <1>1, <2>4 DEF IInv, Serving
  <2>6. Covered(r) BY <2>5 DEF Covered, CoveredNow, InHand
  <2> QED BY <2>4, <2>6 DEF Of
<1>2. IInv => ListedWaiterIsWoken BY DEF IInv, Listed, Awoken, ListedWaiterIsWoken, Parked, At
<1>3. IInv => NoStranded BY <1>1, <1>2 DEF NoStranded
<1> QED BY <1>3, InductiveInvariant, PTL

(* A loop that has consumed the wake of the shutdown has seen the flag.    *)
THEOREM StopIsSeenHolds == Spec => []StopIsSeen
<1>1. IInv => StopIsSeen BY DEF IInv, Stopping
<1> QED BY <1>1, InductiveInvariant, PTL
-----------------------------------------------------------------------------
(***************************************************************************)
(* A call implements WaitPromise.  Beside IInv this needs where a limit    *)
(* comes from (Limits), and that the entry of a call that has been told is *)
(* delivered, and is its only one (Told): a delivery or a release finds    *)
(* the one wait it is for still waiting.                                   *)
(***************************************************************************)
Limits ==
  /\ \A c \in limited : c \in Deadlined \/ (c \in WithToken /\ token.limited)
  /\ \A c \in Callers : pc[c] = "late" => c \in limited

Told ==
  /\ \A r \in table : r.owner \in fired => r.delivered
  /\ \A r, q \in table : r.seq = q.seq => r = q

PInv == IInv /\ Limits /\ Told

LEMMA LimitsNext == ASSUME IInv, Limits, [Next]_vars PROVE Limits'
<1> USE DEF Limits, IInv, TypeOK
<1>1. ASSUME NEW c \in Callers, Begin(c) PROVE Limits'
  BY <1>1 DEF Begin, At, Goto, engineVars, stopVars
<1>2. ASSUME NEW c \in Callers, Refuse(c) \/ Unlink(c) PROVE Limits'
  BY <1>2 DEF Refuse, Unlink, At, Goto, engineVars, stopVars
<1>3. ASSUME NEW c \in Callers, ParkTimeout(c) PROVE Limits'
  BY <1>3 DEF ParkTimeout, At, Goto, engineVars, stopVars
<1>4. ASSUME NEW c \in Callers,
             \/ Call(c) \/ Claim(c) \/ Link(c) \/ Park(c) \/ Unparked(c)
             \/ Collect(c) \/ GiveUp(c) \/ ParkAgain(c) \/ Resume(c)
      PROVE  Limits'
  <2>1. limited' = limited /\ token'.limited = token.limited
    BY <1>4
       DEF Call, Claim, Link, Park, Unparked, Collect, GiveUp, ParkAgain, Resume, engineVars, stopVars
  <2>2. PICK l \in {"claim", "begin", "park", "link", "check", "parked", "unlink", "idle"} :
          pc' = [pc EXCEPT ![c] = l]
    BY <1>4 DEF Call, Claim, Link, Park, Unparked, Collect, GiveUp, ParkAgain, Resume, Goto
  <2> QED BY <2>1, <2>2
<1>5. CASE SetDeadline \/ Request \/ WakeWaiters
  BY <1>5 DEF SetDeadline, Request, WakeWaiters, callVars
<1>6. ASSUME UNCHANGED <<pc, limited, token>> PROVE Limits'
  BY <1>6
<1>7. ASSUME NEW D, NEW events, Poll(D, events) PROVE UNCHANGED <<pc, limited, token>>
  BY <1>7 DEF Poll, callVars
<1>8. CASE LoopStep \/ Announce \/ StopStep \/ Close \/ UNCHANGED vars
  <2>1. UNCHANGED <<pc, limited, token>>
    BY <1>8
       DEF LoopStep, TakeNudge, TakeEvent, Deliver, MakeRunnable, LoopEnd, Announce, StopStep,
           Nudge, JoinLoop, Flush, FlushEnd, Teardown, Close, callVars, vars
  <2> QED BY <1>6, <2>1
<1> QED BY <1>1, <1>2, <1>3, <1>4, <1>5, <1>6, <1>7, <1>8 DEF Next, CallStep

LEMMA ToldNext == ASSUME IInv, Told, [Next]_vars PROVE Told'
<1>1. ASSUME NEW c \in Callers, Claim(c) PROVE Told'
  <2>1. PICK e : e = [seq |-> NewSeq(c), owner |-> c, op |-> Kind[c] \in OpKinds,
                      delivered |-> FALSE]
    OBVIOUS
  <2>2. table' = table \cup {e} /\ fired' = fired /\ pc[c] = "claim"
    BY <1>1, <2>1 DEF Claim, At
  <2>3. e.owner = c /\ \A r \in table : r.seq # e.seq BY <1>1, <2>1, FreshSeq DEF Claim
  <2>4. c \notin fired BY <2>2 DEF IInv, Calls, InWait
  <2> QED BY <2>2, <2>3, <2>4 DEF Told
<1>2. ASSUME table' \subseteq table, fired' \subseteq fired PROVE Told'
  BY <1>2 DEF Told
<1>3. ASSUME NEW c \in Callers,
             \/ Call(c) \/ Begin(c) \/ Refuse(c) \/ Link(c) \/ Park(c) \/ Unparked(c)
             \/ ParkTimeout(c) \/ Collect(c) \/ GiveUp(c) \/ ParkAgain(c) \/ Unlink(c) \/ Resume(c)
      PROVE  Told'
  <2>1. table' \subseteq table /\ fired' \subseteq fired
    BY <1>3
       DEF Call, Begin, Refuse, Link, Park, Unparked, ParkTimeout, Collect, GiveUp, ParkAgain,
           Unlink, Resume
  <2> QED BY <1>2, <2>1
<1>4. CASE Deliver
  <2>1. PICK s : s = Head(loop.hand) OBVIOUS
  <2>2. /\ table' = (table \ Of(s)) \cup UNION {Delivered(r) : r \in Of(s)}
        /\ fired' = fired \cup {r.owner : r \in {x \in Of(s) : ~Suspended(x)}}
    BY <1>4, <2>1 DEF Deliver
  <2>3. \A r \in table' :
          \/ r \in table /\ r.seq # s
          \/ \E q \in table : q.seq = s /\ q.op /\ r = [q EXCEPT !.delivered = TRUE]
    BY <2>2 DEF Of, Delivered
  <2>4. \A q \in table : q.op => [q EXCEPT !.delivered = TRUE].seq = q.seq
                                 /\ [q EXCEPT !.delivered = TRUE].delivered
    BY DEF IInv, TypeOK, Registration
  <2>5. ASSUME NEW r \in table', r.owner \in fired' PROVE r.delivered
    <3>1. CASE r \in table /\ r.seq # s
      <4>1. ASSUME r.owner \notin fired PROVE FALSE
        <5>1. PICK q \in table : q.seq = s /\ ~Suspended(q) /\ q.owner = r.owner
          BY <2>2, <2>5, <4>1 DEF Of
        <5>2. r.seq = mine[r.owner] /\ q.seq = mine[r.owner]
          BY <3>1, <5>1 DEF IInv, Entries, Suspended
        <5> QED BY <3>1, <5>1, <5>2
      <4> QED BY <3>1, <4>1 DEF Told
    <3> QED BY <2>3, <2>4, <3>1
  <2>6. ASSUME NEW r \in table', NEW q \in table', r.seq = q.seq PROVE r = q
    <3>1. CASE r.seq # s
      <4>1. r \in table /\ q \in table BY <2>3, <2>4, <2>6, <3>1
      <4> QED BY <2>6, <4>1 DEF Told
    <3>2. CASE r.seq = s
      <4>1. PICK a \in table : a.seq = s /\ r = [a EXCEPT !.delivered = TRUE] BY <2>3, <3>2
      <4>2. PICK b \in table : b.seq = s /\ q = [b EXCEPT !.delivered = TRUE]
        BY <2>3, <2>6, <3>2
      <4>3. a = b BY <4>1, <4>2 DEF Told
      <4> QED BY <4>1, <4>2, <4>3
    <3> QED BY <3>1, <3>2
  <2> QED BY <2>5, <2>6 DEF Told
<1>5. ASSUME NEW r \in table, Flush(r) PROVE Told'
  <2>1. /\ table' = table \ {r}
        /\ fired' = IF Suspended(r) THEN fired ELSE fired \cup {r.owner}
    BY <1>5 DEF Flush
  <2>2. ASSUME NEW q \in table', q.owner \in fired', q.owner \notin fired PROVE FALSE
    <3>1. q \in table /\ q.owner = r.owner /\ ~Suspended(r) BY <2>1, <2>2
    <3>2. q.seq = mine[r.owner] /\ r.seq = mine[r.owner] BY <3>1 DEF IInv, Entries, Suspended
    <3>3. q = r BY <3>1, <3>2 DEF Told
    <3> QED BY <2>1, <3>3
  <2> QED BY <2>1, <2>2 DEF Told
<1>6. ASSUME NEW D, NEW events, Poll(D, events) PROVE Told'
  <2>1. UNCHANGED <<table, fired>> BY <1>6 DEF Poll, callVars
  <2> QED BY <1>2, <2>1
<1>7. CASE \/ TakeNudge \/ TakeEvent \/ MakeRunnable \/ LoopEnd \/ Announce \/ Nudge \/ JoinLoop
           \/ FlushEnd \/ Teardown \/ Request \/ SetDeadline \/ WakeWaiters \/ Close
           \/ UNCHANGED vars
  <2>1. UNCHANGED <<table, fired>>
    BY <1>7
       DEF TakeNudge, TakeEvent, MakeRunnable, LoopEnd, Announce, Nudge, JoinLoop, FlushEnd,
           Teardown, Request, SetDeadline, WakeWaiters, Close, callVars, vars
  <2> QED BY <1>2, <2>1
<1> QED BY <1>1, <1>3, <1>4, <1>5, <1>6, <1>7 DEF Next, CallStep, LoopStep, StopStep

(* Whoever parks with a limit has a deadline, of its own or of its token,  *)
(* and what the engine has delivered to a call it delivered by the call's  *)
(* one entry.                                                              *)
THEOREM PromiseInvariant == Spec => []PInv
<1>1. Init => PInv BY InitInv DEF Init, PInv, Limits, Told
<1>2. PInv /\ [Next]_vars => PInv' BY NextInv, LimitsNext, ToldNext DEF PInv
<1> QED BY <1>1, <1>2, PTL DEF Spec

(* What a step does to the phase of a call: nothing, unless it moves the   *)
(* call in or out of its wait, tells it, or takes its entry.               *)
Before(c) == pc[c] \in {"idle", "begin", "claim"}

LEMMA PhaseKept ==
  ASSUME NEW c,
         \/ pc'[c] = pc[c]
         \/ pc[c] \in InWait /\ pc'[c] \in InWait
         \/ Before(c) /\ Before(c)',
         c \in fired' <=> c \in fired, Pending(c)' <=> Pending(c)
  PROVE  Phase(c)' = Phase(c)
BY DEF Phase, Before, InWait, At

LEMMA PendingKept ==
  ASSUME UNCHANGED <<mine, table>>
  PROVE  \A c : Pending(c)' <=> Pending(c)
BY DEF Pending, Of

LEMMA PhaseMove ==
  ASSUME NEW c \in Callers, NEW v, NEW u, Phase(c) = v, Phase(c)' = u,
         \A x \in Callers \ {c} : Phase(x)' = Phase(x),
         token'.flag = token.flag, token'.limited = token.limited, stop' = stop
  PROVE  Promise!Move(c, v, u)
BY DEF Promise!Move

LEMMA PhasesKept ==
  ASSUME \A c \in Callers : Phase(c)' = Phase(c),
         token'.flag = token.flag, token'.limited = token.limited,
         (stop # "no") <=> (stop' # "no")
  PROVE  UNCHANGED Promise!vars
<1>1. UNCHANGED [c \in Callers |-> Phase(c)] OBVIOUS
<1>2. UNCHANGED (stop # "no") OBVIOUS
<1> QED BY <1>1, <1>2 DEF Promise!vars

(* The entries of one caller are nobody else's.                            *)
LEMMA PendingIsOwn ==
  ASSUME IInv, NEW c \in Callers, Pending(c)
  PROVE  \E r \in table : r.seq = mine[c] /\ ~r.delivered /\ r.owner = c
<1>1. PICK r \in table : r.seq = mine[c] /\ ~r.delivered BY DEF Pending, Of
<1>2. mine[c] # NoSeq BY <1>1, NoSeqIsNone DEF IInv, TypeOK, Registration
<1> QED BY <1>1, <1>2 DEF IInv, Entries, Calls

(* A step that leaves the engine, the token and the shutdown alone, and    *)
(* whose call stays where it is in the life of a wait.                     *)
LEMMA CallQuiet ==
  ASSUME PInv, NEW c \in Callers,
         \/ Call(c) \/ Begin(c) \/ Refuse(c) \/ Link(c) \/ Park(c) \/ Unparked(c)
         \/ ParkTimeout(c) \/ ParkAgain(c)
  PROVE  UNCHANGED Promise!vars
<1>1. /\ UNCHANGED <<fired, mine, table, stop>>
      /\ token'.flag = token.flag /\ token'.limited = token.limited
  BY DEF PInv, IInv, TypeOK, Call, Begin, Refuse, Link, Park, Unparked, ParkTimeout, ParkAgain,
         engineVars, stopVars
<1>2. \/ Before(c) /\ \E l \in {"idle", "begin", "claim"} : pc' = [pc EXCEPT ![c] = l]
      \/ pc[c] \in InWait /\ \E l \in InWait : pc' = [pc EXCEPT ![c] = l]
  BY DEF Call, Begin, Refuse, Link, Park, Unparked, ParkTimeout, ParkAgain, At, Goto, Before, InWait
<1>3. \A x \in Callers : \/ pc'[x] = pc[x]
                         \/ pc[x] \in InWait /\ pc'[x] \in InWait
                         \/ Before(x) /\ Before(x)'
  BY <1>2 DEF PInv, IInv, TypeOK, Before
<1>4. \A x \in Callers : Phase(x)' = Phase(x) BY <1>1, <1>3, PendingKept, PhaseKept
<1> QED BY <1>1, <1>4, PhasesKept

LEMMA ClaimPromise ==
  ASSUME PInv, NEW c \in Callers, Claim(c)
  PROVE  Promise!Register(c)
<1>1. PICK e : e = [seq |-> NewSeq(c), owner |-> c, op |-> Kind[c] \in OpKinds,
                    delivered |-> FALSE]
  OBVIOUS
<1>2. /\ pc[c] = "claim" /\ pc' = [pc EXCEPT ![c] = IF IsTask(c) THEN "park" ELSE "link"]
      /\ table' = table \cup {e} /\ mine' = [mine EXCEPT ![c] = e.seq]
      /\ UNCHANGED <<fired, stop, token>>
  BY <1>1 DEF Claim, At, Goto, stopVars
<1>3. ~e.delivered /\ e.seq[1] = c /\ e.seq # NoSeq /\ c \notin fired
  BY <1>1, <1>2, FreshSeq, NoSeqIsNone DEF Claim, PInv, IInv, Calls, InWait
<1>4. Pending(c)' BY <1>2, <1>3 DEF Pending, Of, PInv, IInv, TypeOK
<1>5. Phase(c) = "none" /\ Phase(c)' = "waiting"
  BY <1>2, <1>3, <1>4 DEF Phase, At, PInv, IInv, TypeOK
<1>6. ASSUME NEW x \in Callers \ {c} PROVE Phase(x)' = Phase(x)
  <2>1. pc'[x] = pc[x] /\ mine'[x] = mine[x] BY <1>2, <1>6 DEF PInv, IInv, TypeOK
  <2>2. e.seq # mine[x] BY <1>3, <1>6 DEF PInv, IInv, Calls
  <2>3. Pending(x)' <=> Pending(x) BY <1>2, <2>1, <2>2 DEF Pending, Of
  <2> QED BY <1>2, <2>1, <2>3, PhaseKept
<1> QED BY <1>2, <1>5, <1>6, PhaseMove DEF Promise!Register

(* Delivery wins: a call that was told is not given up.                    *)
LEMMA CollectPromise ==
  ASSUME PInv, NEW c \in Callers, Collect(c)
  PROVE  UNCHANGED Promise!vars
<1>1. /\ pc[c] \in {"check", "late"} /\ pc' = [pc EXCEPT ![c] = "unlink"] /\ c \in fired
      /\ table' = table \ Of(mine[c]) /\ UNCHANGED <<mine, fired, stop, token>>
  BY DEF Collect, At, Goto, engineVars, stopVars
<1>2. ASSUME NEW x \in Callers PROVE Phase(x)' = Phase(x)
  <2>1. CASE x = c BY <1>1, <2>1 DEF Phase, PInv, IInv, TypeOK
  <2>2. CASE x # c
    <3>1. pc'[x] = pc[x] BY <1>1, <2>2 DEF PInv, IInv, TypeOK
    <3>2. Pending(x)' <=> Pending(x)
      <4>1. Pending(x) => mine[x] # mine[c]
        BY <1>1, <2>2, PendingIsOwn DEF PInv, IInv, Calls, Entries, Pending, Of
      <4> QED BY <1>1, <4>1 DEF Pending, Of
    <3> QED BY <1>1, <3>1, <3>2, PhaseKept
  <2> QED BY <2>1, <2>2
<1> QED BY <1>1, <1>2, PhasesKept

LEMMA GiveUpPromise ==
  ASSUME PInv, NEW c \in Callers, GiveUp(c)
  PROVE  Promise!GiveUp(c)
<1>1. /\ pc[c] \in {"check", "late"} /\ pc' = [pc EXCEPT ![c] = "unlink"]
      /\ c \notin fired /\ ~IsTask(c)
      /\ table' = table \ Of(mine[c]) /\ UNCHANGED <<mine, fired, stop, token>>
  BY DEF GiveUp, MayGiveUp, At, Goto, stopVars
<1>2. Promise!MayStop(c)
  BY DEF GiveUp, MayGiveUp, At, PInv, Limits, Promise!MayStop
<1>3. Phase(c) = "waiting" /\ Phase(c)' = "over"
  BY <1>1 DEF Phase, At, PInv, IInv, TypeOK
<1>4. ASSUME NEW x \in Callers \ {c} PROVE Phase(x)' = Phase(x)
  <2>1. pc'[x] = pc[x] BY <1>1, <1>4 DEF PInv, IInv, TypeOK
  <2>2. Pending(x) => mine[x] # mine[c]
    BY <1>1, <1>4, PendingIsOwn DEF PInv, IInv, Calls, Entries, Pending, Of
  <2>3. Pending(x)' <=> Pending(x) BY <1>1, <2>2 DEF Pending, Of
  <2> QED BY <1>1, <2>1, <2>3, PhaseKept
<1> QED BY <1>1, <1>2, <1>3, <1>4, PhaseMove DEF Promise!GiveUp

LEMMA UnlinkPromise ==
  ASSUME PInv, NEW c \in Callers, Unlink(c)
  PROVE  Promise!Return(c)
<1>1. /\ pc[c] = "unlink" /\ pc' = [pc EXCEPT ![c] = "idle"]
      /\ fired' = fired \ {c} /\ mine' = [mine EXCEPT ![c] = NoSeq]
      /\ UNCHANGED <<table, stop>> /\ token'.flag = token.flag /\ token'.limited = token.limited
  BY DEF Unlink, At, Goto, engineVars, stopVars, PInv, IInv, TypeOK
<1>2. Phase(c) \in {"ready", "over"} /\ Phase(c)' = "none"
  BY <1>1 DEF Phase, At, PInv, IInv, TypeOK
<1>3. ASSUME NEW x \in Callers \ {c} PROVE Phase(x)' = Phase(x)
  <2>1. pc'[x] = pc[x] /\ mine'[x] = mine[x] BY <1>1, <1>3 DEF PInv, IInv, TypeOK
  <2>2. Pending(x)' <=> Pending(x) BY <1>1, <2>1 DEF Pending, Of
  <2> QED BY <1>1, <1>3, <2>1, <2>2 DEF Phase, At
<1> QED BY <1>1, <1>2, <1>3, PhaseMove DEF Promise!Return

(* A task is resumed with its entry delivered, or by a shutdown.           *)
LEMMA ResumePromise ==
  ASSUME PInv, NEW c \in Callers, Resume(c)
  PROVE  Promise!Return(c) \/ Promise!Withdraw(c)
<1>1. /\ pc[c] = "check" /\ IsTask(c) /\ pc' = [pc EXCEPT ![c] = "idle"]
      /\ mine' = [mine EXCEPT ![c] = NoSeq]
      /\ table' \subseteq table /\ \A r \in table : r.owner # c => r \in table'
      /\ UNCHANGED <<fired, stop, token>>
  BY DEF Resume, At, Goto, engineVars, stopVars
<1>2. c \notin fired BY <1>1 DEF PInv, IInv, Calls
<1>3. Phase(c)' = "none" BY <1>1 DEF Phase, PInv, IInv, TypeOK
<1>4. Phase(c) = "ready" \/ (Phase(c) = "waiting" /\ Pending(c))
  BY <1>1, <1>2 DEF Phase, At
<1>5. Pending(c) => stop # "no"
  <2> SUFFICES ASSUME Pending(c), stop = "no" PROVE FALSE OBVIOUS
  <2>1. PICK r \in table : ~r.delivered /\ r.owner = c BY PendingIsOwn DEF PInv
  <2>2. Unwoken(c) BY <1>1, <2>1 DEF PInv, IInv, WokenOnce, Suspended
  <2> QED BY <1>1, <2>2 DEF Unwoken
<1>6. ASSUME NEW x \in Callers \ {c} PROVE Phase(x)' = Phase(x)
  <2>1. pc'[x] = pc[x] /\ mine'[x] = mine[x] BY <1>1, <1>6 DEF PInv, IInv, TypeOK
  <2>2. Pending(x) => Pending(x)'
    <3> SUFFICES ASSUME Pending(x) PROVE Pending(x)' OBVIOUS
    <3>1. PICK r \in table : r.seq = mine[x] /\ ~r.delivered /\ r.owner = x
      BY PendingIsOwn DEF PInv
    <3> QED BY <1>1, <1>6, <2>1, <3>1 DEF Pending, Of
  <2>3. Pending(x)' => Pending(x) BY <1>1, <2>1 DEF Pending, Of
  <2> QED BY <1>1, <2>1, <2>2, <2>3, PhaseKept
<1>7. CASE Phase(c) = "ready" BY <1>1, <1>3, <1>6, <1>7, PhaseMove DEF Promise!Return
<1>8. CASE Phase(c) = "waiting" /\ Pending(c)
  <2>1. Promise!Move(c, "waiting", "none") BY <1>1, <1>3, <1>6, <1>8, PhaseMove
  <2> QED BY <1>1, <1>5, <1>8, <2>1 DEF Promise!Withdraw
<1> QED BY <1>4, <1>7, <1>8

(* One entry is delivered or flushed: its owner's wait is resolved, if it  *)
(* is in one that this entry is of.                                        *)
LEMMA TellPromise ==
  ASSUME PInv, NEW r \in table,
         \A q \in table : q # r => q \in table',
         \A q \in table' : ~q.delivered => q \in table,
         fired' = IF Suspended(r) THEN fired ELSE fired \cup {r.owner},
         UNCHANGED <<pc, mine, stop, token>>
  PROVE  (\E c \in Callers : Promise!Resolve(c)) \/ UNCHANGED Promise!vars
<1>1. PICK c \in Callers : c = r.owner BY DEF PInv, IInv, TypeOK, Registration
<1>2. \A x : Pending(x)' => Pending(x) BY DEF Pending, Of
<1>3. ASSUME NEW x \in Callers \ {c} PROVE Phase(x)' = Phase(x)
  <2>1. Pending(x) => Pending(x)'
    <3> SUFFICES ASSUME Pending(x) PROVE Pending(x)' OBVIOUS
    <3>1. PICK q \in table : q.seq = mine[x] /\ ~q.delivered /\ q.owner = x
      BY PendingIsOwn DEF PInv
    <3> QED BY <1>1, <1>3, <3>1 DEF Pending, Of
  <2> QED BY <1>1, <1>2, <1>3, <2>1, PhaseKept
<1>4. Phase(c)' = Phase(c) \/ (Phase(c) = "waiting" /\ Phase(c)' = "ready")
  <2>1. CASE IsTask(c)
    <3>1. c \notin fired /\ fired' = fired BY <1>1, <2>1 DEF PInv, IInv, Calls, Suspended
    <3>2. pc[c] # "unlink" BY <2>1 DEF PInv, IInv, Calls
    <3> QED BY <1>2, <2>1, <3>1, <3>2 DEF Phase, At
  <2>2. CASE ~IsTask(c)
    <3>1. pc[c] \in InWait /\ c \in fired'
      BY <1>1, <2>2 DEF PInv, IInv, Entries, Suspended
    <3> QED BY <2>2, <3>1 DEF Phase, At, InWait
  <2> QED BY <2>1, <2>2
<1>5. CASE Phase(c)' = Phase(c) BY <1>3, <1>5, PhasesKept
<1>6. CASE Phase(c) = "waiting" /\ Phase(c)' = "ready"
  BY <1>3, <1>6, PhaseMove DEF Promise!Resolve
<1> QED BY <1>4, <1>5, <1>6

LEMMA QuietPromise ==
  ASSUME UNCHANGED <<pc, fired, mine, table>>,
         token'.flag = token.flag, token'.limited = token.limited,
         (stop # "no") <=> (stop' # "no")
  PROVE  UNCHANGED Promise!vars
<1>1. \A c \in Callers : Phase(c)' = Phase(c) BY PendingKept, PhaseKept
<1> QED BY <1>1, PhasesKept

LEMMA DeliverPromise ==
  ASSUME PInv, Deliver
  PROVE  (\E c \in Callers : Promise!Resolve(c)) \/ UNCHANGED Promise!vars
<1>1. PICK s : s = Head(loop.hand) OBVIOUS
<1>2. /\ table' = (table \ Of(s)) \cup UNION {Delivered(r) : r \in Of(s)}
      /\ fired' = fired \cup {r.owner : r \in {x \in Of(s) : ~Suspended(x)}}
      /\ UNCHANGED <<pc, mine, stop, token>>
  BY <1>1 DEF Deliver, stopVars
<1>3. CASE Of(s) = {} BY <1>2, <1>3, QuietPromise
<1>4. CASE Of(s) # {}
  <2>1. PICK r \in table : r.seq = s BY <1>4 DEF Of
  <2>2. Of(s) = {r} BY <2>1 DEF Of, PInv, Told
  <2>3. table' = (table \ {r}) \cup Delivered(r) BY <1>2, <2>2
  <2>4. \A q \in Delivered(r) : q.delivered
    BY <2>1 DEF Delivered, PInv, IInv, TypeOK, Registration
  <2>5. fired' = IF Suspended(r) THEN fired ELSE fired \cup {r.owner} BY <1>2, <2>2
  <2> QED BY <1>2, <2>3, <2>4, <2>5, TellPromise
<1> QED BY <1>3, <1>4

LEMMA PromiseStep ==
  PInv /\ [Next]_vars => [Promise!Next]_(Promise!vars)
<1> SUFFICES ASSUME PInv, [Next]_vars PROVE Promise!Next \/ UNCHANGED Promise!vars
  OBVIOUS
<1> USE DEF Promise!Next
<1>1. ASSUME NEW c \in Callers, Call(c) \/ CallStep(c)
      PROVE  Promise!Next \/ UNCHANGED Promise!vars
  BY <1>1, CallQuiet, ClaimPromise, CollectPromise, GiveUpPromise, UnlinkPromise, ResumePromise
     DEF CallStep
<1>2. CASE Deliver BY <1>2, DeliverPromise
<1>3. ASSUME NEW r \in table, Flush(r) PROVE Promise!Next \/ UNCHANGED Promise!vars
  <2>1. /\ table' = table \ {r}
        /\ fired' = IF Suspended(r) THEN fired ELSE fired \cup {r.owner}
        /\ UNCHANGED <<pc, mine, stop, token>>
    BY <1>3 DEF Flush, stopVars
  <2> QED BY <2>1, TellPromise
<1>4. CASE Request
  <2>1. UNCHANGED <<pc, fired, mine, table, stop>> /\ ~token.flag
        /\ token' = [token EXCEPT !.flag = TRUE, !.waking = TRUE]
    BY <1>4 DEF Request, callVars, stopVars
  <2>2. \A c \in Callers : Phase(c)' = Phase(c) BY <2>1, PendingKept, PhaseKept
  <2>3. token'.flag = TRUE /\ token'.limited = token.limited BY <2>1 DEF PInv, IInv, TypeOK
  <2>4. Promise!Cancel BY <2>1, <2>2, <2>3 DEF Promise!Cancel
  <2> QED BY <2>4
<1>5. CASE SetDeadline
  <2>1. UNCHANGED <<pc, fired, mine, table, stop>> /\ ~token.limited
        /\ token' = [token EXCEPT !.limited = TRUE, !.waking = TRUE]
    BY <1>5 DEF SetDeadline, callVars, stopVars
  <2>2. \A c \in Callers : Phase(c)' = Phase(c) BY <2>1, PendingKept, PhaseKept
  <2>3. token'.limited = TRUE /\ token'.flag = token.flag BY <2>1 DEF PInv, IInv, TypeOK
  <2>4. Promise!Date BY <2>1, <2>2, <2>3 DEF Promise!Date
  <2> QED BY <2>4
<1>6. CASE Announce
  <2>1. UNCHANGED <<pc, fired, mine, table, token>> /\ stop = "no" /\ stop' = "announced"
    BY <1>6 DEF Announce, callVars
  <2>2. \A c \in Callers : Phase(c)' = Phase(c) BY <2>1, PendingKept, PhaseKept
  <2>3. Promise!Shut BY <2>1, <2>2 DEF Promise!Shut
  <2> QED BY <2>3
<1>7. CASE Nudge \/ JoinLoop \/ FlushEnd \/ Teardown
  <2>1. UNCHANGED <<pc, fired, mine, table, token>> /\ stop # "no" /\ stop' # "no"
    BY <1>7 DEF Nudge, JoinLoop, FlushEnd, Teardown, callVars
  <2> QED BY <2>1, QuietPromise
<1>8. ASSUME NEW D, NEW events, Poll(D, events) PROVE UNCHANGED Promise!vars
  <2>1. UNCHANGED <<pc, fired, mine, table, token, stop>> BY <1>8 DEF Poll, callVars, stopVars
  <2> QED BY <2>1, QuietPromise
<1>9. CASE TakeNudge \/ TakeEvent \/ MakeRunnable \/ LoopEnd \/ Close \/ UNCHANGED vars
  <2>1. UNCHANGED <<pc, fired, mine, table, token, stop>>
    BY <1>9 DEF TakeNudge, TakeEvent, MakeRunnable, LoopEnd, Close, callVars, stopVars, vars
  <2> QED BY <2>1, QuietPromise
<1>10. CASE WakeWaiters
  <2>1. UNCHANGED <<pc, fired, mine, table, stop>>
        /\ token'.flag = token.flag /\ token'.limited = token.limited
    BY <1>10 DEF WakeWaiters, callVars, stopVars, PInv, IInv, TypeOK
  <2> QED BY <2>1, QuietPromise
<1> QED
  BY <1>1, <1>2, <1>3, <1>4, <1>5, <1>6, <1>7, <1>8, <1>9, <1>10 DEF Next, LoopStep, StopStep

(* Whatever delivery, other callers, deadlines, the token and the shutdown *)
(* do at once, a wait is resolved once and by its own registration, and it *)
(* is given up only while it is not, and for a reason.                     *)
THEOREM PromiseImplemented == Spec => ImplementsPromise
<1>1. Init => Promise!Init
  <2> SUFFICES ASSUME Init PROVE Promise!Init OBVIOUS
  <2>1. \A c \in Callers : Phase(c) = "none" BY DEF Init, Phase
  <2> QED BY <2>1 DEF Init, Promise!Init
<1> QED BY <1>1, PromiseStep, PromiseInvariant, PTL DEF Spec, ImplementsPromise, Promise!Spec
=============================================================================
