------------------------------ MODULE Admission ------------------------------
(***************************************************************************)
(* What serveConcurrent of std/http/server.yoop promises through the       *)
(* ServeState it reports in: a connection is let in while there is room    *)
(* and turned away only when there is none, once; and the three numbers    *)
(* are exact: how many were let in, how many were turned away, and the     *)
(* most that were ever in at the same time.                                *)
(***************************************************************************)
EXTENDS Naturals, FiniteSets

CONSTANT Conns

VARIABLES
  room,       (* maxConcurrent: how many may be in at a time                *)
  in,         (* the connections that are in                                *)
  gone,       (* those that have been in, or were turned away               *)
  accepted, rejected, peak    (* what is reported                           *)

vars == <<room, in, gone, accepted, rejected, peak>>

Larger(m, n) == IF m > n THEN m ELSE n

Init ==
  /\ room \in Nat \ {0}
  /\ in = {} /\ gone = {}
  /\ accepted = 0 /\ rejected = 0 /\ peak = 0

LetIn(c) ==
  /\ c \notin in \cup gone
  /\ Cardinality(in) < room
  /\ in' = in \cup {c}
  /\ accepted' = accepted + 1
  /\ peak' = Larger(Cardinality(in) + 1, peak)
  /\ UNCHANGED <<room, gone, rejected>>

TurnAway(c) ==
  /\ c \notin in \cup gone
  /\ Cardinality(in) = room
  /\ gone' = gone \cup {c}
  /\ rejected' = rejected + 1
  /\ UNCHANGED <<room, in, accepted, peak>>

Leave(c) ==
  /\ c \in in
  /\ in' = in \ {c}
  /\ gone' = gone \cup {c}
  /\ UNCHANGED <<room, accepted, rejected, peak>>

Next == \E c \in Conns : LetIn(c) \/ TurnAway(c) \/ Leave(c)

Spec == Init /\ [][Next]_vars
=============================================================================
