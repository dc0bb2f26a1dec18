------------------------------ MODULE TokenTree ------------------------------
(***************************************************************************)
(* What the tree of cancellation tokens (runtime/yoop_cancel.c) promises   *)
(* to whoever holds handles, whatever its threads do at once: a token is   *)
(* created once and freed once, when no handle and no child needs it; it   *)
(* gets a parent at most once, as a leaf, and never a cancelled one; and   *)
(* it is cancelled for good, either by somebody who holds it or because    *)
(* its parent is cancelled.                                                *)
(***************************************************************************)
CONSTANTS Tokens, None

VARIABLES
  memory,     (* per token: unborn, live or freed                           *)
  owned,      (* the tokens somebody has a handle on                        *)
  parent,     (* per token: its parent, or None                             *)
  cancelled   (* per token                                                  *)

vars == <<memory, owned, parent, cancelled>>

Children(p) == {c \in Tokens : parent[c] = p}

Init ==
  /\ memory = [t \in Tokens |-> "unborn"]
  /\ owned = {}
  /\ parent = [t \in Tokens |-> None]
  /\ cancelled = [t \in Tokens |-> FALSE]

Create(t) ==
  /\ memory[t] = "unborn"
  /\ memory' = [memory EXCEPT ![t] = "live"]
  /\ owned' = owned \cup {t}
  /\ UNCHANGED <<parent, cancelled>>

LetGo(t) ==
  /\ t \in owned
  /\ owned' = owned \ {t}
  /\ UNCHANGED <<memory, parent, cancelled>>

Link(c, p) ==
  /\ c \in owned /\ p \in owned \ {c}
  /\ parent[c] = None /\ Children(c) = {}
  /\ ~cancelled[p]
  /\ parent' = [parent EXCEPT ![c] = p]
  /\ UNCHANGED <<memory, owned, cancelled>>

Cancel(t) ==
  /\ memory[t] = "live"
  /\ t \in owned \/ (parent[t] # None /\ cancelled[parent[t]])
  /\ cancelled' = [cancelled EXCEPT ![t] = TRUE]
  /\ UNCHANGED <<memory, owned, parent>>

Unneeded(t) == t \notin owned /\ Children(t) = {}

Unlink(c) ==
  /\ parent[c] # None /\ Unneeded(c)
  /\ parent' = [parent EXCEPT ![c] = None]
  /\ UNCHANGED <<memory, owned, cancelled>>

Free(t) ==
  /\ memory[t] = "live" /\ parent[t] = None /\ Unneeded(t)
  /\ memory' = [memory EXCEPT ![t] = "freed"]
  /\ UNCHANGED <<owned, parent, cancelled>>

Next ==
  \E t \in Tokens :
    \/ Create(t) \/ LetGo(t) \/ Cancel(t) \/ Unlink(t) \/ Free(t)
    \/ \E p \in Tokens : Link(t, p)

Spec == Init /\ [][Next]_vars
=============================================================================
