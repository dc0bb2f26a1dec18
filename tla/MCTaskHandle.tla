---------------------------- MODULE MCTaskHandle ----------------------------
(* Instances of TaskHandle for TLC: main binds a pooled handle p, and the  *)
(* body of p a joined one, j, in a loop.  The workers are interchangeable. *)
EXTENDS TaskHandle, TLC

CONSTANTS p, j

MCParent == [h \in Handles |-> IF h = j THEN p ELSE Main]

Symmetry == Permutations(Workers)
=============================================================================
