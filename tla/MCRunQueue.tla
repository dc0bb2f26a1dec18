----------------------------- MODULE MCRunQueue -----------------------------
(* Instances of RunQueue for TLC: main waits for a, a waits for b, b for   *)
(* c, which is a chain deeper than the pool; d is another task of main's.  *)
EXTENDS RunQueue, TLC

CONSTANTS a, b, c, d

ChainParent == [t \in Tasks |-> IF t = b THEN a ELSE IF t = c THEN b ELSE Main]
=============================================================================
