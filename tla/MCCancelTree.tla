---------------------------- MODULE MCCancelTree ----------------------------
(* Instances of CancelTree for TLC.                                        *)
EXTENDS CancelTree, TLC

(* Tokens and threads are interchangeable: no definition singles one out.  *)
Symmetry == Permutations(Tokens) \cup Permutations(Threads)
=============================================================================
