---------------------------- MODULE MCAutoRetrain ----------------------------
(* AutoRetrain on small instances. *)
EXTENDS AutoRetrain, TLC

CONSTANTS t1, t2, f1, f2, c1, c2, j1, j2, j3

Symmetry == Permutations(Frames) \cup Permutations(Checks) \cup Permutations(Jobs)
=============================================================================
