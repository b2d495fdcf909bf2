---------------------------- MODULE MCLocalStream ----------------------------
(* LocalStream on small instances. *)
EXTENDS LocalStream, TLC

CONSTANTS r1, r2, w1, w2, p1, p2, p3

Symmetry == Permutations(Requests) \cup Permutations(Workers) \cup Permutations(Procs)
=============================================================================
