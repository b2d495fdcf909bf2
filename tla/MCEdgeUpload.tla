---------------------------- MODULE MCEdgeUpload ----------------------------
(* EdgeUpload on small instances. *)
EXTENDS EdgeUpload, TLC

CONSTANTS r1, r2

Symmetry == Permutations(Requests)
=============================================================================
