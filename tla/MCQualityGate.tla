--------------------------- MODULE MCQualityGate ---------------------------
(* QualityGate on small instances. *)
EXTENDS QualityGate, TLC

CONSTANTS g1, g2, r1, r2, r3

Symmetry == Permutations(Pieces) \cup Permutations(Requests)
=============================================================================
