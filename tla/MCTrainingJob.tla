--------------------------- MODULE MCTrainingJob ---------------------------
(* TrainingJob on small instances. *)
EXTENDS TrainingJob, TLC

CONSTANTS w1, w2, b1, i1, i2, i3, i4, i5, p1, p2

Symmetry == Permutations(Instances) \cup Permutations(Workers) \cup Permutations(Posts)
=============================================================================
