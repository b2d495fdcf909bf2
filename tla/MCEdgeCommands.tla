--------------------------- MODULE MCEdgeCommands ---------------------------
(* EdgeCommands on small instances. *)
EXTENDS EdgeCommands, TLC

CONSTANTS c1, a1, a2

Symmetry == Permutations(Admins)
=============================================================================
