-------------------------- MODULE MCWorkerHeartbeat --------------------------
(* WorkerHeartbeat on small instances. *)
EXTENDS WorkerHeartbeat, TLC

CONSTANTS h1, h2

Symmetry == Permutations(Handlers)
=============================================================================
