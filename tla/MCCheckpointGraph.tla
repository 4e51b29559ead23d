-------------------------- MODULE MCCheckpointGraph --------------------------
(* Three checkpoints and two processes that may work on old copies. *)
EXTENDS CheckpointGraph, TLC

Symmetry == Permutations(Ids) \cup Permutations(Clients)
=============================================================================
