-------------------------- MODULE MCSpawnRegistry --------------------------
(* An instance of SpawnRegistry whose callers are interchangeable. *)
EXTENDS SpawnRegistry, TLC

Symmetry == Permutations(Caller)
=============================================================================
