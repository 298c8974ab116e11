------------------------------ MODULE MCSpawner ------------------------------
(* Spawner for TLC: the strategies are interchangeable model values. *)
EXTENDS Spawner, TLC

CONSTANTS t1, t2, o

Symmetry == Permutations(Tasks)
=============================================================================
