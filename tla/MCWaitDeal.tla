----------------------------- MODULE MCWaitDeal -----------------------------
(* WaitDeal for TLC: the objects are interchangeable model values. *)
EXTENDS WaitDeal

CONSTANTS w1, w2

Symmetry == Permutations(Waiters)
=============================================================================
