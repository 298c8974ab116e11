----------------------------- MODULE MCPortfolio -----------------------------
(* Portfolio for TLC: order ids are interchangeable model values. *)
EXTENDS Portfolio, TLC

CONSTANTS i1, i2, i3

Symmetry == Permutations(Ids)
=============================================================================
