--------------------------- MODULE MCSubscriptions ---------------------------
(* Subscriptions for TLC: the objects are interchangeable model values. *)
EXTENDS Subscriptions, TLC

CONSTANTS a, b, c

Symmetry == Permutations(Objects)
=============================================================================
