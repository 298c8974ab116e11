--------------------------- MODULE MCAsyncOrders ---------------------------
(* AsyncOrders for TLC: ids and operations are interchangeable values. *)
EXTENDS AsyncOrders

CONSTANTS i1, i2, i3, o1, o2, o3, none

Symmetry == Permutations(Ids) \cup Permutations(Ops)
============================================================================
