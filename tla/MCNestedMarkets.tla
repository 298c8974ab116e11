--------------------------- MODULE MCNestedMarkets ---------------------------
(* NestedMarkets for TLC: two siblings, one of them with a market below. *)
EXTENDS NestedMarkets, TLC

CONSTANTS r, a, b, c, i1, i2

MCParent == (a :> r) @@ (b :> r) @@ (c :> a)

Symmetry == Permutations(Ids)
=============================================================================
