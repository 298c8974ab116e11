-------------------------- MODULE MCMarketSimulator --------------------------
(* MarketSimulator for TLC: order ids are interchangeable model values. *)
EXTENDS MarketSimulator

CONSTANTS i1, i2, i3, none

Symmetry == Permutations(Ids)
==============================================================================
