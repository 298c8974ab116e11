------------------------------ MODULE MCClosing ------------------------------
(* Closing for TLC: order ids are model values. *)
EXTENDS Closing, TLC

CONSTANTS b1, b2, s1, s2
=============================================================================
