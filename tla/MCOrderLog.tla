------------------------------ MODULE MCOrderLog ------------------------------
(* OrderLog for TLC. *)
EXTENDS OrderLog, TLC

Levels == 1..3
=============================================================================
