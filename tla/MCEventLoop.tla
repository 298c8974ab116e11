---------------------------- MODULE MCEventLoop ----------------------------
(* EventLoop for TLC: two recordings of two data sources, numbered in the   *)
(* order in which they were added.                                          *)
EXTENDS EventLoop

CONSTANTS o1, o2, none, unlimited

From(t, n) == [first |-> t, records |-> n]

\* In one the second source leads up to the only record of the first; in the
\* other the sources overlap and may take turns.
TwoRecordings == {<<From(4, 1), From(0, 3)>>, <<From(0, 2), From(2, 2)>>}
============================================================================
