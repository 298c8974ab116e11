------------------------------ MODULE TaskGroup ------------------------------
(****************************************************************************)
(* What a Spawner promises to the strategy that joins it: the strategies of *)
(* the group begin and end, and a join that succeeds is answered when none  *)
(* runs, after which none may begin before the joining strategy goes on.    *)
(****************************************************************************)
CONSTANT Tasks

VARIABLES
    live,       \* strategies that have begun and not ended
    join        \* "idle", "pending" or "told"

vars == <<live, join>>

Init == live = {} /\ join = "idle"

Begin(t) == join # "told" /\ t \notin live /\ live' = live \cup {t} /\ UNCHANGED join

\* The last to end tells a pending join.
End(t) ==
    /\ t \in live
    /\ live' = live \ {t}
    /\ join' = IF join = "pending" /\ live' = {} THEN "told" ELSE join

\* Nobody is left to wait for, or somebody is.
Join ==
    /\ join = "idle"
    /\ join' = IF live = {} THEN "told" ELSE "pending"
    /\ UNCHANGED live

\* A join given up: it timed out or its context closed.
GiveUp == join = "pending" /\ join' = "idle" /\ UNCHANGED live

Continue == join = "told" /\ join' = "idle" /\ UNCHANGED live

Next == (\E t \in Tasks : Begin(t) \/ End(t)) \/ Join \/ GiveUp \/ Continue

Spec == Init /\ [][Next]_vars

=============================================================================
