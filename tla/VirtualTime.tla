----------------------------- MODULE VirtualTime -----------------------------
(****************************************************************************)
(* What a virtual clock promises to the code that runs under it: there is   *)
(* an agenda of instants at which something is still to happen, the clock   *)
(* moves only by jumping to the earliest of them, and nothing is ever put   *)
(* on the agenda behind the clock.  So no instant is skipped, and two       *)
(* activities see each other's effects in the order of their instants.      *)
(* EventLoop implements this specification.                                 *)
(****************************************************************************)
EXTENDS Integers

VARIABLES now, agenda

Ahead(t) == \A d \in agenda' : d \in Nat /\ t <= d

Init == now \in Nat /\ \A d \in agenda : d \in Nat /\ now <= d

\* Something planned for the earliest instant happens.
Advance ==
    \E d \in agenda :
        /\ \A e \in agenda : d <= e
        /\ now' = d
        /\ Ahead(d)

\* Activities are planned or withdrawn while the clock stands still.
Plan == now' = now /\ Ahead(now)

Next == Advance \/ Plan

Spec == Init /\ [][Next]_<<now, agenda>>
=============================================================================
