------------------------------- MODULE Exchange -------------------------------
(****************************************************************************)
(* What the exchange promises about each order, whatever its book looks     *)
(* like: an order is placed once, may be refused, taken or silently         *)
(* dropped, and from then on only shrinks; when it is filled or cancelled   *)
(* it is over for good.  MarketSimulator implements this specification, and *)
(* AsyncOrders is checked against an exchange that does no more than this.  *)
(****************************************************************************)
EXTENDS Integers

CONSTANTS Ids, MaxVolume

VARIABLES
    state,   \* per order: where it is in its life
    rest     \* per order: what of its volume is not executed yet

Over == {"refused", "dropped", "filled", "cancelled", "lost"}
States == {"unknown", "open"} \cup Over

Init == state = [i \in Ids |-> "unknown"] /\ rest = [i \in Ids |-> 0]

\* An order is answered in the step it is placed in: it stays open with what
\* could not be executed, or is over at once.
Place(i) ==
    /\ state[i] = "unknown"
    /\ \/ state'[i] \in {"refused", "dropped", "filled"} /\ rest'[i] = 0
       \/ state'[i] \in {"open", "cancelled", "lost"} /\ rest'[i] \in 1..MaxVolume

\* A fill leaves less, and nothing exactly when the order is filled.
Fill(i) ==
    /\ state[i] = "open"
    /\ rest'[i] \in 0..(rest[i] - 1)
    /\ state'[i] = IF rest'[i] = 0 THEN "filled" ELSE "open"

Cancel(i) ==
    /\ state[i] = "open"
    /\ state'[i] = "cancelled" /\ rest'[i] = rest[i]

Keep(i) == state'[i] = state[i] /\ rest'[i] = rest[i]

\* One request or one deal of the market may move several orders.
Next ==
    /\ state' \in [Ids -> States] /\ rest' \in [Ids -> 0..MaxVolume]
    /\ \A i \in Ids : Place(i) \/ Fill(i) \/ Cancel(i) \/ Keep(i)

Spec == Init /\ [][Next]_<<state, rest>>
=============================================================================
