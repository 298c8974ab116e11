------------------------------- MODULE WaitDeal -------------------------------
(****************************************************************************)
(* Waiting for the deals of one order: a WaitDeal object remembers how many *)
(* of the order's fills it has handed out (impl.deals); each async_wait     *)
(* hands out the fills that came since, at once if there are any, or when   *)
(* the next comes, or ("entire") when the order is filled completely.       *)
(*                                                                          *)
(* The order's events are any an exchange may send (Exchange.tla), and      *)
(* reach the History before the waits, in one publication.  Of the History  *)
(* the model keeps what async_wait reads: the fills and the last event.     *)
(****************************************************************************)
EXTENDS Integers, SequencesExt

CONSTANTS
    Waiters,    \* WaitDeal objects on the order
    MaxVolume,  \* volume of the order
    MaxWaits    \* bound: waits started per object

ASSUME VolumeAssumption == MaxVolume \in Nat \ {0}
ASSUME WaitsAssumption == MaxWaits \in Nat

VARIABLES
    fills,      \* the fills in History::m_orders[order_id]
    status,     \* the status of its last event: "None", "Add", "Fill" or "Cancel"
    deals,      \* impl.deals: fills handed out, by object
    waits,      \* m_deals[order_id]: the object's wait, if one is pending
    closed,     \* TradingContext::m_closed
    posted,     \* history variable: the completions posted, by object
    handed      \* history variable: the fills in them, one after another

history == <<fills, status>>
completed == <<posted, handed>>
vars == <<history, deals, waits, closed, completed>>

\* A fill, with what is left of the order
Event == [rest : 0..MaxVolume]
Errcs == {"success", "OrderCanceled", "OrderFilled", "MakeDealTimeout", "CtxClosed",
          "OperationAborted"}
Wait == [pending : BOOLEAN, entire : BOOLEAN, buffer : Seq(Event)]
Completions == [errc : Errcs, fills : Seq(Event), entire : BOOLEAN]
NoWait == [pending |-> FALSE, entire |-> FALSE, buffer |-> <<>>]

TypeOK ==
    /\ fills \in Seq(Event) /\ status \in {"None", "Add", "Fill", "Cancel"}
    /\ deals \in [Waiters -> Nat]
    /\ waits \in [Waiters -> Wait]
    /\ closed \in BOOLEAN
    /\ posted \in [Waiters -> Seq(Completions)]
    /\ handed \in [Waiters -> Seq(Event)]

Cancelled == status = "Cancel"
AllFilled == fills # <<>> /\ Last(fills).rest = 0
Over == Cancelled \/ AllFilled

Completion(errc, result, entire) == [errc |-> errc, fills |-> result, entire |-> entire]

\* The objects in the domain of c get a completion each.
Complete(c) ==
    /\ posted' = [w \in Waiters |-> IF w \in DOMAIN c THEN Append(posted[w], c[w]) ELSE posted[w]]
    /\ handed' = [w \in Waiters |-> IF w \in DOMAIN c THEN handed[w] \o c[w].fills ELSE handed[w]]

Post(w, c) == Complete([v \in {w} |-> c])

-----------------------------------------------------------------------------
(* Events of the order *)

Pending == {w \in Waiters : waits[w].pending}
Advanced(n, result) == n + Len(result)

\* A fill ends a wait unless it waits for the entire order.
Ends(wait, e) == ~wait.entire \/ e.rest = 0
Filling(wait, e) == Append(wait.buffer, e)

\* What is left of the order
Left == IF fills = <<>> THEN MaxVolume ELSE Last(fills).rest

\* The exchange takes the order; nobody can wait before it did (get_order_by_id throws).
Accept ==
    /\ status = "None" /\ status' = "Add"
    /\ UNCHANGED <<fills, deals, waits, closed, completed>>

Fill ==
    /\ status \in {"Add", "Fill"} /\ ~Over /\ status' = "Fill"
    /\ \E r \in 0..(Left - 1) :
         LET e == [rest |-> r]
             ends == {w \in Pending : Ends(waits[w], e)}
         IN  /\ fills' = Append(fills, e)
             /\ Complete([w \in ends |-> Completion("success", Filling(waits[w], e), waits[w].entire)])
             /\ deals' = [w \in Waiters |->
                            IF w \in ends THEN Advanced(deals[w], Filling(waits[w], e)) ELSE deals[w]]
             /\ waits' = [w \in Waiters |->
                            IF w \in ends THEN NoWait
                            ELSE IF w \in Pending
                            THEN [waits[w] EXCEPT !.buffer = Filling(waits[w], e)]
                            ELSE waits[w]]
    /\ UNCHANGED closed

\* A cancellation ends all waits.
Cancel ==
    /\ status \in {"Add", "Fill"} /\ ~Over /\ status' = "Cancel"
    /\ Complete([w \in Pending |-> Completion("OrderCanceled", waits[w].buffer, waits[w].entire)])
    /\ deals' = [w \in Waiters |->
                   IF w \in Pending THEN Advanced(deals[w], waits[w].buffer) ELSE deals[w]]
    /\ waits' = [w \in Waiters |-> NoWait]
    /\ UNCHANGED <<fills, closed>>

-----------------------------------------------------------------------------
(* WaitDeal::async_wait *)

\* The fills object w has not handed out yet
Unread(w) == SubSeq(fills, deals[w] + 1, Len(fills))

\* Mutant of Buffered: the wait starts with an empty buffer.
BufferedNone(w) == <<>>

\* What a wait that stays pending starts from
Buffered(w) == Unread(w)

\* Mutant of OverAlready: only a complete fill is looked for.
OverAlreadyFilled == AllFilled

\* All the fills are handed out, and no more will come.
OverAlready == Cancelled \/ AllFilled

Started(w) ==
    /\ status # "None" /\ ~waits[w].pending /\ Len(posted[w]) < MaxWaits
    /\ UNCHANGED <<history, closed>>

\* The context is closed already.
WaitRefused(w) ==
    /\ Started(w) /\ closed
    /\ \E entire \in BOOLEAN : Post(w, Completion("CtxClosed", <<>>, entire))
    /\ UNCHANGED <<deals, waits>>

\* There are fills to hand out, and they are all that was asked for, or will be.
WaitServed(w) ==
    /\ Started(w) /\ ~closed /\ Unread(w) # <<>>
    /\ \E entire \in BOOLEAN :
         \/ /\ ~entire \/ AllFilled
            /\ Post(w, Completion("success", Unread(w), entire))
         \/ /\ entire /\ ~AllFilled /\ Cancelled
            /\ Post(w, Completion("OrderCanceled", Unread(w), entire))
    /\ deals' = [deals EXCEPT ![w] = Advanced(@, Unread(w))]
    /\ UNCHANGED waits

WaitOver(w) ==
    /\ Started(w) /\ ~closed /\ Unread(w) = <<>> /\ fills # <<>> /\ OverAlready
    /\ \E entire \in BOOLEAN :
         Post(w, Completion(IF Cancelled THEN "OrderCanceled" ELSE "OrderFilled", <<>>, entire))
    /\ UNCHANGED <<deals, waits>>

\* The wait is recorded; also when the order was cancelled without any fill.
WaitPending(w) ==
    /\ Started(w) /\ ~closed
    /\ \E entire \in BOOLEAN :
         /\ IF Unread(w) # <<>> THEN entire /\ ~AllFilled /\ ~Cancelled
            ELSE fills # <<>> => ~OverAlready
         /\ waits' = [waits EXCEPT ![w] = [pending |-> TRUE, entire |-> entire,
                                           buffer |-> Buffered(w)]]
    /\ UNCHANGED <<deals, completed>>

-----------------------------------------------------------------------------
(* Other ends of a wait *)

\* The Task of a wait with a duration runs, or WaitDeal::cancel is called: the
\* buffer goes with the record, but deals still counts what was handed out.
Dropped(w) ==
    /\ waits[w].pending
    /\ \E errc \in {"MakeDealTimeout", "OperationAborted"} :
         Post(w, Completion(errc, <<>>, waits[w].entire))
    /\ waits' = [waits EXCEPT ![w] = NoWait]
    /\ UNCHANGED <<history, deals, closed>>

Close ==
    /\ ~closed /\ closed' = TRUE
    /\ Complete([w \in Pending |-> Completion("CtxClosed", <<>>, waits[w].entire)])
    /\ waits' = [w \in Waiters |-> NoWait]
    /\ UNCHANGED <<history, deals>>

Init ==
    /\ fills = <<>> /\ status = "None"
    /\ deals = [w \in Waiters |-> 0]
    /\ waits = [w \in Waiters |-> NoWait]
    /\ closed = FALSE
    /\ posted = [w \in Waiters |-> <<>>] /\ handed = [w \in Waiters |-> <<>>]

Next ==
    \/ Accept \/ Fill \/ Cancel \/ Close
    \/ \E w \in Waiters :
         WaitRefused(w) \/ WaitServed(w) \/ WaitOver(w) \/ WaitPending(w) \/ Dropped(w)

Spec == Init /\ [][Next]_vars
-----------------------------------------------------------------------------
(* Properties *)

\* Every fill is handed out by an object exactly once and in order, whatever
\* waits timed out, were aborted or were cut short by a cancellation between:
\* what all its completions carry is a prefix of the fills, the one deals counts.
FillsOnceInOrder ==
    \A w \in Waiters : handed[w] = SubSeq(fills, 1, deals[w])

\* A wait for the entire order that succeeds has seen it filled completely.
EntireIsFilled ==
    \A w \in Waiters : \A k \in DOMAIN posted[w] :
        posted[w][k].entire /\ posted[w][k].errc = "success"
            => AllFilled /\ Last(posted[w][k].fills) = Last(fills)

\* The fills a strategy is given can be relied on.
FillsInv == TypeOK /\ FillsOnceInOrder /\ EntireIsFilled

\* A wait is pending only while something can still end it; the exception is an
\* order cancelled without any fill, on which a wait begun afterwards stays.
NobodyWaitsInVain ==
    \A w \in Waiters : waits[w].pending /\ Over => fills = <<>>
=============================================================================
