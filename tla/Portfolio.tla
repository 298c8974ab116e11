------------------------------ MODULE Portfolio ------------------------------
(****************************************************************************)
(* What a Portfolio computes from the order events of one instrument: the   *)
(* position, first in first out, the order that closes it, the orders that  *)
(* are open, the number of deals and the profit.  The log grows by one      *)
(* event at a time, each one that an exchange may report (see Exchange).    *)
(****************************************************************************)
EXTENDS Integers, SequencesExt

CONSTANTS
    Ids,        \* order ids
    Prices,     \* prices of deals
    MaxSize,    \* bound: volume of an order
    MaxEvents   \* bound: length of the log

ASSUME PricesAssumption == Prices \subseteq Int
ASSUME BoundsAssumption == MaxSize \in Nat /\ MaxEvents \in Nat

VARIABLE log    \* Portfolio::m_orders of the instrument

OrderEvent == [id : Ids, dir : {"Bid", "Ask"}, status : {"Add", "Fill", "Cancel"},
               volume : 0..MaxSize, price : Prices \cup {0}, rest : 0..MaxSize]

LogOK == log \in Seq(OrderEvent)

-----------------------------------------------------------------------------
(* utils.cpp and portfolio.cpp *)

IsFill(e) == e.status = "Fill"

\* Mutant of Round: the newest entry goes first.
RoundLast(c) ==
    IF c.volume = 0 \/ c.queue = <<>> THEN c
    ELSE IF Last(c.queue).volume > c.volume
         THEN [queue |-> [c.queue EXCEPT ![Len(c.queue)].volume = @ - c.volume], volume |-> 0]
    ELSE [queue |-> Front(c.queue), volume |-> c.volume - Last(c.queue).volume]

\* One round of the loop in which a deal uses up entries from the front
Round(c) ==
    IF c.volume = 0 \/ c.queue = <<>> THEN c
    ELSE IF Head(c.queue).volume > c.volume
         THEN [queue |-> [c.queue EXCEPT ![1].volume = @ - c.volume], volume |-> 0]
    ELSE [queue |-> Tail(c.queue), volume |-> c.volume - Head(c.queue).volume]

\* The state of that loop after each round: a round ends an entry or the deal.
Rounds(p, v) ==
    LET loop[k \in 0..Len(p)] ==
            IF k = 0 THEN [queue |-> p, volume |-> v] ELSE Round(loop[k - 1])
    IN  loop

\* A deal of the other side uses entries up; what is left of it is a position
\* of its own.
Consumed(p, e) ==
    LET c == Rounds(p, e.volume)[Len(p)] IN
    IF c.volume = 0 THEN c.queue ELSE Append(c.queue, [e EXCEPT !.volume = c.volume])

\* Mutant of Dealt: deals of the other side do not use it up.
DealtNever(p, e) == Append(p, e)

Dealt(p, e) == IF p = <<>> \/ Last(p).dir = e.dir THEN Append(p, e) ELSE Consumed(p, e)

\* _position: the loop over the events
Positions(s) ==
    LET loop[k \in 0..Len(s)] ==
            IF k = 0 THEN <<>>
            ELSE IF IsFill(s[k]) THEN Dealt(loop[k - 1], s[k]) ELSE loop[k - 1]
    IN  loop

Position(s) == Positions(s)[Len(s)]

\* The sum of the first n values of f
Total(f, n) ==
    LET sum[k \in 0..n] == IF k = 0 THEN 0 ELSE sum[k - 1] + f[k]
    IN  sum[n]

Volume(p) == Total([k \in DOMAIN p |-> p[k].volume], Len(p))

\* Mutant of ClosingOrder: it repeats the position.
ClosingOrderSame(p) == [dir |-> Head(p).dir, volume |-> Volume(p)]

\* Portfolio::closing_order of a position p that is not empty
ClosingOrder(p) ==
    [dir |-> IF Head(p).dir = "Bid" THEN "Ask" ELSE "Bid", volume |-> Volume(p)]

\* Whether the event at k is the last one of its order
IsLatest(s, k) == \A j \in (k + 1)..Len(s) : s[j].id # s[k].id

\* Mutant of OpenOrders: filled orders stay.
OpenOrdersKept(s) == {s[k] : k \in {j \in DOMAIN s : IsLatest(s, j) /\ s[j].status # "Cancel"}}

\* _orders: the last event of each order, unless it ended the order
OpenOrders(s) ==
    {s[k] : k \in {j \in DOMAIN s : IsLatest(s, j) /\ s[j].status # "Cancel" /\ s[j].rest # 0}}

\* One price for each unit traded on a side
UnitsOf(e, d) == IF IsFill(e) /\ e.dir = d THEN [u \in 1..e.volume |-> e.price] ELSE <<>>

Units(s, d) ==
    LET loop[k \in 0..Len(s)] == IF k = 0 THEN <<>> ELSE loop[k - 1] \o UnitsOf(s[k], d)
    IN  loop[Len(s)]

\* calc_profit: the units of the two sides in pairs
Profit(s) ==
    LET bids == Units(s, "Bid")
        asks == Units(s, "Ask")
        pairs == Min({Len(bids), Len(asks)})
    IN  Total([k \in 1..pairs |-> asks[k] - bids[k]], pairs)

-----------------------------------------------------------------------------
(* The events *)

\* What the log says of order i: the last event reported of it
Known(i) == \E k \in DOMAIN log : log[k].id = i
Latest(i) == log[Max({k \in DOMAIN log : log[k].id = i})]

Added(i) ==
    /\ ~Known(i)
    /\ \E d \in {"Bid", "Ask"}, v \in 1..MaxSize :
         log' = Append(log, [id |-> i, dir |-> d, status |-> "Add", volume |-> v,
                             price |-> 0, rest |-> v])

Filled(i) ==
    /\ Known(i) /\ Latest(i).status # "Cancel"
    /\ \E v \in 1..Latest(i).rest, p \in Prices :
         log' = Append(log, [Latest(i) EXCEPT !.status = "Fill", !.volume = v,
                                              !.price = p, !.rest = @ - v])

Withdrawn(i) ==
    /\ Known(i) /\ Latest(i).status # "Cancel" /\ Latest(i).rest > 0
    /\ log' = Append(log, [Latest(i) EXCEPT !.status = "Cancel", !.rest = 0])

LogInit == log = <<>>

LogNext == Len(log) < MaxEvents /\ \E i \in Ids : Added(i) \/ Filled(i) \/ Withdrawn(i)

LogSpec == LogInit /\ [][LogNext]_log

-----------------------------------------------------------------------------
(* Properties *)

Signed(e, n) == IF e.dir = "Bid" THEN n ELSE -n

\* What the deals of a log add up to, bought minus sold, and what they brought,
\* received minus paid
Net(s) == Total([k \in DOMAIN s |-> IF IsFill(s[k]) THEN Signed(s[k], s[k].volume) ELSE 0], Len(s))
Cash(s) ==
    Total([k \in DOMAIN s |-> IF IsFill(s[k]) THEN -Signed(s[k], s[k].volume * s[k].price) ELSE 0],
          Len(s))

\* The queue of partly used deals is one-sided and without empty entries, and
\* its volume is what the deals add up to, over every change of sides.
PositionIsNet ==
    LET p == Position(log)
    IN  /\ \A k \in DOMAIN p : p[k].volume > 0 /\ p[k].dir = p[1].dir
        /\ Net(p) = Net(log)

PositionInv == LogOK /\ PositionIsNet

\* The closing order, once filled in whatever parts, leaves no position.
ClosingOrderCloses ==
    LET p == Position(log)
        c == ClosingOrder(p)
        Deal(v) == [id |-> log[1].id, dir |-> c.dir, status |-> "Fill", volume |-> v,
                    price |-> 0, rest |-> c.volume - v]
    IN  p # <<>> => \A v \in 1..c.volume :
            Position(log \o <<Deal(v)>> \o (IF v = c.volume THEN <<>>
                                            ELSE <<Deal(c.volume - v)>>)) = <<>>

\* Profit and position are computed independently and account for every unit:
\* what was paid and received is the profit of the pairs plus what the open
\* position cost.
MoneyAccounted == Cash(log) = Profit(log) + Cash(Position(log))

\* The open orders are those with a volume that is neither traded nor taken
\* back, each with exactly this volume.
OpenOrdersExact ==
    LET Sum(i, st) == Total([k \in DOMAIN log |-> IF log[k].id = i /\ log[k].status = st
                                                  THEN log[k].volume ELSE 0], Len(log))
        Unfilled(i) == Sum(i, "Add") - Sum(i, "Fill")
        Ended(i) == \E k \in DOMAIN log : log[k].id = i /\ log[k].status = "Cancel"
    IN  {<<e.id, e.rest>> : e \in OpenOrders(log)}
            = {<<i, Unfilled(i)>> : i \in {j \in Ids : Unfilled(j) > 0 /\ ~Ended(j)}}

=============================================================================
