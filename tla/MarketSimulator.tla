--------------------------- MODULE MarketSimulator ---------------------------
(****************************************************************************)
(* The backtester's exchange: MarketSimulator matches an incoming order     *)
(* against the recorded book of quotes, which own orders never consume, and *)
(* SimpleMarketSimulator fills resting own orders from the recorded deals   *)
(* ("ticks"), after the volume that stood before them in the queue.         *)
(*                                                                          *)
(* One instrument is modelled; the simulator keeps instruments apart.       *)
(* Prices are the integer prices of BOrder and BQuote; the price of a       *)
(* market order is 0, as Order's constructor leaves it.  Bids and asks are  *)
(* handled by mirrored traits (BidOrder/AskOrder, BuyDeal/SellDeal), here   *)
(* by the direction d of the aggressor.                                     *)
(****************************************************************************)
EXTENDS Integers, SequencesExt

CONSTANTS
    Ids,        \* order ids, each used for one order
    NoOrder,    \* nothing was placed under an id
    Prices,     \* prices of quotes, deals and limits
    Types,      \* the order types placed
    MaxVolume,  \* bound: volume of an order
    MaxQuote,   \* bound: volume of a quote
    MaxTick     \* bound: volume of a deal

ASSUME PricesAssumption == 
    Prices \subseteq Nat \ {0} /\ Prices # {} /\ IsFiniteSet(Prices)
ASSUME TypesAssumption == Types \subseteq {"Market", "Limit", "Counter", "FillOrKill"}
ASSUME VolumesAssumption == MaxVolume \in Nat /\ MaxQuote \in Nat /\ MaxTick \in Nat

VARIABLES
    book,       \* the recorded quotes: volume asked at a price, negated if bid
    orders,     \* m_orders: the resting own orders by id
    history,    \* what order_handler was told about each order
    refused,    \* ids order_error_handler was told about for an Add
    halted,     \* AddOrderException left the program
    placed      \* history variable: what was asked for under each id

vars == <<book, orders, history, refused, halted, placed>>

Dirs == {"Bid", "Ask"}
Opposite(d) == IF d = "Bid" THEN "Ask" ELSE "Bid"

Request == [dir : Dirs, type : Types, price : Prices \cup {0}, volume : 0..MaxVolume]
Resting == [dir : Dirs, price : Prices, volume : 1..MaxVolume, before : 0..MaxQuote]
Report  == [status : {"Add", "Fill", "Cancel"}, volume : 1..MaxVolume,
            rest : 0..MaxVolume, at : Prices \cup {0}]

ASSUME NoOrderAssumption == NoOrder \notin Request

Live == DOMAIN orders

TypeOK ==
    /\ book \in [Prices -> -MaxQuote..MaxQuote]
    /\ Live \subseteq Ids /\ orders \in [Live -> Resting]
    /\ history \in [Ids -> Seq(Report)]
    /\ refused \subseteq Ids
    /\ halted \in BOOLEAN
    /\ placed \in [Ids -> Request \cup {NoOrder}]

-----------------------------------------------------------------------------
(* Prices as an aggressor of direction d sees them *)

\* The traits' before(): a buyer takes low prices first, a seller high ones.
Before(d, p, q) == IF d = "Bid" THEN p < q ELSE p > q

Best(d, S) == CHOOSE p \in S : \A q \in S : ~Before(d, q, p)

\* What is quoted at p against an order of direction d, and on its own side
Quoted(d, p) == IF d = "Bid" THEN book[p] ELSE -book[p]
Offers(d) == {p \in Prices : Quoted(d, p) > 0}

\* The volume an order that comes to rest finds before it
QueueAt(d, p) == Max({0, -Quoted(d, p)})

-----------------------------------------------------------------------------
(* MarketSimulator::_add_order *)

\* The order would trade with an own order that is as good as the best quote.
CrossesOwn(o, live) ==
    LET own == {live[i].price : i \in {j \in DOMAIN live : live[j].dir # o.dir}}
    IN  /\ own # {} /\ Offers(o.dir) # {}
        /\ ~Before(o.dir, Best(o.dir, Offers(o.dir)), Best(o.dir, own))
        /\ ~Before(o.dir, o.price, Best(o.dir, own))

Filled(v, r, p) == [status |-> "Fill", volume |-> v, rest |-> r, at |-> p]

\* Mutant of BestFirst: sorted without the traits, lowest price first.
BestFirstLowest(d) ==
    CHOOSE s \in SetToSeqs(Offers(d)) : \A a, b \in DOMAIN s : a < b => s[a] < s[b]

BestFirst(d) ==
    CHOOSE s \in SetToSeqs(Offers(d)) : \A a, b \in DOMAIN s : a < b => Before(d, s[a], s[b])

\* Mutant of Beyond: the arguments of before() swapped.
BeyondSwapped(o, p) == Before(o.dir, p, o.price) /\ o.type # "Market"

Beyond(o, p) == Before(o.dir, o.price, p) /\ o.type # "Market"

\* The loop over the quotes: each is taken up to its volume until nothing is
\* left of the order or the quote is beyond its limit.
Take(o, acc, p) ==
    IF acc.volume = 0 \/ acc.beyond THEN acc
    ELSE IF Beyond(o, p) THEN [acc EXCEPT !.beyond = TRUE]
    ELSE LET v == Min({Quoted(o.dir, p), acc.volume}) IN
         [acc EXCEPT !.volume = @ - v,
                     !.fills = Append(@, Filled(v, acc.volume - v, p))]

\* The state of the loop after each quote
Swept(o) ==
    LET quotes == BestFirst(o.dir)
        loop[k \in 0..Len(quotes)] ==
            IF k = 0 THEN [volume |-> o.volume, beyond |-> FALSE, fills |-> <<>>]
            ELSE Take(o, loop[k - 1], quotes[k])
    IN  loop

Sweep(o) == Swept(o)[Len(BestFirst(o.dir))]

Cancelled(v) == [status |-> "Cancel", volume |-> v, rest |-> 0, at |-> 0]
Accepted(v) == [status |-> "Add", volume |-> v, rest |-> v, at |-> 0]

\* Mutant of Executions: executed_orders is not cleared for a fill-or-kill order.
ExecutionsKept(o, s) ==
    IF s.volume = 0 \/ o.type = "Limit" THEN s.fills
    ELSE Append(s.fills, Cancelled(s.volume))

\* What is reported of an order the sweep could decide
Executions(o, s) ==
    IF s.volume = 0 \/ o.type = "Limit" THEN s.fills
    ELSE IF o.type = "Counter" THEN Append(s.fills, Cancelled(s.volume))
    ELSE <<Cancelled(o.volume)>>

\* The rest of an order is pushed back to m_orders.
Rested(i, o, v, live) ==
    [j \in DOMAIN live \cup {i} |->
        IF j = i THEN [dir |-> o.dir, price |-> o.price, volume |-> v,
                       before |-> QueueAt(o.dir, o.price)]
        ELSE live[j]]

\* add_order for request o under id i, when the resting orders are live and
\* the handlers have been told told.
Submit(i, o, live, told) ==
    LET s == Sweep(o)
        added == [told EXCEPT ![i] = Append(@, Accepted(o.volume))]
    IN
    \/ /\ o.volume <= 0
       /\ orders' = live /\ history' = told /\ UNCHANGED <<refused, halted>>
    \/ /\ o.volume > 0 /\ CrossesOwn(o, live)
       /\ refused' = refused \cup {i}
       /\ orders' = live /\ history' = told /\ UNCHANGED halted
    \/ /\ o.volume > 0 /\ ~CrossesOwn(o, live)
       /\ s.volume > 0 /\ ~s.beyond
       /\ halted' = TRUE
       /\ orders' = live /\ history' = added /\ UNCHANGED refused
    \/ /\ o.volume > 0 /\ ~CrossesOwn(o, live)
       /\ s.volume = 0 \/ s.beyond
       /\ history' = [added EXCEPT ![i] = @ \o Executions(o, s)]
       /\ orders' = IF s.volume > 0 /\ o.type = "Limit"
                    THEN Rested(i, o, s.volume, live) ELSE live
       /\ UNCHANGED <<refused, halted>>

-----------------------------------------------------------------------------
(* SimpleMarketSimulator::_handle_tick *)

\* The ids in the order std::sort may leave m_orders in: by price, then by the
\* queue before them; among equals any order.
Sorted(d, live) ==
    LET Ahead(i, j) == \/ Before(d, live[i].price, live[j].price)
                       \/ /\ live[i].price = live[j].price
                          /\ live[i].before < live[j].before
    IN  {s \in SetToSeqs(DOMAIN live) :
            \A a, b \in DOMAIN s : a < b => ~Ahead(s[b], s[a])}

Execute(acc, i, w) ==
    IF w = 0 THEN acc
    ELSE [acc EXCEPT !.volume = @ - w,
                     !.orders[i].volume = @ - w,
                     !.told[i] = Append(@, Filled(w, acc.orders[i].volume - w,
                                                  acc.orders[i].price))]

\* Mutant of PastQueue: the volume standing before the order is ignored.
PastQueueIgnored(v, e) == v

\* What of a volume v at the order's price gets past the queue before it
PastQueue(v, e) == v - e.before

\* The loop of a deal at price p whose aggressor has direction d comes to the
\* order of id i.
Visit(d, p, acc, i) ==
    LET e == acc.orders[i]
        here == [acc EXCEPT !.started = @ \/ e.dir = Opposite(d)]
        front == [here EXCEPT !.orders[i].before = 0]
    IN  IF acc.finished \/ ~here.started THEN acc
        ELSE IF Before(d, p, e.price) THEN [acc EXCEPT !.finished = TRUE]
        ELSE IF Before(d, e.price, p)
        THEN Execute(front, i, Min({acc.volume, e.volume}))
        ELSE IF acc.volume <= 0 THEN [acc EXCEPT !.finished = TRUE]
        ELSE IF PastQueue(acc.volume, e) <= 0
        THEN [here EXCEPT !.orders[i].before = @ - acc.volume]
        ELSE Execute(front, i, Min({PastQueue(acc.volume, e), e.volume}))

\* A deal of volume v passes the resting orders in sequence s, from the first of
\* the opposite direction on: the state of the loop after each of them.
Visits(d, p, v, s) ==
    LET loop[k \in 0..Len(s)] ==
            IF k = 0 THEN [volume |-> v, orders |-> orders, told |-> history,
                           started |-> FALSE, finished |-> FALSE]
            ELSE Visit(d, p, loop[k - 1], s[k])
    IN  loop

Deal(d, p, v, s) == Visits(d, p, v, s)[Len(s)]

Remaining(live) == Restrict(live, {i \in DOMAIN live : live[i].volume > 0})

-----------------------------------------------------------------------------
(* Requests, deals and quotes *)

AddOrder ==
    /\ ~halted
    /\ \E i \in Ids, o \in Request :
         /\ placed[i] = NoOrder
         /\ o.type = "Market" <=> o.price = 0
         /\ placed' = [placed EXCEPT ![i] = o]
         /\ Submit(i, o, orders, history)
    /\ UNCHANGED book

\* _del_order; an unknown id is reported through order_error_handler and
\* changes nothing.
Without(i) == Restrict(orders, Live \ {i})

\* Mutant of CancelReported: the order goes without a word.
CancelUnreported(i) == history

CancelReported(i) == [history EXCEPT ![i] = Append(@, Cancelled(orders[i].volume))]

DelOrder ==
    /\ ~halted
    /\ \E i \in Live : orders' = Without(i) /\ history' = CancelReported(i)
    /\ UNCHANGED <<book, refused, halted, placed>>

\* The order is cancelled and a limit order placed in its stead, with its
\* remaining volume unless another is given; that one may be refused.
MoveOrder ==
    /\ ~halted
    /\ \E i \in Live, j \in Ids, p \in Prices, v \in 0..MaxVolume :
         /\ placed[j] = NoOrder
         /\ LET o == [dir |-> orders[i].dir, type |-> "Limit", price |-> p,
                      volume |-> IF v # 0 THEN v ELSE orders[i].volume]
            IN  /\ placed' = [placed EXCEPT ![j] = o]
                /\ Submit(j, o, Without(i), CancelReported(i))
    /\ UNCHANGED book

\* handle_tick: what is filled completely is erased.
Tick ==
    /\ ~halted
    /\ \E d \in Dirs, p \in Prices, v \in 1..MaxTick : \E s \in Sorted(d, orders) :
         LET t == Deal(d, p, v, s) IN
         orders' = Remaining(t.orders) /\ history' = t.told
    /\ UNCHANGED <<book, refused, halted, placed>>

\* The recorded book is never crossed; handle_stocks is switched off, so it
\* touches no own order.
Uncrossed(b) == \A p, q \in Prices : b[p] > 0 /\ b[q] < 0 => q < p

Stocks ==
    /\ ~halted
    /\ \E p \in Prices, v \in -MaxQuote..MaxQuote :
         book' = [book EXCEPT ![p] = v]
    /\ Uncrossed(book')
    /\ UNCHANGED <<orders, history, refused, halted, placed>>

Stopped == halted /\ UNCHANGED vars

Init ==
    /\ book \in [Prices -> -MaxQuote..MaxQuote] /\ Uncrossed(book)
    /\ orders = <<>>
    /\ history = [i \in Ids |-> <<>>]
    /\ refused = {}
    /\ halted = FALSE
    /\ placed = [i \in Ids |-> NoOrder]

Next == AddOrder \/ DelOrder \/ MoveOrder \/ Tick \/ Stocks \/ Stopped

Spec == Init /\ [][Next]_vars
-----------------------------------------------------------------------------
(* Properties *)

IsOver(r) == r.status = "Cancel" \/ (r.status = "Fill" /\ r.rest = 0)

\* The sum of the first n values of f
Total(f, n) ==
    LET sum[k \in 0..n] == IF k = 0 THEN 0 ELSE sum[k - 1] + f[k]
    IN  sum[n]

\* The volume of a prefix of an order's reports that was executed
Executed(h, n) ==
    Total([k \in 1..n |-> IF h[k].status = "Fill" THEN h[k].volume ELSE 0], n)

\* The reports of an order add up, however many requests, deals and moves it
\* went through: it is accepted once, every fill reports exactly what is left,
\* nothing follows the report that ends it, and the order rests in m_orders,
\* with the volume its reports leave, exactly as long as it has not ended.
OrderLedger ==
    \A i \in Ids : history[i] # <<>> =>
        LET h == history[i]
            left(n) == placed[i].volume - Executed(h, n)
            last == h[Len(h)]
        IN  /\ h[1] = Accepted(placed[i].volume)
            /\ \A k \in 2..Len(h) :
                 /\ h[k].status # "Add" /\ ~IsOver(h[k - 1])
                 /\ h[k].status = "Fill" => h[k].rest = left(k)
                 /\ h[k].status = "Cancel" => h[k].volume = left(k)
            /\ i \in Live => ~IsOver(last) /\ orders[i].volume = left(Len(h))
            /\ i \notin Live /\ ~halted => IsOver(last)
            /\ i \notin refused

\* No order is executed at a price worse than its limit, neither by the quotes
\* it met when it came nor by the deals that reached it in the book.
NeverWorseThanLimit ==
    \A i \in Ids : \A k \in DOMAIN history[i] :
        history[i][k].status = "Fill" /\ placed[i].type # "Market"
            => ~Before(placed[i].dir, placed[i].price, history[i][k].at)

\* A fill-or-kill order that met too small a book leaves no trace of the fills
\* the sweep had already collected for it.
AllOrNothing ==
    \A i \in Ids : history[i] # <<>> /\ placed[i].type = "FillOrKill" =>
        LET n == Len(history[i]) IN
        Executed(history[i], n) \in {0, placed[i].volume}

\* What the simulator keeps about an order fits what it reported of it.
LedgerInv == TypeOK /\ OrderLedger /\ AllOrNothing

\* v, but neither negative nor more than the whole
Part(v, whole) == Max({0, Min({v, whole})})

\* The volume quoted at the prices in S, and what fills took at price p
QuotedIn(d, S) ==
    Total([p \in 1..Max(Prices) |-> IF p \in S THEN Quoted(d, p) ELSE 0], Max(Prices))
TakenAt(fills, p) ==
    Total([k \in DOMAIN fills |-> IF fills[k].at = p THEN fills[k].volume ELSE 0], Len(fills))

BetterOffers(d, p) == {q \in Offers(d) : Before(d, q, p)}

\* The sweep over the quotes is what a price-priority book gives: at each price
\* within the limit an order takes what all better prices together leave it to
\* take, and at no other.
SweepTakesBest ==
    \A o \in {r \in Request : r.type # "Market" /\ r.price # 0}, p \in Prices :
        TakenAt(Sweep(o).fills, p) =
            IF Before(o.dir, o.price, p) \/ p \notin Offers(o.dir) THEN 0
            ELSE Part(o.volume - QuotedIn(o.dir, BetterOffers(o.dir, p)), Quoted(o.dir, p))

\* The simulator refuses an order that would trade with an own one, as its tests
\* say (order_error_2); so own bids and asks never come to overlap in m_orders.
OwnOrdersUncrossed ==
    \A i, j \in Live : orders[i].dir = "Bid" /\ orders[j].dir = "Ask"
                          => orders[i].price < orders[j].price

\* What a deal that left t of the resting orders filled of one of them, and of
\* the first n of a sequence s of them
Share(t, i) == orders[i].volume - t[i].volume
Shared(t, s, n) == Total([a \in 1..n |-> Share(t, s[a])], n)

\* One pass over the sorted orders, with the volume of the deal cut down and
\* the queue counters reset on the way, serves them as one merged queue would:
\* an order gets what is left of the deal behind the own orders before it and,
\* at the deal's price, behind the foreign volume still before it; and that
\* volume shrinks by what reached it.  (As long as own bids and asks are apart:
\* see OwnOrdersUncrossed.)
DealServesQueue ==
    OwnOrdersUncrossed =>
    \A d \in Dirs, p \in Prices, v \in 1..MaxTick : \A s \in Sorted(d, orders) :
        LET t == Deal(d, p, v, s).orders
        IN  \A a \in DOMAIN s :
              LET i == s[a]
                  o == orders[i]
                  reached == v - Shared(t, s, a - 1)
              IN  CASE o.dir = d \/ Before(d, p, o.price) ->
                         t[i] = o
                    [] o.dir # d /\ Before(d, o.price, p) ->
                         Share(t, i) = Part(reached, o.volume) /\ t[i].before = 0
                    [] o.dir # d /\ o.price = p ->
                         /\ Share(t, i) = Part(reached - o.before, o.volume)
                         /\ t[i].before = o.before - Part(reached, o.before)

\* A deal never fills own orders with more volume than was dealt, not even when
\* own bids and asks have come to overlap.
DealVolumeKept ==
    \A d \in Dirs, p \in Prices, v \in 1..MaxTick : \A s \in Sorted(d, orders) :
        Shared(Deal(d, p, v, s).orders, s, Len(s)) <= v

\* A deal is shared out as the queues say, and never more of it than there is.
DealShared == DealServesQueue /\ DealVolumeKept

\* The life of an order as its owner sees it
StateOf(i) ==
    IF placed[i] = NoOrder THEN "unknown"
    ELSE IF i \in Live THEN "open"
    ELSE IF i \in refused THEN "refused"
    ELSE IF history[i] = <<>> THEN "dropped"
    ELSE LET last == Last(history[i]) IN
         IF last.status = "Cancel" THEN "cancelled"
         ELSE IF last.rest = 0 THEN "filled" ELSE "lost"
RestOf(i) ==
    IF history[i] = <<>> THEN 0
    ELSE LET last == Last(history[i]) IN
         IF last.status = "Cancel" THEN last.volume ELSE last.rest

\* The simulator keeps what an exchange promises about each order.
AsExchange == INSTANCE Exchange WITH state <- [i \in Ids |-> StateOf(i)],
                                     rest <- [i \in Ids |-> RestOf(i)]
ImplementsExchange == AsExchange!Spec
=============================================================================
