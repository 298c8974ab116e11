------------------------------ MODULE OrderLog ------------------------------
(****************************************************************************)
(* The reader of an exchange's order log (qsh/reader/v4): the log holds     *)
(* every order that is added, filled or cancelled, each record as the       *)
(* difference to the one before, and the reader rebuilds the order book     *)
(* from it.  What the rest of the program sees are the quotes, taken at the *)
(* end of a transaction and handed on at most every Interval, and the deals.*)
(*                                                                          *)
(* The exchange that writes the log is not part of the code: it keeps a     *)
(* book that is never crossed between two transactions, and writes for      *)
(* each deal the record of the resting and the one of the incoming order.   *)
(****************************************************************************)
EXTENDS Integers, SequencesExt, FiniteSetsExt

CONSTANTS
    Prices,     \* price levels
    Depth,      \* quotes kept on each side (50)
    Interval,   \* m_stock_push_interval
    MaxVolume,  \* bound: volume of an order
    MaxLevel,   \* bound: volume that rests at a price
    MaxGap,     \* bound: time between two transactions
    MaxTime,    \* bound: time stamps
    MaxDeals    \* bound: deal ids

ASSUME PricesAssumption == Prices \subseteq Nat \ {0} /\ IsFiniteSet(Prices)
ASSUME BoundsAssumption ==
    {Depth, Interval, MaxVolume, MaxLevel, MaxGap, MaxTime, MaxDeals} \subseteq Nat \ {0}

VARIABLES
    \* the exchange
    book,       \* volume at each price: above zero asks, below zero bids
    pen,        \* the values the last record was written with
    order,      \* the order under way, what is left of it; NoOrder
    log,        \* the records that are written and not read yet
    traded,     \* deals of the exchange, in their order
    settled,    \* the last transaction that is not skipped: its time, its book
    \* OrdLogStream
    last,       \* m_last_price, m_last_amount, m_last_deal_id, m_last_deal_price,
                \* m_last_millisecs
    raw,        \* m_raw_quotes; a price at zero is not in the map
    quotes,     \* m_quotes
    shown,      \* the quotes m_stock_handler was last called with
    lastPush,   \* m_last_stock_push
    pushedDeal, \* m_last_pushed_deal_id
    ticks       \* the deals m_deal_handler was called with

exchange == <<book, order, pen, traded, settled>>
stream == <<last, raw, quotes, shown, lastPush, pushedDeal, ticks>>
feed == <<exchange, log, stream>>

Dirs == {"Buy", "Sell"}
Level == -MaxLevel..MaxLevel
Values == [price : Prices \cup {0}, amount : 0..MaxVolume, deal : 0..MaxDeals,
           paid : Prices \cup {0}, time : 0..MaxTime]
Tick == [id : 1..MaxDeals, price : Prices, volume : 1..MaxVolume]
Empty == [p \in Prices |-> 0]
NoOrder == [dir |-> "Buy", price |-> 0, left |-> 0]

FeedOK ==
    /\ {book, quotes, shown, settled.book} \subseteq [Prices -> Level]
    /\ raw \in [Prices -> -MaxLevel - MaxVolume..MaxLevel + MaxVolume]
    /\ order \in [dir : Dirs, price : Prices, left : 1..MaxVolume] \cup {NoOrder}
    /\ {pen, last} \subseteq Values
    /\ settled.time \in 0..MaxTime /\ lastPush \in -Interval - 1..MaxTime
    /\ pushedDeal \in 0..MaxDeals
    /\ traded \in Seq(Tick) /\ ticks \in Seq(Tick)

-----------------------------------------------------------------------------
(* The exchange (external) *)

Sign(dir) == IF dir = "Sell" THEN 1 ELSE -1
Volume(b, p) == IF b[p] < 0 THEN -b[p] ELSE b[p]

\* The levels of b that an incoming order may trade with, and the best of them
Matching(b, o) ==
    {q \in Prices : b[q] * Sign(o.dir) < 0 /\ (q - o.price) * Sign(o.dir) >= 0}
IsBest(b, o, q) ==
    /\ q \in Matching(b, o)
    /\ \A r \in Matching(b, o) : (q - r) * Sign(o.dir) >= 0

\* The book once the rest of the order has joined it.
With(b, o) == [p \in Prices |-> b[p] + IF p = o.price THEN Sign(o.dir) * o.left ELSE 0]

Other(dir) == CHOOSE d \in Dirs : d # dir

\* A record before it is written as a difference.
Record(kind, dir, p, v, d, system) ==
    [kind |-> kind, dir |-> dir, price |-> p, amount |-> v, system |-> system,
     deal |-> d.id, paid |-> d.price]

NoDeal == [id |-> pen.deal, price |-> pen.paid]

\* Each field differs from the record before, or is left out; over: the
\* transaction ends with these records.
Write(records, gap, over) ==
    LET Before(i) == IF i = 1 THEN pen ELSE records[i - 1]
        e == Last(records)
    IN  /\ e.deal <= MaxDeals
        /\ log' = [i \in DOMAIN records |->
                    LET r == records[i] IN
                    [kind |-> r.kind, dir |-> r.dir, system |-> r.system,
                     price |-> r.price - Before(i).price,
                     amount |-> IF r.amount = Before(i).amount THEN 0 ELSE r.amount,
                     deal |-> r.deal - Before(i).deal,
                     paid |-> r.paid - Before(i).paid,
                     gap |-> IF i = 1 THEN gap ELSE 0,
                     end |-> over /\ i = Len(records)]]
        /\ pen' = [price |-> e.price, amount |-> e.amount, deal |-> e.deal,
                   paid |-> e.paid, time |-> pen.time + gap]
        /\ UNCHANGED stream

\* The exchange writes one transaction after the other, and each one as the
\* reader asks for it.
Ready(gap) == log = <<>> /\ order = NoOrder /\ pen.time + gap <= MaxTime

Settled(b, time) == book' = b /\ order' = NoOrder /\ settled' = [time |-> time, book |-> b]

\* An order ends its transaction when it is filled, or rests where it meets no
\* other order; otherwise it is still to trade, or to be cancelled.
Proceed(b, o, over, time) ==
    IF over
    THEN /\ o.left = 0 \/ Matching(b, o) = {}
         /\ With(b, o)[o.price] \in Level
         /\ Settled(With(b, o), time)
    ELSE o.left > 0 /\ book' = b /\ order' = o /\ UNCHANGED settled

WriteOrder(dir, p, v, over, gap) ==
    /\ Ready(gap)
    /\ Write(<<Record("Add", dir, p, v, NoDeal, TRUE)>>, gap, over)
    /\ Proceed(book, [dir |-> dir, price |-> p, left |-> v], over, pen.time + gap)
    /\ UNCHANGED traded

\* A deal: the records of the resting order and of the incoming one
WriteDeal(q, over) ==
    /\ log = <<>> /\ order.left > 0 /\ IsBest(book, order, q)
    /\ LET n == IF Volume(book, q) < order.left THEN Volume(book, q) ELSE order.left
           d == [id |-> pen.deal + 1, price |-> q, volume |-> n]
       IN
       /\ Write(<<Record("Fill", Other(order.dir), q, n, d, TRUE),
                  Record("Fill", order.dir, order.price, n, d, TRUE)>>, 0, over)
       /\ Proceed([book EXCEPT ![q] = @ + Sign(order.dir) * n], [order EXCEPT !.left = @ - n],
                  over, pen.time)
       /\ traded' = Append(traded, d)

\* What is left of an order that meets no other is cancelled.
WriteRest ==
    /\ log = <<>> /\ order.left > 0 /\ Matching(book, order) = {}
    /\ Write(<<Record("Cancel", order.dir, order.price, order.left, NoDeal, TRUE)>>, 0, TRUE)
    /\ Settled(book, pen.time)
    /\ UNCHANGED traded

Side(p) == IF book[p] > 0 THEN "Sell" ELSE "Buy"
Less(p, v) == [book EXCEPT ![p] = @ - Sign(Side(p)) * v]

WriteCancel(p, v, gap) ==
    /\ Ready(gap)
    /\ v <= Volume(book, p)
    /\ Write(<<Record("Cancel", Side(p), p, v, NoDeal, TRUE)>>, gap, TRUE)
    /\ Settled(Less(p, v), pen.time + gap)
    /\ UNCHANGED traded

\* A move is a cancellation and an order in one transaction.
WriteMove(p, q, v, over, gap) ==
    /\ Ready(gap)
    /\ v <= Volume(book, p) /\ p # q
    /\ Write(<<Record("Cancel", Side(p), p, v, NoDeal, TRUE),
               Record("Add", Side(p), q, v, NoDeal, TRUE)>>, gap, over)
    /\ Proceed(Less(p, v), [dir |-> Side(p), price |-> q, left |-> v], over, pen.time + gap)
    /\ UNCHANGED traded

\* An order or a deal agreed outside the book.
WriteNonSystem(kind, dir, p, gap) ==
    /\ Ready(gap)
    /\ LET d == IF kind = "Fill" THEN [id |-> pen.deal + 1, price |-> p] ELSE NoDeal
       IN  Write(<<Record(kind, dir, p, MaxVolume, d, FALSE)>>, gap, TRUE)
    /\ UNCHANGED <<book, order, traded, settled>>

\* A new session begins with an empty book.
WriteSession(gap) ==
    /\ Ready(gap)
    /\ Write(<<Record("Session", "None", pen.price, pen.amount, NoDeal, TRUE)>>, gap, TRUE)
    /\ book' = Empty
    /\ UNCHANGED <<order, traded, settled>>

-----------------------------------------------------------------------------
(* OrdLogStream::read and RawQuotes::quotes *)

\* From the highest price down: the asks until the first bid, then the bids;
\* nothing when one of the sides is missing.
Quotes(b) ==
    LET bids == {p \in Prices : b[p] < 0}
        asks == {p \in Prices : b[p] > 0 /\ \A q \in bids : q < p}
        nearBids == {p \in bids : Cardinality({q \in bids : q > p}) < Depth}
        nearAsks == {p \in asks : Cardinality({q \in asks : q < p}) < Depth}
    IN  [p \in Prices |-> IF bids # {} /\ asks # {} /\ p \in nearBids \cup nearAsks
                          THEN b[p] ELSE 0]

\* Mutant of Decoded: a record of no interest is not decoded.
DecodedWanted(r) ==
    IF ~r.system THEN last
    ELSE [price |-> last.price + r.price,
          amount |-> IF r.amount > 0 THEN r.amount ELSE last.amount,
          deal |-> last.deal + r.deal,
          paid |-> last.paid + r.paid,
          time |-> last.time + r.gap]

Decoded(r) ==
    [price |-> last.price + r.price,
     amount |-> IF r.amount > 0 THEN r.amount ELSE last.amount,
     deal |-> last.deal + r.deal,
     paid |-> last.paid + r.paid,
     time |-> last.time + r.gap]

\* The deal of a record: the last one for a fill that has none of its own.
DealOf(r) == IF r.deal > 0 \/ r.kind = "Fill" THEN Decoded(r).deal ELSE 0

Signed(r) == IF r.kind = "Add" THEN Sign(r.dir) ELSE -Sign(r.dir)

\* Mutant of Pushes: a push is due only after twice the interval.
PushesLate(r) == r.end /\ Decoded(r).time - lastPush > 2 * Interval

Pushes(r) == r.end /\ Decoded(r).time - lastPush > Interval

\* Mutant of NewDeal: both records of a deal are handed on.
NewDealPair(r) == DealOf(r) > 0

NewDeal(r) == pushedDeal < DealOf(r)

\* A record that is not about the book: nothing but its values is kept.
ReadSkipped ==
    /\ log # <<>>
    /\ LET r == Head(log) IN
       /\ r.dir = "None" \/ ~r.system
       /\ last' = Decoded(r)
       /\ raw' = IF r.kind = "Session" THEN Empty ELSE raw
    /\ log' = Tail(log)
    /\ UNCHANGED <<exchange, quotes, shown, lastPush, pushedDeal, ticks>>

\* A record of the book, read with push set, as QshDataSource::process reads.
\* (One with a side that also begins a session is not written.)
ReadRecord ==
    /\ log # <<>>
    /\ LET r == Head(log)
           now == Decoded(r)
       IN
       /\ r.dir # "None" /\ r.system
       /\ last' = now
       /\ raw' = [raw EXCEPT ![now.price] = @ + Signed(r) * now.amount]
       /\ quotes' = IF r.end THEN Quotes(raw') ELSE quotes
       /\ lastPush' = IF Pushes(r) THEN now.time ELSE lastPush
       /\ shown' = IF Pushes(r) /\ quotes' # Empty THEN quotes' ELSE shown
       /\ pushedDeal' = IF NewDeal(r) THEN DealOf(r) ELSE pushedDeal
       /\ ticks' = IF NewDeal(r)
                   THEN Append(ticks, [id |-> DealOf(r), price |-> now.paid, volume |-> now.amount])
                   ELSE ticks
    /\ log' = Tail(log)
    /\ UNCHANGED exchange

FeedInit ==
    /\ book = Empty /\ raw = Empty /\ quotes = Empty /\ shown = Empty
    /\ pen = [price |-> 0, amount |-> 0, deal |-> 0, paid |-> 0, time |-> 0]
    /\ last = pen
    /\ order = NoOrder /\ log = <<>> /\ traded = <<>> /\ ticks = <<>>
    /\ settled = [time |-> 0, book |-> Empty]
    /\ lastPush = -Interval - 1
    /\ pushedDeal = 0

FeedNext ==
    \/ \E gap \in 0..MaxGap, p \in Prices, v \in 1..MaxVolume :
          \/ \E dir \in Dirs, over \in BOOLEAN : WriteOrder(dir, p, v, over, gap)
          \/ WriteCancel(p, v, gap)
          \/ \E q \in Prices, over \in BOOLEAN : WriteMove(p, q, v, over, gap)
    \/ \E q \in Prices, over \in BOOLEAN : WriteDeal(q, over)
    \/ WriteRest
    \/ \E gap \in 0..MaxGap, p \in Prices, dir \in Dirs, kind \in {"Add", "Fill"} :
          WriteNonSystem(kind, dir, p, gap)
    \/ \E gap \in 0..MaxGap : WriteSession(gap)
    \/ ReadSkipped
    \/ ReadRecord

FeedSpec == FeedInit /\ [][FeedNext]_feed

-----------------------------------------------------------------------------
(* Properties *)

\* q shows the best Depth levels of each side of b, and shows nothing when a
\* side is missing.
TopOf(q, b) ==
    LET sides == {{p \in Prices : b[p] < 0}, {p \in Prices : b[p] > 0}}
        best(s) == IF \E p \in s : b[p] < 0 THEN Max(s) ELSE Min(s)
    IN  IF {} \in sides THEN q = Empty
        ELSE /\ \A p \in Prices : q[p] \in {0, b[p]}
             /\ \A s \in sides :
                   LET seen == {p \in s : q[p] # 0} IN
                   /\ Cardinality(seen) = Min({Depth, Cardinality(s)})
                   /\ best(s) \in seen
                   /\ \A p \in seen, x \in s \ seen : best({p, x}) = p

\* Between two transactions the book the reader has rebuilt from differences is
\* the book of the exchange, whatever records of other kinds lie between, and
\* m_quotes shows its top as it was when the last transaction of the book settled:
\* what happens within a transaction (a book that is crossed for a moment) is
\* never seen (OrdLogStream::read, RawQuotes::quotes).
BookRebuilt ==
    log = <<>> => raw = With(book, order) /\ last = pen /\ TopOf(quotes, settled.book)

\* Every deal of the book is handed on once, in the order of the exchange, with its
\* price and volume, although the log holds two records of it, the second one
\* without the id (OrdLogStream::read, m_last_pushed_deal_id).
DealsOnce ==
    /\ IsPrefix(ticks, traded)
    /\ log = <<>> => ticks = traded

\* The quotes the program was shown last may be old, but only so: they differ
\* from m_quotes while less than Interval has passed in the transactions since
\* the push, or while one side of the book is missing (OrdLogStream::read).
ShownLag ==
    log = <<>> =>
        \/ shown = quotes
        \/ quotes = Empty
        \/ settled.time - lastPush <= Interval

\* What the program is shown is never crossed and never one-sided.
ShownSound ==
    shown # Empty =>
        /\ \E p \in Prices : shown[p] > 0
        /\ \E p \in Prices : shown[p] < 0
        /\ \A p, q \in Prices : shown[p] > 0 /\ shown[q] < 0 => q < p

BookInv == FeedOK /\ BookRebuilt /\ ShownSound
=============================================================================
