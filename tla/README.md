# trading_robot_2: specifications, model checking and proofs

`trading_robot_2` is a C++ library for backtesting trading strategies. Recorded
market data drive a simulated exchange; strategies are coroutines (boost.asio)
that place, cancel, move and await orders through asynchronous operations; time
is virtual. This directory holds TLA+ models of its core, the TLC configurations
that check them, and TLAPS proofs. File names below are relative to `src/`;
`PROJECT.json` maps every definition to the lines it models.

## 1. The system

### How the parts interact

    strategy coroutine
       | async_add_order, async_wait_deal, Timer ...      atrade/async2
       v
    operation services --- Task (timeout) ---> TaskService
       | request            ^ completion            |
       v                    |                       | process_market picks the
    AsyncMarket, History    |                       | earliest: a task, a bus
       |                    |                       | entry, or a data record
       v                    |                       v
    Backtester: EventBus, a FIFO with a fixed delay each way
       | request            ^ order, error, tick ...
       v                    |
    MarketSimulator / SimpleMarketSimulator  <--- data sources (QSH files)

The program is single threaded, so the hard behaviour does not come from
threads but from the *order* of callbacks: coroutines, timeouts, answers, market
data and closing contexts interleave in every order that virtual time allows,
and everything a strategy knows is one bus delay old.

### Inventory

| Component | State | Operations | What makes it correct | Modelled in |
|---|---|---|---|---|
| `Task`, `TaskService` (`async2/task.*`) | set of tasks ordered by time, then number | push, execute_first, cancel | runs each task once, not early, in order | `EventLoop` |
| `MarketService` (`market_service.*`) | the virtual clock | init_market, process_market, add_task, forwarding | clock monotone, nothing due skipped | `EventLoop` |
| `EventBus`, `Backtester` (`backtester/`) | FIFO of stamped events | add_event, process; requests up, callbacks down | stamps sorted, fixed latency, order kept | `EventLoop`, `AsyncOrders` |
| `MarketSimulator`, `SimpleMarketSimulator` | own resting orders with their queue, recorded book | add (4 types), delete, move, tick, quotes | volumes add up; price limits; queue order | `MarketSimulator` |
| data sources | reader position | process, datetime, eof | records in time order | `EventLoop` (partly) |
| add/cancel/move order (`add_order.hpp` ...) | waiting records by order id | start, wait, answer, timeout, close | each operation ends once and tells the truth | `AsyncOrders` |
| wait deal (`wait_deal.hpp`) | per object: fills handed out, buffer | async_wait, cancel, timeout | each fill handed out once, in order | `WaitDeal` |
| timer, interval, req_securities | one pending record | wait, cancel | as above | `EventLoop` (partly) |
| `Subscription`, `SubscriptionService` | list of handlers | subscribe, move, publish, end, clear | no call after the end, none lost | `Subscriptions` |
| `TradingContext` | tree of contexts, closed flag | close, subscribe, error | closes downwards, each waiter once | `Spawner` (a chain) |
| `Spawner`, `Strategy`, counter, `Watcher` | running strategies, join, counter | spawn, join, reset, error | joins wake when all are done | `Spawner` |
| `AsyncMarket` tree, `RootAsyncMarket` | order ids, pending adds per market | add, move, filters, publish | a child sees exactly its own orders | `NestedMarkets` |
| `History`, `Portfolio` | events by order, error list | orders, positions, profit | the view catches up; money adds up | `AsyncOrders`, `Portfolio` |
| closing strategies, trading guard, calm strategies | coroutine position | cancel all, flatten, cut off, reopen | no order and no position left behind | `Closing`, `Spawner` |
| QSH reader (`qsh/`) | book rebuilt from the order log, last values | read, apply record, quotes, deals | decoding inverts encoding, book consistent | `OrderLog` |
| `MarketData`, `OrdLogMarketSimulator` | last quotes and ticks; none | one assignment; forwarding | - | no |
| order book functions, indicators | windows over market data | update | agree with their definition | no |
| scalper and research strategies | commented out completely | none | - | no |
| tests, samples, executables | polling loop | `process_market; poll` | - | fairness of `EventLoop` |

The hard places, each at its line, are the `hazards` of `PROJECT.json`.

## 2. The modules

| Module | Models | Source |
|---|---|---|
| `VirtualTime` | abstract: a clock that jumps to the earliest item of an agenda and never past one | - |
| `EventLoop` | process_market, TaskService, EventBus with its stamps, data sources, timers, one generic operation with its timeout | `market_service.*`, `task.*`, `eventbus.cpp`, `backtester.cpp`, `timer.hpp`, `add_order.hpp`, `cancel_order.hpp`, `req_securities.hpp` |
| `EventLoop_proofs` | theorems about `EventLoop` | |
| `Exchange` | abstract: the life of an order at any exchange | - |
| `MarketSimulator` | add_order with all order types, delete, move, ticks with the queue, quotes | `marketsimulator.*`, `simplemarketsimulator.*` |
| `MarketSimulator_proofs` | theorems about `MarketSimulator` | |
| `AsyncOrders` | the asynchronous order operations against an abstract exchange over the bus; History, pendings, Portfolio::orders, closing | `add_order.hpp`, `cancel_order.hpp`, `move_order.hpp`, `asyncmarket.cpp`, `history.cpp` |
| `AsyncOrders_proofs` | theorems about `AsyncOrders` | |
| `WaitDeal` | waiting for deals, with all its ends | `wait_deal.hpp` |
| `TaskGroup` | abstract: what a join promises | - |
| `Spawner` | coroutines, contexts, counter, join, reset, errors | `spawner.hpp`, `watcher.hpp`, `trading_context.hpp`, `calm_*.hpp`, `simple_trading_guard_2.hpp` |
| `Spawner_proofs` | theorems about `Spawner` | |
| `Closing` | the end of a session: cancel all, turn over, retry, cut off | `simple_closing_2.hpp`, `simple_closing_3.hpp`, `simple_trading_guard_2.hpp` |
| `Closing_proofs` | theorems about `Closing` | |
| `NestedMarkets` | a tree of markets over one exchange | `asyncmarket.*` |
| `NestedMarkets_proofs` | theorems about `NestedMarkets` | |
| `Subscriptions` | subscription objects, their service, a publication | `subscription.hpp` |
| `Portfolio` | position, closing order, open orders, profit of a log of events | `portfolio.cpp`, `utils.cpp`, `order.*` |
| `Deals_proofs` | theorems about `WaitDeal` and `Portfolio`: what becomes of an order's deals | |
| `OrderLog` | the order-log reader against an exchange that writes the log | `ordlogstream.cpp`, `rawquotes.cpp`, `qshreaderimpl.cpp` |
| `MarketData_proofs` | theorems about `Subscriptions` and `OrderLog`: where market data come from and go | |
| `MC*` | model values and symmetry sets for TLC | |

How they hang together: `MarketSimulator` implements `Exchange`; `AsyncOrders`
composes *any* such exchange with the bus and shows that the delayed view is an
`Exchange` again; `Closing` and `NestedMarkets` stand on the same bus and need
nothing else of the exchange. `EventLoop` implements `VirtualTime` and justifies
what the others assume of the bus (FIFO, fair) and of timeouts (not against an
answer under way). `Spawner` implements `TaskGroup`.

### EventLoop

`now` is `MarketService::m_datetime`; `feed` and `left` are the data sources'
next time and remaining records; `bus` is `EventBus::m_events`; `tasks` is
`TaskService::m_tasks`; `pending` and `outcome` are the operations' records and
what their handlers were posted with. A turn of the loop is one of `RunTask`,
`DeliverRequest`, `DeliverCallback`, `ReadRecord` and `Eof` (`phase =
"process"`), tried in the order of `process_market`, then user code until
`EndPoll`. User code only acts when something woke it (`awake`). `started`,
`budget` and `answered` are history variables. The exchange's decision is
abstracted to "answers now, perhaps with further events, or ignores the
request".

The services keep their records by order id (`req_securities` all in one table), and an event
completes every record it finds, whoever started it. Ids are left open in the model: a delivered
event completes any set of the pending operations (`Served`), and the answer to a request at least the
operation that asked. So an operation may end before its own round trip is over, with the answer to
another's request or a fill; `RoundTripLatency` bounds it from above and says of the event that ends it
when the operation it answers was started. An operation may also send no request at all (a wait).

### MarketSimulator

One instrument. `orders` is `m_orders`, `book` the recorded quotes as signed
volumes, `history` what `order_handler` was told. The templates over traits are
one definition with a direction. An `AddOrderException` sets `halted`. The sort of
`_handle_tick` is not stable, so `Sorted` is a set of sequences and the model
takes any of them. The two loops, of an order over the quotes (`Swept`) and of a deal over
the sorted orders (`Visits`), are recursive functions that give the loop's state, its
counters and flags and what was reported, after each step (`Take`, `Visit`).

### AsyncOrders

`bus` carries requests up and events down, in order, without times (`EventLoop`
shows that both directions are FIFO and take their delay). The exchange is any
that `Exchange` allows. One action per operation: `AddOrder`, `WaitOrder`,
`CancelOrder`, `WaitCancel`, `MoveOrder`; a move is a coroutine with a second
part, `MoveResumed`, that runs before the market goes on (`Quiet`), as posted
handlers do. `OrderArrives` and `ErrorArrives` are one publication: History,
pendings, then the services. A timeout is enabled at any moment, which covers
every duration. Not covered: the time between a posted completion and the user's
handler.

### WaitDeal

The events of one order are those an exchange may send; of the History the model keeps
what `async_wait` reads of it, the order's `fills` and the `status` of its last event. `deals` is
the counter in the object, `waits` the record in the service with its buffer. History variables:
`posted`, the completions, and `handed`, the fills in them. A wait on an order without history makes
`unordered_map::at` throw and is no step of the model.

### Spawner

`stack` is the C++ call stack as far as coroutines are on it (a strategy spawned
inside `spawn` starts at once, above its caller), `queue` the handlers posted to
the `io_service`. Per strategy `task` keeps where it stands and the generation
(`gen`) of `m_ctx` it was born into. `counter` and `value` are
`CounterIndicator`'s; `owner` is the strategy whose frame the spawner lives in.
`Spawn`, `Reset`, `Wait`, `Finish`, `Fail`, `Join`, `OwnWait` and `Leave` are steps
of the coroutine in control; `Resume`, `Complete`, `CompleteOwner`,
`JoinTimeout` and `CloseOuter` are the loop. Closing posts one notice to each
waiter, children first and in no particular order among siblings. Three kinds
of owner (`kind`) use the spawner as the three kinds of code do; what a strategy
waits for is abstract.

### Closing

`bus`, `live` and `position` are the exchange and the way to it; `pendings`,
`open` and `held` what the strategies know. `phase` is where the session stands:
`Interrupt` is the guard's reset, `Start` the first round of cancellations,
`Close` the decision after the join of the cancellations, `Closed` and
`TimedOut` the two ends of the wait for the closing order, `Open` the next
session. The trading strategies may place, cancel and move anything. An id stands
for an order as long as something recalls it (`Fresh`).

### NestedMarkets

`orderIds` and `pendings` are each market's; `seen` is what its History and
Portfolio make of the events that reached it. `AddOrder` notes the order on every
market up to the root, `MoveOrder` on the market itself and the root, as the code
does. `Path` is the least set closed under the parent, so that the theorems hold for any
tree. `EventArrives` is one publication through the filters of the tree.

### Subscriptions

`obj` has the fields of each `Subscription`, `set` is the service's multiset.
`Subscribe`, `Move` (assignment from a moved object), `Unsubscribe` (assignment of
`nullptr`, destruction) and `Clear` are enabled at any time, also between the
`Call`s of a publication, which stands for what handlers do.

### Portfolio

The only variable is the log of order events; the code's functions are pure and
the properties relate their results for every log an exchange may produce. The code's loops,
over the events (`Positions`) and within one deal over the queue (`Rounds`), are recursive
functions that give the loop's state after each round.

### OrderLog

The exchange and the writer of the file are not part of the code: external, inferred from
what the reader expects. A transaction is written step by step, as the reader asks for it, which
changes nothing for the reader: it never looks ahead. `WriteOrder`, `WriteMove`, `WriteCancel`,
`WriteNonSystem` and `WriteSession` begin one; an order that meets others goes on with `WriteDeal`,
the records of the resting and of the incoming order, and ends filled, resting, or with what is left of
it cancelled (`WriteRest`). `order` is what is under way and `settled` the time and the book of the last
transaction of the book. `ReadRecord` and `ReadSkipped` are one turn of
`OrdLogStream::read`, with `raw` its `RawQuotes`, `last` the values differences
are added to, `shown` and `ticks` what the handlers were called with.

## 3. The runs

| Run | Question | Bounds |
|---|---|---|
| `event_loop_backtest` | `EverythingDueDone`, `IInv`, `NoSpuriousTimeout`, `NoEarlyTimeout`, `RoundTripLatency`: nothing due skipped, answer against timeout; refinement of `VirtualTime`; `BacktestEnds` | 2 operations with durations 1, 3 or none, 2 recordings of 2 sources, gaps 0 and 3, delay 1, 2 tasks, timers up to 2 ahead |
| `market_orders` | `LedgerInv`: volumes add up for all order types; `NeverWorseThanLimit`; `SweepTakesBest`; `DealShared`: what a deal gives to whom; refinement of `Exchange` | 2 ids, 2 prices, volume 2, quotes 1, deals up to 3 |
| `market_uncrossed` | own orders never rest crossed | 2 ids, 3 prices, limit orders; **violated** |
| `orders_operations` | `ResultsTrue`, `AnswerUnderWay`, `NothingEscapes`, `ViewInv`: results, waiters, pendings, what closing strategies can see | 2 ids, 3 operations, volume 2 |
| `orders_views` | the delayed view is an exchange; operations end | 2 ids, 2 operations |
| `wait_deal_fills` | fills once and in order over several waits; nobody waits in vain | 2 objects with 2 waits, volume 3 |
| `spawner_joins` | `JoinInv`, `ResumedOnce`, `FrameOutlivesUse`; refinement of `TaskGroup`; `ClosingComesThrough` | 2 strategies, 3 resets, all kinds of owner |
| `closing_sessions` | `OrderInv`, `FlatWhenClosed`, `ClosingEnds` | 2 buying and 2 selling ids, volume 2 in all, 1 try, 1 closing cut off, any number of sessions |
| `nested_markets` | `TreeInv`, `CancellableByOrigin`: who sees which order | 4 markets, three levels, 2 ids |
| `subscription_publication` | `LinksInv`, `CalledOnceInOrder`, `StaysSubscribed` | 3 objects, 5 subscriptions, 2 publications |
| `portfolio_log` | `PositionInv`, `ClosingOrderCloses`, `MoneyAccounted`, `OpenOrdersExact` | 3 orders up to volume 3, 2 prices, 5 events |
| `order_log` | `BookInv`, `DealsOnce`, `ShownLag` | 3 prices, depth 1, orders up to 2, interval 1, times 0..2, 2 deals |

Why the bounds are enough to be interesting. A round trip takes 2 with a delay of 1, so that a
duration of 1 lies below it and 3 above it. Gaps of 0 and 3 make bursts of records at one instant and jumps
of the data over a whole round trip, where only the bus's stamps tell that the answer was first: such a jump is
what a timeout judged by the wrong clock would need (the mutant of `NoSpuriousTimeout`). Two sources are needed for ties
between them; in one recording the second leads up to the only record of the first, at 4, in the other they start at 0
and 2 and overlap. Two operations are enough for one that the answer to
the other ends. In the simulator, a volume of 2 against quotes of 1 makes partial sweeps and
partial fills, and a deal of 3 passes both own orders with something left. Three operations over
two ids cover two waiters on one order with a third party that cancels or moves
it. Volume 3 in `WaitDeal` gives a fill before, during and after a wait.
Two strategies and the owner are enough for a failed one whose handler starts
another while the owner joins; three resets put a strategy two generations
behind. In `Closing` a volume of 2 can rest on both sides, be filled in part
while it is cancelled, and be turned over; one try makes `SimpleClosing3` take both
kinds of closing order; sessions follow one another without a bound. Three levels of markets are the
least in which a market lies between. Three objects allow a chain of
moves. Five events turn a position over and back. A depth of 1 with three prices hides a
level from the quotes; volumes of 2 against levels of 1 sweep; a gap of 2 is beyond the
interval of 1.

Every property is checked against a plausible bug (`mutants` of `PROJECT.json`): with a
definition replaced by its mutated form, TLC finds the property violated.

`CHECK_DEADLOCK FALSE` is used where the system really stops: with all ids and
operations spent (`AsyncOrders`, `WaitDeal`, `Closing`, `NestedMarkets`), when the owner has left
and the strategies have ended or the program has crashed (`Spawner`), and at the bounds of `Subscriptions`,
`Portfolio` and `OrderLog`.

**Fairness.** `EventLoop` assumes weak fairness of `ProcessMarket` and `EndPoll`,
the body of the `while (true)` of the samples. User code has none. `AsyncOrders`
assumes it of the delivery of the bus (the same loop; `EventLoop` shows that the
loop reaches every due entry) and of resuming a posted coroutine (`ios.poll`),
and none of deals, timeouts, closing or users. `Spawner` assumes that the coroutine
in control goes on (`Step`: C++ code runs until it suspends; it may take any of its
steps) and that posted handlers are run (`Resume`); what strategies wait for, timeouts and
closing need never happen. `Closing` assumes the delivery of the bus, that its own
coroutine goes on when answered, and that the ten seconds of a limit order pass (a task, which
the loop reaches); not that orders trade, and not that the guard leaves it alone: cutting
off is bounded by `MaxCuts`. `Subscriptions` states that a publication, which is one C++ call, runs
to its end; none of its properties needs it. `MarketSimulator`, `WaitDeal`,
`NestedMarkets`, `Portfolio` and `OrderLog` have safety properties only.

### A disagreement found

`market_uncrossed`: the test `order_error_2`
(`atrade_tests/simple_market_simulator_tests.cpp:250-271`) says that an order
which crosses an own resting order is refused with an `Add` error. The code
compares own orders with the *best quote* only
(`atrade/backtester/marketsimulator.h:109-118`). With an own ask at 2 behind a
foreign ask at 1, a bid at 2 is let through, takes the quote at 1 and rests at
2: own bid and ask stand crossed. Later deals then fill both. In `DealShared`, the part
on the queue is therefore stated for states where own orders are apart; the part on the
volume of the deal holds in the others, too.

### Behaviour the properties name as exceptions

- A move whose old order has gone is dropped by the exchange without an answer:
  the new id stays pending and a move without a duration never ends
  (`Ignored` in `AnswerUnderWay`, `ViewInv` and `OperationsEnd`). An add of
  non-positive volume is dropped the same way.
- A wait for deals begun after its order was cancelled without any fill stays
  (`NobodyWaitsInVain`).
- A move sends its request before it looks at its context: on a closed context
  it ends with `CtxClosed`, and the order moves. A strategy resumed in the same poll as the
  guard may do so after the reset (`late` in `Closing`); `FlatWhenClosed` holds all the same:
  a move before the cancellations has a pending id that is cancelled with the others, and one
  behind them finds its order gone.
- An order moved through a market two levels below the root is hidden from the
  markets between, and its events are filtered away from the market that moved it, where it
  stays pending for ever (`Hidden` in `TreeInv`). Its owner can still
  cancel it (`CancellableByOrigin`).
- `CalmOppStrategy` may leave its frame while a strategy that refers to it has a success
  posted (`kind = "opp"`); `FrameOutlivesUse` is stated for the others.
- An error of a strategy whose contexts have been cut off is handled by nobody and ends the
  program (`crashed`).
- A publication still calls a handler whose subscription ended during this publication
  (`ended` in `CalledOnceInOrder`).
- After a new session in the order log, `m_quotes` shows the old book until the next
  transaction (`settled.book` in `BookInv`), and quotes held back by the interval are not shown until
  another transaction comes (`ShownLag`).

## 4. The proofs

`EventLoop_proofs` proves, for every set of operations and sources, every delay
and all durations and bounds, under the named assumptions of `EventLoop`
(numbers are naturals, there is a source, `NoOp` is no operation):

| Theorem | States |
|---|---|
| `TypeCorrect` | `TypeOK` |
| `InvariantCorrect` | `IInv`, the inductive invariant |
| `BusSortedCorrect`, `TimeoutArmedCorrect`, `NoSpuriousTimeoutCorrect`, `EverythingDueDoneCorrect` | the safety invariants |
| `ClockMonotoneCorrect`, `OutcomeFinalCorrect`, `RoundTripLatencyCorrect`, `NoEarlyTimeoutCorrect` | the action properties |
| `VirtualTimeRefined` | `EventLoop` implements `VirtualTime` |

None of the properties is inductive by itself. `BusSorted` needs that each entry
was stamped `sent + Delay` with `sent <= now <= at`, so that an appended stamp is
the greatest. That in turn needs `now <= MarketTime`: the clock may not pass a
bus entry, which is so because a task is only run if it is due at `RootTime`, and that never
passes the head of the bus. `NoSpuriousTimeout` needs that the answer to an
operation is on the bus exactly one delay after its request was, that a task lies no
earlier than start plus duration (`TaskInv`), and that an answered pending
operation's answer *is* on the bus (`OpInv`). `IInv` is the conjunction;
`event_loop_backtest` checks it with TLC as an invariant. The proof has one lemma per action,
on top of lemmas on sequences (`Tail`, `Append`, concatenation), on the minimum of the
sources, and on which conjuncts an action leaves alone. The theorems on
properties follow from `InvariantCorrect`. `RoundTripLatency` is about an answer that finds other operations'
records as well as its own: its stamp is two delays from the start of the operation it answers
(`EntryInv`), and an operation that was answered and is still pending has that answer on the bus (`OpInv`).

`MarketSimulator_proofs` proves, for any ids, every finite set of positive prices (not
empty), any of the four order types, all bounds on volumes that are naturals, and a `NoOrder` that is no request:

| Theorem | States |
|---|---|
| `InvariantCorrect` | `IInv`, the inductive invariant |
| `LedgerCorrect`, `FairPricesCorrect` | reports add up to the order and to what rests of it; no price is worse than its limit |
| `SweepCorrect` | the sweep takes at each price what all better prices leave |
| `DealsShared` | a deal serves any number of resting orders as one merged queue would, and never fills more than was dealt |
| `ExchangeImplemented` | `MarketSimulator` implements `Exchange` |

`LedgerInv` speaks of sums over an order's reports and of `m_orders`, and is not inductive.
`IInv` says the same one report at a time: what was told of an order is a life of it (`Lived`:
each report follows from the one before), and what rests of it is what the last report left
(`Standing`). A step then only has to be looked at where it adds a report, and
`LifeAddsUp` gets the sums back. `IInv` also knows the sides of the deal: an order that
rests is a limit order that rests at its own price, which is what `NeverWorseThanLimit` needs for
the deals that come later.

The two loops are where the work is. A loop is a recursive function, which exists and is unique
(`SweptExists`, `VisitsExist`); what holds of every step of it is proved by the first step at which
it would fail (`FirstFailure`, from the well-foundedness of the naturals), since induction theorems with an
operator parameter cannot be used. For the sweep, `TookBest` says that what was taken at the prices
passed so far is right, and that the volume left is the order's less all that was offered there, or nothing. That
`std::sort` can bring the quotes in a strict order at all is `SortedExists`, by induction on
the number of prices. For a deal, `Served` says what
one step may make of the loop's state, `DealGoes` that each order is found as it rested and left as it ends up,
`DealLeaves` that the volume carried along is the deal's less all shares so far, and `DealFlags` why the
loop has started and why it has ended. `DealServesQueue` takes
`OwnOrdersUncrossed` as its hypothesis, because without it an own order of the aggressor's side
can stand between two others; that this hypothesis can fail is the disagreement found above. `DealVolumeKept` needs
no such hypothesis. For the refinement, each id goes through one of `Stays`, `Comes`, `Goes` and `Shrinks` in each
step, and these are the steps of `Exchange`.

`Spawner_proofs` proves, for every finite set of strategies, an owner that is none
of them, every number of resets and all three kinds of owner:

| Theorem | States |
|---|---|
| `InvariantCorrect` | `IInv`, the inductive invariant: `JoinInv` and `ResumedOnce` together |
| `JoinInvCorrect`, `ResumedOnceCorrect`, `FrameOutlivesUseCorrect` | the safety invariants of `spawner_joins` |
| `TaskGroupRefined` | `Spawner` implements `TaskGroup` |

The conjuncts hold each other up. That the counter stays exact when a strategy
ends needs that a strategy in control is one that was counted, which is
`OneThread`: the coroutines on the stack are those whose stage is "running", each
once. That a handler resumes somebody who is posted, and that nobody is posted
twice when several things answer him, is `ResumedOnce`; it needs that closing
posts only to those who wait, each once (`SetToSeqs` of a set has no repetitions).
`JoinTold` says that from the answer of a join to the owner's next step nobody
runs; this is where the order of `Discounted` (count first, answer when it is
zero) matters, and it is what the refinement of `TaskGroup` rests on.
`FrameOutlivesUse` is far from inductive. `FrameKept` follows the owner on his way
out: what tells him that his context closed stands in the queue behind nobody's
success, since only notices of closing are behind it; when he runs with this news
he is alone on the stack and the queue holds nothing else; so whatever runs after
he left was told the same. The proof has one lemma per action, on top of
lemmas on queues that hold each coroutine once, and one that matches every action
with a step of `TaskGroup` or a stutter.

`AsyncOrders_proofs` proves, for every set of ids and operations and every bound on
volumes, under the named assumptions of `AsyncOrders` (`NoId` is no id, the bound is a
natural):

| Theorem | States |
|---|---|
| `InvariantCorrect` | `IInv`, the inductive invariant |
| `ResultsTrueCorrect` | what add, wait, cancel and move report is true and stays true |
| `AnswerUnderWayCorrect` | nobody waits for an answer that has passed |
| `NothingEscapesCorrect` | every order at the exchange, or on its way, is pending or open in the portfolio |
| `ChainCorrect` | `ChainInv`, the inductive invariant of the events of an order |
| `ViewCorrect` | the owner's view catches up with the exchange |
| `ViewRefines` | the delayed view implements `Exchange` |

What a strategy knows is old, so the invariant is about the bus. `Asked` says that an
id is asked for once and before anything else is asked about it; with `NewUntold` (before
the exchange decides nobody has heard anything) a refused *deletion* can be told from a
refused order. `NewsTrue`, `NewsComplete` and `NewsInOrder` say of the events on the bus and of
those delivered that they are true of the exchange, that none is missing, and that nothing follows a
cancellation. The least obvious part is the third line of `NewsInOrder`: an add
operation completes with "rejected" on *any* error of its id, also on one that
answers somebody else's deletion; this tells the truth only because the Add event of an order
the exchange took precedes every such error, so that the operation has ended by then.
`OpKnows`, `OpTrue` and `OpAnswered` say of each operation what it has not heard while it waits,
what its result says, and what is on the bus to end its wait. The actions of the exchange are
steps of one form (`ExchangeStep`: a request leaves the bus or none, reports join it), for
which preservation is proved once; deliveries and requests likewise.

`ViewInv` and the refinement speak of what the owner sees at the end and from one delivery to the
next, and neither is inductive: nothing in them says what the events still on the bus are. `ChainInv`
does. By `EventsChain` the events of an order, those heard and those on the bus, are one life: the first
opens the order, each may follow every one before it, and a cancellation repeats a rest that was told.
By `StateTold` one of them tells the state and the rest the exchange holds, and all the others tell at least
that rest. A deal, a deletion and a move extend the life by one event (`ChainStep`), a new order by all
its fills; a delivery shifts its head from the bus to what was heard. So the last event on the
bus, or the last one heard, is the exchange's state (`ViewCorrect`), and the head of the bus is a step
that `Exchange` allows from the state heard last, or a stutter (`ViewRefines`). That there *is* a last
event of an order on the bus is the one induction, by `WFMin` over the positions of the bus.

`Closing_proofs` proves, for every finite set of buying and selling ids, every number of
tries, and every bound on volumes and on closings cut off, under the named assumptions of
`Closing` (no id both buys and sells; the bounds are naturals):

| Theorem | States |
|---|---|
| `InvariantCorrect` | `IInv`, the inductive invariant |
| `FlatCorrect` | when a closing strategy ends no position, no order and nothing on its way is left |
| `OrderCorrect` | the closing order is exactly the opposite of the position, and is never refused |

`IInv` has three parts. `Core` is the life of orders on the bus: an id is placed by one
message, its end is the last that is said of it, and what rests, may come to rest or may
still trade is pending or open in the portfolio. `Leads` says that the trades on the bus lead
from the position heard of (`held`) to the exchange's; there is no sum over the bus in it but a
function that gives the position after each message, which each step shifts or extends. `Phases`
says for each phase which orders can still trade: `Calm` orders neither rest nor are
placed, except by moves that find nothing, and their last trades have been heard of. When the
answers to all cancellations are in, every order is calm, so no trade is on the bus, so
`held = position`: that makes the closing order exact. Then only it can trade (`Untouched`,
`Opposite`), no other order rests against it, and its end leaves the position at zero. A move
sent by a strategy resumed together with the guard is behind the deletion of its order on the
bus and finds nothing (`Dead`): the reason why `late` does no harm. The steps of the exchange have
one form (`Exchanges`), for which preservation is proved once.

`NestedMarkets_proofs` proves, for every set of markets in which each hangs on the root by its
parents (`RootAssumption`; nothing is assumed of depth or number), every set of ids and every bound
on volumes:

| Theorem | States |
|---|---|
| `InvariantCorrect` | `IInv`, the inductive invariant |
| `TreeCorrect` | each market is told what concerns it and its children, and nothing else |
| `CancellableCorrect` | an order that rests is pending or open where it was placed |

`Noted` says exactly which markets noted an order: those on the way to the root, but of an order
made by a move only the market that moved it. With it `ReachesWhom` turns the chain of filters
into a fact about paths. The two properties of `TreeInv` are then inductive. `CancellableByOrigin` is not: it has to
survive the news of an order's end, which makes it neither pending nor open. `Core` says that
such news is true (`EndsTrue`) and that an order is still to be placed only as long as nothing has been said of
it (`PlacedOnce`); so what the market forgets is an order that does not come back.

`Deals_proofs` proves of `WaitDeal`, for any objects on the order, every volume and any number of waits:

| Theorem | States |
|---|---|
| `InvariantCorrect` | `IInv` |
| `FillsCorrect` | each object hands out every fill once and in order; a wait for the entire order ends with all of it |
| `WaitsCorrect` | nothing is waited for that cannot come, but on an order cancelled without any fill |

`FillsOnceInOrder` alone is not inductive: it says nothing of a buffer, which is handed out later.
`Split` is the missing part: what an object handed out and what its pending wait has buffered
are together the fills so far. A drop returns the buffer to the unread fills because `deals` did not move. `EntireIsFilled` is stable
because a complete fill is the order's last event. All steps that bring no news are one lemma
(`QuietKeeps`); a fill is one of its own, with one part per object that ends its wait, goes on or does not wait.

Of `Portfolio` it proves, for any ids, any integer prices, every bound on volumes and every length of the log
(`PricesAssumption`, `BoundsAssumption`):

| Theorem | States |
|---|---|
| `LedgerCorrect` | `AccountInv`, the inductive invariant |
| `PositionCorrect` | the position is one-sided and is what the deals add up to |
| `ClosingOrderCorrect` | the closing order, filled in one deal or in two, leaves no position |
| `MoneyCorrect` | money received and paid is the profit of the pairs and the cost of the position |
| `OpenOrdersCorrect` | the open orders are those with a volume neither traded nor taken back |

The four properties compare numbers that the code computes in unlike ways, and none carries itself from
one event to the next: from the sum of a queue nobody knows which entries a deal will use up. `Books` does:
the prices of the units in the position's queue are those of the units traded on its side, less as
many from the front as were traded on the other (`Drop`). `BooksNext` shows that a deal keeps it, with the two
cases of `Consumed`: the queue covers the deal (`ConsumedCovered`) or the deal goes beyond it
(`ConsumedBeyond`). `calc_profit` pairs exactly the units that `Drop` leaves out, so `MoneyKept` and `NetKept` are
sums over a sequence cut in two (`TotalSplit`). `Ledger` is the part for open orders: an order's last event,
unless a cancellation, carries what was added less what was filled. Each loop is a function on its number of rounds
(`RoundsAre`, `PositionsAre`, `TotalStep`); what is said of every round is proved by the least round for which it
would fail.

`MarketData_proofs` proves of `OrderLog`, for every finite set of positive prices and all positive bounds, depth
and interval among them:

| Theorem | States |
|---|---|
| `ReaderCorrect` | `ReaderInv`, the inductive invariant |
| `BookCorrect` | the rebuilt book is the exchange's, the quotes are its top, and nothing crossed is shown |
| `DealsOnceCorrect` | every deal is handed on once and in order |
| `ShownLagCorrect` | quotes that are withheld are withheld for the interval only, or while a side is missing |

The properties speak of a log that is read; the invariant has to speak of one that is not. `Reading` says that
*once the reader has read what is written, it knows all* (`Caught`): the book with the order under
way, the last record's values, the deals. A reading step consumes one application of `After` and needs nothing else
(`StepReads`); a writing step starts from an empty log and shows it for its one or two new records.
`Decoding` gives what a record read as a difference stands for: the record that was written. The rest
is by the form of the records: one that changes the book (`OneRecord`), one that
is not about it (`OtherRecord`), two of a move (`TwoQuiet`), two of a deal, of which the second has no id
of its own and is no new deal (`TwoDealing`). `Quoting` says that the quotes are those of the transaction
before until the record that ends one is read; that they are its best levels is `QuotesTop`, which rests
on a fact about finite sets (`HighestBids`, `LowestAsks`): the members with fewer than `Depth` others before them are the first
`Depth`, or all. `Apart`, that the exchange's book is not crossed between transactions, is proved of the model of the
exchange, not assumed; without it `QuotesTop` would fail, since the reader stops its asks at the first bid.
`DealsOnce` follows as what is read of the log only adds to `ticks` (`TicksGrow`).

`MarketData_proofs` proves of `Subscriptions`, for any objects, subscriptions and publications:

| Theorem | States |
|---|---|
| `LinksInvCorrect` | an object's handler is its own, in the service, under its own number |
| `CalledOnceInOrderCorrect` | a publication calls each handler it began with once, in order |
| `StaysSubscribedCorrect` | a handler leaves the service only when its own object ends it |

The first two are inductive; the third follows from the first, because a
subscription is erased by its key: with two handlers of one number, or a number of one's own that
another holds, an end would take somebody else's.

Only model-checked: liveness (`BacktestEnds`, `OperationsEnd`, `ClosingComesThrough`,
`ClosingEnds`), which the prover does not handle under fairness. Every invariant, action property and
refinement that a passing run checks is proved for every value of the constants.

## 5. Not modelled, and why

- **Vendored code** (googletest, spdlog, boost and zlib glue, ...) is most of the repository's
  lines. The program's own live code is some 8 to 9 thousand lines; the scalper and
  research strategies, about 3000 more, are commented out from the first line to the last.
  What the models map are the parts of the live code that keep state or decide
  something; the rest is declarations, forwarding, formatting and tests.
- **Floating point**: indicators, order book functions and the strategies' decisions, which
  are open choices in the models. The simulator compares scaled integers, and the models
  use those; profits are computed in whole steps.
- **Input and output**: files, headers and bytes of QSH streams (the variable-length integers,
  and what is read from a truncated file), logging.
- **C++ lifetimes**: moving a `Task` that runs, references into frames that have ended (but see
  `FrameOutlivesUse`), and `m_service`, which the moving constructor of `Subscription` tests before it
  is set.
- **Forwarding without state**: the per-kind signatures of `MarketService`, `MarketData`,
  `OrdLogMarketSimulator`, and several instruments (the code keeps them apart).
- **Small steps without a consequence for the properties**: what a nested market notes before a missing
  parent throws (`AddOrder` of `NestedMarkets`); a watcher whose predicate holds already when it is set
  (`Waits` of `Spawner`; a join's is in `Joins`); the wait for the security with which `SimpleClosing3` begins
  (`Start` of `Closing` may come late instead); reading the order log with `push` unset, which nothing
  in the program does, and a record with a side that also begins a session (`OrderLog`).
- Trees of contexts other than the chain a spawner builds, several watchers of one
  indicator, `Interval`, and overloads that fill in defaults.

## 6. Plan

What is left, in order of importance:

1. `Interval` and the watchers as users of `EventLoop` and `Spawner`; arbitrary context trees.
2. The variable-length integers of the QSH reader as pure algorithms against their
   definition; market data handlers in nested markets.

To rerun: `tlc -config <run>.cfg MC<module>` for a run, `tlapm <proof module>.tla`
for the proofs.
