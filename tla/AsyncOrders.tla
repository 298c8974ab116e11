----------------------------- MODULE AsyncOrders -----------------------------
(****************************************************************************)
(* The asynchronous order operations as strategies use them: add, wait for  *)
(* an order, cancel, wait for a cancellation, and move, which is a          *)
(* coroutine that sends the request and then waits twice.  Requests travel  *)
(* to the exchange and events back to the root market on one FIFO bus; an   *)
(* event updates the History and the set of pending orders and completes    *)
(* the operations registered for its order, in one publication.             *)
(*                                                                          *)
(* The exchange does no more than Exchange.tla promises (MarketSimulator    *)
(* implements that); times are left out (EventLoop has them), so an         *)
(* operation that was given a duration may time out at any moment.  All     *)
(* operations run under one TradingContext and on the root market.          *)
(****************************************************************************)
EXTENDS Integers, SequencesExt

CONSTANTS
    Ids,        \* order ids
    NoId,
    Ops,        \* operations the strategies may start
    MaxVolume   \* bound: volume of an order

ASSUME IdsAssumption == NoId \notin Ids
ASSUME VolumeAssumption == MaxVolume \in Nat

VARIABLES
    bus,        \* EventBus::m_events: requests up, events back
    state,      \* the exchange's view of each order ...
    rest,       \* ... and what is left of it (see Exchange)
    used,       \* ids generate_order_id has given out
    history,    \* History::m_orders: the events delivered about each order
    errors,     \* History::m_order_errors: operations that failed, by id
    pendings,   \* AsyncMarketBase::m_add_order_pendings
    closed,     \* TradingContext::m_closed
    ops         \* the services' m_orders, one record per operation

vars == <<bus, state, rest, used, history, errors, pendings, closed, ops>>

Request == [kind : {"add"}, id : Ids, volume : 0..MaxVolume]
               \cup [kind : {"del"}, id : Ids]
               \cup [kind : {"move"}, id : Ids, to : Ids, volume : 0..MaxVolume]
Event == [kind : {"order"}, id : Ids, status : {"Add", "Fill", "Cancel"},
          rest : 0..MaxVolume]
Error == [kind : {"error"}, id : Ids, of : {"Add", "Delete"}]

\* An operation waits for an event of order "on" in AddOrderService ("order")
\* or CancelOrderService ("cancel"), or is a move about to be resumed.
Operation == [kind : {"none", "add", "wait_order", "cancel", "wait_cancel", "move"},
              stage : {"idle", "order", "cancel", "resumed", "done"},
              about : Ids \cup {NoId}, to : Ids \cup {NoId}, on : Ids \cup {NoId},
              result : {"none", "success", "rejected", "error", "timeout", "closed"}]

TypeOK ==
    /\ bus \in Seq(Request \cup Event \cup Error)
    /\ state \in [Ids -> {"unknown", "dropped", "refused", "open", "filled", "cancelled"}]
    /\ rest \in [Ids -> 0..MaxVolume]
    /\ used \subseteq Ids /\ pendings \subseteq used
    /\ history \in [Ids -> Seq(Event)]
    /\ errors \in [Ids -> SUBSET {"Add", "Delete"}]
    /\ closed \in BOOLEAN
    /\ ops \in [Ops -> Operation]

-----------------------------------------------------------------------------
(* The exchange's answers *)

OrderEvent(i, st, r) == [kind |-> "order", id |-> i, status |-> st, rest |-> r]
OrderError(i, of) == [kind |-> "error", id |-> i, of |-> of]

\* The fills that leave r of a volume v, one event each
Fills(i, v, r) ==
    IF r = v THEN {<<>>}
    ELSE {[k \in DOMAIN s |-> OrderEvent(i, "Fill", s[k])] :
            s \in {q \in UNION {[1..n -> r..(v - 1)] : n \in 1..(v - r)} :
                     /\ q[Len(q)] = r
                     /\ \A j, k \in DOMAIN q : j < k => q[j] > q[k]}}

\* Placing volume v under id i: what becomes of the order and what is reported.
\* (An AddOrderException ends the program and is left out.)
Placed(i, v) ==
    LET Taken(r, st) == {[state |-> st, rest |-> r,
                          events |-> <<OrderEvent(i, "Add", v)>> \o f] : f \in Fills(i, v, r)}
        Killed(r) == {[a EXCEPT !.events = Append(@, OrderEvent(i, "Cancel", r))] :
                        a \in Taken(r, "cancelled")}
    IN  IF v <= 0 THEN {[state |-> "dropped", rest |-> 0, events |-> <<>>]}
        ELSE {[state |-> "refused", rest |-> 0, events |-> <<OrderError(i, "Add")>>]}
                 \cup Taken(0, "filled")
                 \cup UNION {Taken(r, "open") \cup Killed(r) : r \in 1..v}

\* Handlers posted in the last publication run before the market goes on.
Quiet == \A o \in Ops : ops[o].stage # "resumed"

\* The request at the head of the bus reaches the exchange.
Arrives(kind) == Quiet /\ bus # <<>> /\ Head(bus).kind = kind

Kept == UNCHANGED <<used, history, errors, pendings, closed, ops>>

\* Mutant of Queued: the reports overtake what is on the bus.
QueuedFirst(reports) == reports \o Tail(bus)

\* The reports an answer consists of join the end of the bus.
Queued(reports) == Tail(bus) \o reports

AddArrives ==
    /\ Arrives("add")
    /\ LET q == Head(bus) IN
       \E a \in Placed(q.id, q.volume) :
         /\ state' = [state EXCEPT ![q.id] = a.state]
         /\ rest' = [rest EXCEPT ![q.id] = a.rest]
         /\ bus' = Queued(a.events)
    /\ Kept

DelArrives ==
    /\ Arrives("del")
    /\ LET i == Head(bus).id IN
       IF state[i] = "open"
       THEN /\ state' = [state EXCEPT ![i] = "cancelled"]
            /\ bus' = Queued(<<OrderEvent(i, "Cancel", rest[i])>>)
       ELSE /\ bus' = Queued(<<OrderError(i, "Delete")>>)
            /\ UNCHANGED state
    /\ UNCHANGED rest /\ Kept

\* Mutant of MoveReported: the old order goes without a word.
MoveUnreported(i, a) == a.events

MoveReported(i, a) == <<OrderEvent(i, "Cancel", rest[i])>> \o a.events

\* The old order is cancelled and its remaining volume, unless another is
\* given, placed under the new id; if it is not there any more, nothing is.
MoveArrives ==
    /\ Arrives("move")
    /\ LET q == Head(bus)
           v == IF q.volume # 0 THEN q.volume ELSE rest[q.id]
       IN  IF state[q.id] = "open"
           THEN \E a \in Placed(q.to, v) :
                  /\ state' = [state EXCEPT ![q.id] = "cancelled", ![q.to] = a.state]
                  /\ rest' = [rest EXCEPT ![q.to] = a.rest]
                  /\ bus' = Queued(MoveReported(q.id, a))
           ELSE bus' = Tail(bus) /\ UNCHANGED <<state, rest>>
    /\ Kept

Executed(i, r) == OrderEvent(i, "Fill", r)

\* A deal of the market fills a resting order.
Deal ==
    /\ Quiet
    /\ \E i \in Ids : \E r \in 0..(rest[i] - 1) :
         /\ state[i] = "open"
         /\ rest' = [rest EXCEPT ![i] = r]
         /\ state' = [state EXCEPT ![i] = IF r = 0 THEN "filled" ELSE "open"]
         /\ bus' = Append(bus, Executed(i, r))
    /\ Kept

-----------------------------------------------------------------------------
(* Events reach the root market *)

Done(p, res) == [p EXCEPT !.stage = "done", !.result = res]

\* What the end of wait_cancel means: the last step of a cancel operation, the
\* first of a move.
Freed(p) == IF p.kind = "move" THEN [p EXCEPT !.stage = "resumed"]
            ELSE Done(p, "success")

\* Mutant of EndsCancel: any event of the order completes a cancellation.
EndsCancelAny(p, e) == p.stage = "cancel" /\ p.on = e.id

EndsCancel(p, e) == p.stage = "cancel" /\ p.on = e.id /\ e.status = "Cancel"

OrderArrives ==
    /\ Arrives("order")
    /\ LET e == Head(bus) IN
         /\ history' = [history EXCEPT ![e.id] = Append(@, e)]
         /\ pendings' = IF e.status = "Add" THEN pendings \ {e.id} ELSE pendings
         /\ ops' = [o \in Ops |->
                      LET p == ops[o] IN
                      IF p.stage = "order" /\ p.on = e.id THEN Done(p, "success")
                      ELSE IF EndsCancel(p, e) THEN Freed(p)
                      ELSE p]
    /\ bus' = Tail(bus)
    /\ UNCHANGED <<state, rest, used, errors, closed>>

PendingsAfter(e) == IF e.of = "Add" THEN pendings \ {e.id} ELSE pendings

\* Mutant of FailsCancel: it looks for errors of the wrong kind.
FailsCancelAdd(p, e) == p.stage = "cancel" /\ p.on = e.id /\ e.of = "Add"

FailsCancel(p, e) == p.stage = "cancel" /\ p.on = e.id /\ e.of = "Delete"

ErrorArrives ==
    /\ Arrives("error")
    /\ LET e == Head(bus) IN
         /\ errors' = [errors EXCEPT ![e.id] = @ \cup {e.of}]
         /\ pendings' = PendingsAfter(e)
         /\ ops' = [o \in Ops |->
                      LET p == ops[o] IN
                      IF p.stage = "order" /\ p.on = e.id THEN Done(p, "rejected")
                      ELSE IF FailsCancel(p, e) THEN Done(p, "error")
                      ELSE p]
    /\ bus' = Tail(bus)
    /\ UNCHANGED <<state, rest, used, history, closed>>

-----------------------------------------------------------------------------
(* The operations *)

\* An operation of some kind that is about order i, or moves it to order j
Fresh(kind, i, j) ==
    [kind |-> kind, stage |-> "idle", about |-> i, to |-> j, on |-> NoId,
     result |-> "none"]

\* The operation gets a record under order i in one of the two services.
Waits(p, service, i) == [p EXCEPT !.stage = service, !.on = i]

\* Mutant of AwaitOrder: the history is not consulted.
AwaitOrderBlind(p, i) ==
    IF closed THEN Done(p, "closed") ELSE Waits(p, "order", i)

\* async_wait_order: the answer may have come already.
AwaitOrder(p, i) ==
    IF closed THEN Done(p, "closed")
    ELSE IF history[i] # <<>> THEN Done(p, "success")
    ELSE IF errors[i] # {} THEN Done(p, "rejected")
    ELSE Waits(p, "order", i)

\* async_wait_cancel
AwaitCancel(p, i) ==
    IF closed THEN Done(p, "closed")
    ELSE IF history[i] # <<>> /\ Last(history[i]).status = "Cancel" THEN Freed(p)
    ELSE IF "Delete" \in errors[i] THEN Done(p, "error")
    ELSE Waits(p, "cancel", i)

\* A strategy starts operation o.
User(o) == ops[o].stage = "idle" /\ UNCHANGED <<state, rest, history, errors, closed>>

AddOrder(o) ==
    /\ User(o)
    /\ \E i \in Ids \ used, v \in 0..MaxVolume :
         IF closed
         THEN /\ ops' = [ops EXCEPT ![o] = Done(Fresh("add", NoId, NoId), "closed")]
              /\ UNCHANGED <<bus, used, pendings>>
         ELSE /\ used' = used \cup {i} /\ pendings' = pendings \cup {i}
              /\ bus' = Append(bus, [kind |-> "add", id |-> i, volume |-> v])
              /\ ops' = [ops EXCEPT ![o] = Waits(Fresh("add", i, NoId), "order", i)]

WaitOrder(o) ==
    /\ User(o)
    /\ \E i \in used :
         ops' = [ops EXCEPT ![o] = AwaitOrder(Fresh("wait_order", i, NoId), i)]
    /\ UNCHANGED <<bus, used, pendings>>

CancelOrder(o) ==
    /\ User(o)
    /\ \E i \in used :
         IF closed
         THEN /\ ops' = [ops EXCEPT ![o] = Done(Fresh("cancel", i, NoId), "closed")]
              /\ UNCHANGED bus
         ELSE /\ bus' = Append(bus, [kind |-> "del", id |-> i])
              /\ ops' = [ops EXCEPT ![o] = Waits(Fresh("cancel", i, NoId), "cancel", i)]
    /\ UNCHANGED <<used, pendings>>

WaitCancel(o) ==
    /\ User(o)
    /\ \E i \in used :
         ops' = [ops EXCEPT ![o] = AwaitCancel(Fresh("wait_cancel", i, NoId), i)]
    /\ UNCHANGED <<bus, used, pendings>>

\* Mutant of Announced: a move does not make its new order pending.
AnnouncedNot(j) == pendings

Announced(j) == pendings \cup {j}

\* async_move_order: the request is sent before the first wait looks at the
\* context.
MoveOrder(o) ==
    /\ User(o)
    /\ \E i \in used, j \in Ids \ used, v \in 0..MaxVolume :
         /\ used' = used \cup {j} /\ pendings' = Announced(j)
         /\ bus' = Append(bus, [kind |-> "move", id |-> i, to |-> j, volume |-> v])
         /\ ops' = [ops EXCEPT ![o] = AwaitCancel(Fresh("move", i, j), i)]

\* The coroutine of a move goes on to wait for its new order.
MoveResumed(o) ==
    /\ ops[o].stage = "resumed"
    /\ ops' = [ops EXCEPT ![o] = AwaitOrder(ops[o], ops[o].to)]
    /\ UNCHANGED <<bus, state, rest, used, history, errors, pendings, closed>>

\* The Task of an operation with a duration runs.
TimeOut(o) ==
    /\ Quiet /\ ops[o].stage \in {"order", "cancel"}
    /\ ops' = [ops EXCEPT ![o] = Done(@, "timeout")]
    /\ UNCHANGED <<bus, state, rest, used, history, errors, pendings, closed>>

\* TradingContext::close: every operation waiting under it is completed.
Close ==
    /\ ~closed /\ closed' = TRUE
    /\ ops' = [o \in Ops |-> IF ops[o].stage \in {"order", "cancel"}
                             THEN Done(ops[o], "closed") ELSE ops[o]]
    /\ UNCHANGED <<bus, state, rest, used, history, errors, pendings>>

Init ==
    /\ bus = <<>>
    /\ state = [i \in Ids |-> "unknown"] /\ rest = [i \in Ids |-> 0]
    /\ used = {} /\ pendings = {}
    /\ history = [i \in Ids |-> <<>>] /\ errors = [i \in Ids |-> {}]
    /\ closed = FALSE
    /\ ops = [o \in Ops |-> Fresh("none", NoId, NoId)]

Exchanged == AddArrives \/ DelArrives \/ MoveArrives
Told == OrderArrives \/ ErrorArrives
Start(o) == AddOrder(o) \/ WaitOrder(o) \/ CancelOrder(o) \/ WaitCancel(o) \/ MoveOrder(o)

Next ==
    \/ Exchanged \/ Told \/ Deal \/ Close
    \/ \E o \in Ops : Start(o) \/ MoveResumed(o) \/ TimeOut(o)

\* The loop delivers what is on the bus and resumes posted coroutines.
Spec ==
    /\ Init /\ [][Next]_vars
    /\ WF_vars(Exchanged \/ Told)
    /\ \A o \in Ops : WF_vars(MoveResumed(o))
-----------------------------------------------------------------------------
(* Properties *)

OnBus(P(_)) == \E k \in DOMAIN bus : P(bus[k])

\* A request that may place order i is still under way.
Placing(i) == OnBus(LAMBDA m : \/ m.kind = "add" /\ m.id = i
                               \/ m.kind = "move" /\ m.to = i)

\* The exchange never took notice of order i: its volume was not positive, or
\* the order it was to replace had gone.
Ignored(i) == i \in used /\ ~Placing(i) /\ state[i] \in {"unknown", "dropped"}

\* Nobody waits for an answer that has passed already: for every operation in a
\* service's table the request or the answer is on the bus.  The exceptions are
\* what the exchange ignores silently: then only a duration ends the wait.
AnswerUnderWay ==
    \A o \in Ops :
        LET p == ops[o] IN
        /\ p.stage = "order" =>
             \/ Placing(p.on) \/ Ignored(p.on)
             \/ OnBus(LAMBDA m : m.kind \in {"order", "error"} /\ m.id = p.on)
        /\ p.stage = "cancel" /\ p.kind # "wait_cancel" =>
             \/ OnBus(LAMBDA m : \/ p.kind = "cancel" /\ m.kind = "del" /\ m.id = p.on
                                 \/ p.kind = "move" /\ m.kind = "move" /\ m.to = p.to
                                 \/ m.kind = "order" /\ m.id = p.on /\ m.status = "Cancel"
                                 \/ m.kind = "error" /\ m.id = p.on /\ m.of = "Delete")
             \/ p.kind = "move" /\ state[p.on] \notin {"open", "cancelled"}

\* What an operation reports is true of the exchange, and stays true: an order
\* added was taken and one rejected was not, a cancelled order is cancelled,
\* one that could not be cancelled does not rest in the book, and a move that
\* succeeds has replaced its order.
ResultsTrue ==
    \A o \in Ops :
        LET p == ops[o]
            Gone(i) == state[i] # "open"
            Taken(i) == state[i] \in {"open", "filled", "cancelled"}
        IN  /\ p.kind \in {"add", "wait_order"} =>
                 /\ p.result = "success" => Taken(p.about)
                 /\ p.result = "rejected" => ~Taken(p.about)
            /\ p.kind \in {"cancel", "wait_cancel"} =>
                 /\ p.result = "success" => state[p.about] = "cancelled"
                 /\ p.result = "error" => Gone(p.about)
            /\ p.kind = "move" =>
                 /\ p.result = "success" => state[p.about] = "cancelled" /\ Taken(p.to)
                 /\ p.result = "error" => Gone(p.about)

\* Portfolio::orders: what is open according to the events so far
OpenOrders == {i \in Ids : /\ history[i] # <<>>
                           /\ Last(history[i]).status # "Cancel"
                           /\ Last(history[i]).rest > 0}

\* The closing strategies cancel the pending orders and the portfolio's open
\* ones: no order that rests at the exchange, or may come to, is in neither.
NothingEscapes ==
    \A i \in Ids : state[i] = "open" \/ Placing(i) => i \in pendings \cup OpenOrders

\* An order is pending exactly until the exchange's decision about it arrives
\* (for ever, if the exchange ignores it).
PendingsExact ==
    \A i \in used :
        i \in pendings <=>
            \/ Placing(i) \/ Ignored(i)
            \/ OnBus(LAMBDA m : \/ m = OrderError(i, "Add")
                                \/ m.kind = "order" /\ m.id = i /\ m.status = "Add")

\* An order as its events and errors tell it
Seen(h, refused) ==
    IF refused THEN "refused"
    ELSE IF h = <<>> THEN "unknown"
    ELSE IF Last(h).status = "Cancel" THEN "cancelled"
    ELSE IF Last(h).rest = 0 THEN "filled" ELSE "open"
SeenRest(h) == IF h = <<>> THEN 0 ELSE Last(h).rest

\* The view the strategies have of the exchange lags behind but is never wrong
\* for good: with what is still on the bus added, it is the exchange's own.
ViewCatchesUp ==
    \A i \in Ids :
        LET news == {k \in DOMAIN bus : bus[k].kind = "order" /\ bus[k].id = i}
            h == IF news = {} THEN history[i] ELSE Append(history[i], bus[Max(news)])
            refused == \/ "Add" \in errors[i]
                       \/ OnBus(LAMBDA m : m = OrderError(i, "Add"))
        IN  state[i] # "dropped" => Seen(h, refused) = state[i] /\ SeenRest(h) = rest[i]

\* What the strategies go by, pendings and History, is the exchange's own state
\* but for what is still on the bus.
ViewInv == TypeOK /\ PendingsExact /\ ViewCatchesUp

\* Seen through the History, with its delay, the exchange is an exchange again.
View == INSTANCE Exchange WITH state <- [i \in Ids |-> Seen(history[i], "Add" \in errors[i])],
                               rest <- [i \in Ids |-> SeenRest(history[i])]
ViewImplementsExchange == View!Spec

\* An operation that needs an answer gets one, or its context closes, unless
\* the exchange ignores its request.
OperationsEnd ==
    \A o \in Ops :
        ops[o].kind \in {"add", "cancel", "move"} /\ ops[o].stage # "done" ~>
            \/ ops[o].stage = "done"
            \/ ops[o].kind = "add" /\ Ignored(ops[o].on)
            \/ ops[o].kind = "move" /\ Ignored(ops[o].to)
=============================================================================
