------------------------------- MODULE Closing -------------------------------
(****************************************************************************)
(* How a trading session is closed.  The trading guard resets the trading   *)
(* strategies and runs a closing strategy: it cancels every order it knows  *)
(* of, joins the cancellations, and turns the position over with a closing  *)
(* order it waits for.  SimpleClosing2 ("two") sends one market order;      *)
(* SimpleClosing3 ("three") begins anew when a limit order is not filled in *)
(* time and takes a market order after some tries.  The guard may cut a     *)
(* closing off after 45 seconds; the next session begins with another.      *)
(*                                                                          *)
(* Everything travels on one FIFO bus (see EventLoop, AsyncOrders), so what *)
(* a strategy knows is old.  Of a refusal the exchange only promises that   *)
(* it needs a resting order of the other side; a market order is filled.    *)
(****************************************************************************)
EXTENDS Integers, FiniteSets, SequencesExt

CONSTANTS
    Buys,       \* ids of orders that buy; one may be taken again when nothing
    Sells,      \* recalls it; likewise of those that sell
    Tries,      \* limit orders SimpleClosing3 tries before a market order (3)
    MaxOrders,  \* bound: volume the trading strategies order, and orders they move
    MaxCuts     \* bound: closings the guard cuts off

ASSUME IdsAssumption == Buys \cap Sells = {} /\ IsFiniteSet(Buys \cup Sells)
ASSUME TriesAssumption == Tries \in Nat
ASSUME BoundsAssumption == MaxOrders \in Nat /\ MaxCuts \in Nat

VARIABLES
    bus,        \* requests up, events back
    live,       \* what of an order rests at the exchange
    position,   \* what the deals at the exchange add up to
    pendings,   \* AsyncMarketBase::m_add_order_pendings
    open,       \* Portfolio::orders: what is open as far as events tell
    held,       \* Portfolio::position likewise
    style,      \* the closing strategy: "two" or "three"
    phase,      \* where the session stands
    cancels,    \* cancellations the closing strategy waits for
    mine,       \* its closing orders: at most one
    tries,      \* SimpleClosing3: limit orders tried
    late,       \* coroutines resumed with the guard may still run
    orders,     \* volume ordered and orders moved so far
    cuts        \* closings cut off so far

exchange == <<live, position>>
view == <<pendings, open, held>>
closing == <<cancels, mine, tries>>
vars == <<bus, exchange, view, style, phase, closing, late, orders, cuts>>

Ids == Buys \cup Sells

Message ==
    [kind : {"add", "market", "fill", "filled"}, id : Ids, volume : Nat]
        \cup [kind : {"del", "accepted", "cancelled", "add_error", "del_error"}, id : Ids]
        \cup [kind : {"move"}, id : Ids, to : Ids]

TypeOK ==
    /\ bus \in Seq(Message)
    /\ live \in [Ids -> Nat]
    /\ {position, held} \subseteq Int
    /\ pendings \subseteq Ids /\ open \subseteq Ids
    /\ style \in {"two", "three"}
    /\ phase \in {"trading", "reset", "cancelling", "adding", "waiting", "flat"}
    /\ cancels \subseteq Ids /\ mine \subseteq Ids /\ Cardinality(mine) <= 1
    /\ tries \in 0..Tries /\ late \in BOOLEAN /\ orders \in 0..MaxOrders
    /\ cuts \in 0..MaxCuts

-----------------------------------------------------------------------------
(* The exchange *)

Direction(i) == IF i \in Buys THEN 1 ELSE -1

Msg(kind, i) == [kind |-> kind, id |-> i]
Order(kind, i, v) == [kind |-> kind, id |-> i, volume |-> v]

\* A coroutine whose answer has come runs before the market goes on.
Quiet ==
    /\ phase # "reset"
    /\ phase = "cancelling" => cancels # {}
    /\ phase = "waiting" => mine \subseteq open

Arrives(kinds) == Quiet /\ bus # <<>> /\ Head(bus).kind \in kinds

Fill(i, v, rest) == Order(IF rest = 0 THEN "filled" ELSE "fill", i, v)

\* Order i is placed with volume v, of which some trades at once.
Placed(i, v, traded, before) ==
    /\ live' = [live EXCEPT ![i] = v - traded]
    /\ position' = position + Direction(i) * traded
    /\ bus' = Tail(bus) \o before \o <<Msg("accepted", i)>>
                 \o (IF traded = 0 THEN <<>> ELSE <<Fill(i, traded, v - traded)>>)

\* An order may be refused when one of the other side rests.
Refusable(i) == \E k \in Ids : live[k] > 0 /\ Direction(k) # Direction(i)

AddArrives ==
    /\ Arrives({"add", "market"})
    /\ LET m == Head(bus) IN
       \/ \E traded \in 0..m.volume : (m.kind = "market" => traded = m.volume)
                                         /\ Placed(m.id, m.volume, traded, <<>>)
       \/ /\ Refusable(m.id)
          /\ bus' = Append(Tail(bus), Msg("add_error", m.id))
          /\ UNCHANGED <<live, position>>
    /\ late' = FALSE
    /\ UNCHANGED <<view, style, phase, closing, orders, cuts>>

DelArrives ==
    /\ Arrives({"del"})
    /\ LET i == Head(bus).id IN
         /\ bus' = Append(Tail(bus), Msg(IF live[i] > 0 THEN "cancelled" ELSE "del_error", i))
         /\ live' = [live EXCEPT ![i] = 0]
    /\ late' = FALSE
    /\ UNCHANGED <<position, view, style, phase, closing, orders, cuts>>

\* The rest of the old order is placed again; if there is none nothing happens.
MoveArrives ==
    /\ Arrives({"move"})
    /\ LET m == Head(bus)
           gone == Msg("cancelled", m.id)
           Old == [live EXCEPT ![m.id] = 0]
       IN  \/ /\ live[m.id] = 0
              /\ bus' = Tail(bus) /\ UNCHANGED <<live, position>>
           \/ \E traded \in 0..live[m.id] :
                /\ live[m.id] > 0
                /\ live' = [Old EXCEPT ![m.to] = live[m.id] - traded]
                /\ position' = position + Direction(m.to) * traded
                /\ bus' = Tail(bus) \o <<gone, Msg("accepted", m.to)>>
                             \o (IF traded = 0 THEN <<>>
                                 ELSE <<Fill(m.to, traded, live[m.id] - traded)>>)
           \/ /\ live[m.id] > 0 /\ Refusable(m.to)
              /\ live' = Old
              /\ bus' = Tail(bus) \o <<gone, Msg("add_error", m.to)>>
              /\ UNCHANGED position
    /\ late' = FALSE
    /\ UNCHANGED <<view, style, phase, closing, orders, cuts>>

\* The market trades with a resting order.
Deal ==
    /\ Quiet
    /\ \E i \in Ids : \E v \in 1..live[i] :
         /\ live' = [live EXCEPT ![i] = @ - v]
         /\ position' = position + Direction(i) * v
         /\ bus' = Append(bus, Fill(i, v, live[i] - v))
    /\ late' = FALSE
    /\ UNCHANGED <<view, style, phase, closing, orders, cuts>>

-----------------------------------------------------------------------------
(* Events reach the strategies *)

\* The Portfolio and the set of pending orders take notice of event m.
Noticed(m) ==
    /\ pendings' = IF m.kind \in {"accepted", "add_error"} THEN pendings \ {m.id} ELSE pendings
    /\ open' = CASE m.kind = "accepted" -> open \cup {m.id}
                 [] m.kind \in {"filled", "cancelled"} -> open \ {m.id}
                 [] OTHER -> open
    /\ held' = IF m.kind \in {"fill", "filled"} THEN held + Direction(m.id) * m.volume ELSE held

\* Mutant of Answers: the first fill ends a cancellation.
AnswersFill(m) == IF m.kind \in {"cancelled", "del_error", "fill"} THEN {m.id} ELSE {}

\* What ends a cancellation: the order is cancelled or could not be.
Answers(m) == IF m.kind \in {"cancelled", "del_error"} THEN {m.id} ELSE {}

EventArrives ==
    /\ Arrives({"accepted", "fill", "filled", "cancelled", "add_error", "del_error"})
    /\ LET m == Head(bus) IN
         /\ Noticed(m)
         /\ cancels' = cancels \ Answers(m)
         /\ phase' = IF phase = "adding" /\ m = Msg("accepted", m.id) /\ m.id \in mine
                     THEN "waiting" ELSE phase
    /\ bus' = Tail(bus)
    /\ late' = FALSE
    /\ UNCHANGED <<exchange, style, mine, tries, orders, cuts>>

-----------------------------------------------------------------------------
(* The trading strategies *)

\* Nothing recalls id i.
Fresh(i) ==
    /\ i \notin pendings \cup open \cup cancels /\ live[i] = 0
    /\ \A k \in DOMAIN bus : bus[k].id # i /\ (bus[k].kind = "move" => bus[k].to # i)

Trade ==
    /\ phase = "trading"
    /\ \E i \in Ids, v \in 1..(MaxOrders - orders) :
         /\ Fresh(i)
         /\ pendings' = pendings \cup {i}
         /\ bus' = Append(bus, Order("add", i, v))
         /\ orders' = orders + v
    /\ UNCHANGED <<live, position, open, held, style, phase, closing, late, cuts>>

TradeCancel ==
    /\ phase = "trading"
    /\ \E i \in open : ~Contains(bus, Msg("del", i)) /\ bus' = Append(bus, Msg("del", i))
    /\ UNCHANGED <<exchange, view, style, phase, closing, late, orders, cuts>>

\* A strategy moves an order, also when it was resumed in the same poll as the
\* guard and its context has been closed under it: only the waits notice that.
TradeMove ==
    /\ phase = "trading" \/ late
    /\ orders < MaxOrders
    /\ \E i, j \in Ids :
         /\ i \in open
         /\ Fresh(j) /\ Direction(j) = Direction(i)
         /\ pendings' = pendings \cup {j}
         /\ bus' = Append(bus, [kind |-> "move", id |-> i, to |-> j])
    /\ orders' = orders + 1
    /\ UNCHANGED <<live, position, open, held, style, phase, closing, late, cuts>>

-----------------------------------------------------------------------------
(* The guard and the closing strategy *)

\* The guard resets the spawner: the session is over, or the 45 seconds of a
\* closing are, which a new one follows.  Its cancellations go on alone.
Interrupt ==
    /\ phase \in {"trading", "cancelling", "adding", "waiting"}
    /\ Quiet
    /\ phase' = "reset"
    /\ cancels' = {} /\ mine' = {} /\ tries' = 0
    /\ late' = (phase = "trading")
    /\ IF phase = "trading" THEN UNCHANGED cuts ELSE cuts < MaxCuts /\ cuts' = cuts + 1
    /\ UNCHANGED <<bus, exchange, view, style, orders>>

\* Mutant of Known: the orders the exchange has not confirmed are forgotten.
KnownConfirmed == open

\* Every order the closing strategy knows of
Known == pendings \cup open

\* A round begins: all of them are cancelled, in any order.
CancelAll ==
    /\ phase' = "cancelling"
    /\ cancels' = Known
    /\ \E s \in SetToSeqs(Known) : bus' = bus \o [k \in DOMAIN s |-> Msg("del", s[k])]

\* SimpleClosing3 first waits for the security: deliveries go on meanwhile in
\* the phase "reset", which a cut-off would only begin anew.
Start ==
    /\ phase = "reset"
    /\ CancelAll
    /\ UNCHANGED <<exchange, view, style, mine, tries, late, orders, cuts>>

\* Mutant of Kind: SimpleClosing3 goes on with limit orders.
KindLimit == IF style = "three" THEN "add" ELSE "market"

Kind == IF style = "three" /\ tries < Tries THEN "add" ELSE "market"

\* Portfolio::closing_order
Volume == IF held > 0 THEN held ELSE -held

\* All cancellations are answered: nothing is held, or the closing order goes.
Close ==
    /\ phase = "cancelling" /\ cancels = {}
    /\ IF held = 0
       THEN /\ phase' = "flat" /\ mine' = {} /\ tries' = 0
            /\ UNCHANGED <<bus, pendings>>
       ELSE \E i \in Ids :
              /\ Fresh(i) /\ i \in IF held > 0 THEN Sells ELSE Buys
              /\ pendings' = pendings \cup {i}
              /\ bus' = Append(bus, Order(Kind, i, Volume))
              /\ mine' = {i} /\ phase' = "adding"
              /\ UNCHANGED tries
    /\ UNCHANGED <<live, position, open, held, style, cancels, late, orders, cuts>>

\* The closing order is filled.
Closed ==
    /\ phase = "waiting" /\ mine \cap open = {}
    /\ phase' = "flat" /\ mine' = {} /\ tries' = 0
    /\ UNCHANGED <<bus, exchange, view, style, cancels, late, orders, cuts>>

\* Ten seconds are over (EventLoop: they do not elapse before an answer that is
\* on its way, so not for a market order): SimpleClosing3 begins anew.
TimedOut ==
    /\ Quiet /\ phase = "waiting" /\ style = "three" /\ tries < Tries
    /\ tries' = tries + 1
    /\ CancelAll
    /\ UNCHANGED <<exchange, view, style, mine, late, orders, cuts>>

\* The next session finds everything closed.
Open ==
    /\ phase = "flat"
    /\ phase' = "trading"
    /\ UNCHANGED <<bus, exchange, view, style, closing, late, orders, cuts>>

Init ==
    /\ bus = <<>>
    /\ live = [i \in Ids |-> 0] /\ position = 0
    /\ pendings = {} /\ open = {} /\ held = 0
    /\ style \in {"two", "three"} /\ phase = "reset"
    /\ cancels = {} /\ mine = {} /\ tries = 0 /\ late = FALSE /\ orders = 0 /\ cuts = 0

Delivery == AddArrives \/ DelArrives \/ MoveArrives \/ EventArrives
Coroutine == Start \/ Close \/ Closed

Next ==
    \/ Delivery \/ Coroutine \/ Deal
    \/ Trade \/ TradeCancel \/ TradeMove
    \/ Interrupt \/ TimedOut \/ Open

\* The loop delivers what is on the bus, resumes coroutines and runs tasks.
Spec == Init /\ [][Next]_vars /\ WF_vars(Delivery) /\ WF_vars(Coroutine) /\ WF_vars(TimedOut)

-----------------------------------------------------------------------------
(* Properties *)

\* When a closing strategy ends, the exchange holds neither a position nor an
\* order, and nothing on the way to it can make one.
FlatWhenClosed ==
    phase = "flat" =>
        /\ position = 0 /\ held = 0
        /\ \A i \in Ids : live[i] = 0
        /\ \A k \in DOMAIN bus : bus[k].kind \notin {"add", "market"}

\* The closing order on its way, or what is left of it at the exchange, is
\* exactly the opposite of the position there: a closing never turns a position
\* around, whatever was filled while it was decided.
ClosingExact ==
    \A i \in mine : phase \in {"adding", "waiting"} =>
        LET sent == {k \in DOMAIN bus : bus[k].id = i /\ bus[k].kind \in {"add", "market"}}
        IN  IF sent = {} THEN position + Direction(i) * live[i] = 0
            ELSE \A k \in sent : position + Direction(i) * bus[k].volume = 0

\* The exchange never refuses the closing order, so that async_add_order does
\* not throw: no own order rests against it.
NeverRefused ==
    \A i \in mine : ~Contains(bus, Msg("add_error", i))

\* What the closing order does is decided when it is sent.
OrderInv == TypeOK /\ ClosingExact /\ NeverRefused

\* Unless the guard cuts closings off for ever (MaxCuts), one that began ends,
\* with everything closed.
ClosingEnds == phase = "reset" ~> phase = "flat"

=============================================================================
