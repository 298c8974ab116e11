---------------------------- MODULE NestedMarkets ----------------------------
(****************************************************************************)
(* Markets nested in the root market, as CalmOppStrategy makes them to keep *)
(* the orders of its two strategies apart.  An order is announced on every  *)
(* market from the one it is placed through up to the root; a move skips    *)
(* the markets in between.  Events go down from the root, each market       *)
(* letting through only the orders it was told of, and each market keeps a  *)
(* History, a set of pending orders and what a Portfolio makes of them.     *)
(*                                                                          *)
(* The exchange and the bus are as in AsyncOrders, with refusals at will.   *)
(****************************************************************************)
EXTENDS Integers, FiniteSets, SequencesExt

CONSTANTS
    Root,
    Nested,     \* markets below the root
    Parent,     \* the market each of them was made from
    Ids,        \* order ids
    MaxVolume   \* bound: volume of an order

Markets == Nested \cup {Root}

ASSUME ParentAssumption ==
    Root \notin Nested /\ Parent \in [Nested -> Markets] /\ "none" \notin Markets
ASSUME VolumeAssumption == MaxVolume \in Nat

VARIABLES
    alive,      \* markets that exist
    orderIds,   \* AsyncMarket::m_order_ids
    pendings,   \* AsyncMarketBase::m_add_order_pendings
    seen,       \* what the events each market got say of an order
    bus,        \* requests up, events back
    live,       \* what rests at the exchange
    origin,     \* history: the market an order was placed or moved through
    moved       \* history: ids given by a move

vars == <<alive, orderIds, pendings, seen, bus, live, origin, moved>>

Unseen == [status |-> "none", filled |-> 0]

Message ==
    [kind : {"add", "accepted", "filled", "cancelled", "add_error", "del_error"},
     id : Ids, volume : 0..MaxVolume]
        \cup [kind : {"del"}, id : Ids] \cup [kind : {"move"}, id : Ids, to : Ids]

TypeOK ==
    /\ alive \subseteq Markets /\ Root \in alive
    /\ orderIds \in [Nested -> SUBSET Ids] /\ pendings \in [Markets -> SUBSET Ids]
    /\ seen \in [Markets -> [Ids -> [status : {"none", "open", "gone"}, filled : Nat]]]
    /\ bus \in Seq(Message)
    /\ live \in [Ids -> 0..MaxVolume]
    /\ origin \in [Ids -> Markets \cup {"none"}] /\ moved \subseteq Ids

-----------------------------------------------------------------------------
(* The tree *)

\* The market and those above it
Path ==
    [m \in Markets |->
        {n \in Markets : \A S \in SUBSET Markets :
            m \in S /\ (\A k \in S \cap Nested : Parent[k] \in S) => n \in S}]

\* Every market hangs on the root.
ASSUME RootAssumption == \A m \in Markets : Root \in Path[m]

\* Markets that have all they hang on
Attached == {m \in alive : Path[m] \subseteq alive}

\* The handlers of AsyncMarket: an event about i gets to m through every market
\* above it that knows i.
Reaches(m, i) == m \in Attached /\ \A n \in Path[m] \ {Root} : i \in orderIds[n]

-----------------------------------------------------------------------------
(* Requests *)

Announced(P, i) == [m \in Markets |-> IF m \in P THEN pendings[m] \cup {i} ELSE pendings[m]]

\* Mutant of Known: a market forgets to note the order of one below it.
KnownHere(m, i) == [orderIds EXCEPT ![m] = @ \cup {i}]

\* Every nested market on the way notes the id.
Known(m, i) == [n \in Nested |-> IF n \in Path[m] THEN orderIds[n] \cup {i} ELSE orderIds[n]]

\* add_order, from market to market.  Where a parent is gone it throws: no order
\* is sent, and what the markets below noted by then, the id of an order that
\* never was, is left out.
AddOrder(m, i, v) ==
    /\ m \in Attached /\ origin[i] = "none"
    /\ pendings' = Announced(Path[m], i)
    /\ orderIds' = IF m = Root THEN orderIds ELSE Known(m, i)
    /\ bus' = Append(bus, [kind |-> "add", id |-> i, volume |-> v])
    /\ origin' = [origin EXCEPT ![i] = m]
    /\ UNCHANGED <<alive, seen, live, moved>>

\* del_order goes to the root directly.
DelOrder(m, i) ==
    /\ m \in alive /\ origin[i] = m
    /\ ~Contains(bus, [kind |-> "del", id |-> i])
    /\ bus' = Append(bus, [kind |-> "del", id |-> i])
    /\ UNCHANGED <<alive, orderIds, pendings, seen, live, origin, moved>>

\* Mutant of MoveOrder: the new order is not noted as pending.
MoveOrderUnannounced(m, i, j) ==
    /\ m \in alive /\ origin[i] = m /\ origin[j] = "none"
    /\ orderIds' = IF m = Root THEN orderIds ELSE [orderIds EXCEPT ![m] = @ \cup {j}]
    /\ bus' = Append(bus, [kind |-> "move", id |-> i, to |-> j])
    /\ origin' = [origin EXCEPT ![j] = m] /\ moved' = moved \cup {j}
    /\ UNCHANGED <<alive, pendings, seen, live>>

\* move_order: only this market and the root learn of the new id.
MoveOrder(m, i, j) ==
    /\ m \in alive /\ origin[i] = m /\ origin[j] = "none"
    /\ pendings' = Announced({m, Root}, j)
    /\ orderIds' = IF m = Root THEN orderIds ELSE [orderIds EXCEPT ![m] = @ \cup {j}]
    /\ bus' = Append(bus, [kind |-> "move", id |-> i, to |-> j])
    /\ origin' = [origin EXCEPT ![j] = m] /\ moved' = moved \cup {j}
    /\ UNCHANGED <<alive, seen, live>>

\* A nested market ends with the strategy that made it.
Destroy(m) ==
    /\ m \in alive \cap Nested
    /\ alive' = alive \ {m}
    /\ UNCHANGED <<orderIds, pendings, seen, bus, live, origin, moved>>

-----------------------------------------------------------------------------
(* The exchange *)

Head1(kind) == bus # <<>> /\ Head(bus).kind = kind
Event(kind, i, v) == [kind |-> kind, id |-> i, volume |-> v]
Kept == UNCHANGED <<alive, orderIds, pendings, seen, origin, moved>>

\* Placing i with volume v: refused, or accepted with some of it traded
Placements(i, v) ==
    {[rest |-> 0, events |-> <<Event("add_error", i, 0)>>]} \cup
    {[rest |-> v - t, events |-> IF t = 0 THEN <<Event("accepted", i, v)>>
                                 ELSE <<Event("accepted", i, v), Event("filled", i, t)>>] :
        t \in 0..v}

AddArrives ==
    /\ Head1("add")
    /\ LET q == Head(bus) IN \E a \in Placements(q.id, q.volume) :
         /\ live' = [live EXCEPT ![q.id] = a.rest]
         /\ bus' = Tail(bus) \o a.events
    /\ Kept

DelArrives ==
    /\ Head1("del")
    /\ LET i == Head(bus).id IN
         /\ live' = [live EXCEPT ![i] = 0]
         /\ bus' = Append(Tail(bus), Event(IF live[i] > 0 THEN "cancelled" ELSE "del_error", i, 0))
    /\ Kept

\* The new order has the volume asked for, or that of the old one: any.
MoveArrives ==
    /\ Head1("move")
    /\ LET q == Head(bus) IN
         IF live[q.id] = 0 THEN bus' = Tail(bus) /\ UNCHANGED live
         ELSE \E v \in 1..MaxVolume : \E a \in Placements(q.to, v) :
                /\ live' = [live EXCEPT ![q.id] = 0, ![q.to] = a.rest]
                /\ bus' = Tail(bus) \o <<Event("cancelled", q.id, 0)>> \o a.events
    /\ Kept

Deal ==
    /\ \E i \in Ids : \E v \in 1..live[i] :
         /\ live' = [live EXCEPT ![i] = @ - v]
         /\ bus' = Append(bus, [kind |-> "filled", id |-> i, volume |-> v])
    /\ Kept

-----------------------------------------------------------------------------
(* Publication *)

\* What a History and a Portfolio make of an event
After(s, e) ==
    CASE e.kind = "accepted" -> [s EXCEPT !.status = "open"]
      [] e.kind = "filled" -> [s EXCEPT !.filled = @ + e.volume]
      [] e.kind = "cancelled" -> [s EXCEPT !.status = "gone"]
      [] OTHER -> s

EventArrives ==
    /\ bus # <<>> /\ Head(bus).kind \notin {"add", "del", "move"}
    /\ LET e == Head(bus)
           At(m) == Reaches(m, e.id)
       IN  /\ seen' = [m \in Markets |-> IF At(m) THEN [seen[m] EXCEPT ![e.id] = After(@, e)]
                                         ELSE seen[m]]
           /\ pendings' = [m \in Markets |-> IF At(m) /\ e.kind \in {"accepted", "add_error"}
                                             THEN pendings[m] \ {e.id} ELSE pendings[m]]
    /\ bus' = Tail(bus)
    /\ UNCHANGED <<alive, orderIds, live, origin, moved>>

Init ==
    /\ alive = Markets
    /\ orderIds = [m \in Nested |-> {}] /\ pendings = [m \in Markets |-> {}]
    /\ seen = [m \in Markets |-> [i \in Ids |-> Unseen]]
    /\ bus = <<>> /\ live = [i \in Ids |-> 0]
    /\ origin = [i \in Ids |-> "none"] /\ moved = {}

Next ==
    \/ \E m \in Markets, i \in Ids :
         \/ \E v \in 1..MaxVolume : AddOrder(m, i, v)
         \/ DelOrder(m, i)
         \/ \E j \in Ids : MoveOrder(m, i, j)
    \/ \E m \in Nested : Destroy(m)
    \/ AddArrives \/ DelArrives \/ MoveArrives \/ Deal \/ EventArrives

Spec == Init /\ [][Next]_vars

-----------------------------------------------------------------------------
(* Properties *)

\* Orders the markets between m and the root never heard of: those moved
\* through a market further down than directly below the root.
Hidden(m, i) == i \in moved /\ m # Root /\ Path[origin[i]] \ {Root, origin[i]} # {}

\* A market is told exactly what the root is about the orders placed through
\* it or through a market below it, and nothing of others.
SeesOwnOrders ==
    \A m \in Attached, i \in Ids :
        ~Hidden(m, i) =>
            seen[m][i] = IF origin[i] # "none" /\ m \in Path[origin[i]]
                         THEN seen[Root][i] ELSE Unseen

\* The order a market below the first level moves is lost to it: it sees no
\* event of the new order, which stays pending there and nowhere in between.
MovedOrdersLost ==
    \A i \in moved : \A m \in Attached :
        Hidden(m, i) => seen[m][i] = Unseen /\ (m = origin[i] <=> i \in pendings[m])

\* Orders that rest at the exchange are pending or open for the market they
\* were placed through, so that a closing strategy of this market cancels them,
\* even the ones a move hides from it.
CancellableByOrigin ==
    \A i \in Ids :
        live[i] > 0 /\ origin[i] \in Attached =>
            i \in pendings[origin[i]] \/ seen[origin[i]][i].status = "open"

\* A market knows of its own orders and of what lies below it, no more and,
\* moves further down apart, no less.
TreeInv == TypeOK /\ SeesOwnOrders /\ MovedOrdersLost

=============================================================================
