------------------------ MODULE NestedMarkets_proofs ------------------------
(****************************************************************************)
(* Proofs about NestedMarkets, for any tree of markets, any orders and any  *)
(* volumes.  Whom an event reaches follows from which market noted which    *)
(* order; that an order can still be cancelled by the market it was placed  *)
(* through follows from the order of the messages about it on the bus.      *)
(****************************************************************************)
EXTENDS NestedMarkets, TLAPS

-----------------------------------------------------------------------------
(* What is said of messages b on the bus and of what l rests at the exchange *)

Places(e, i) == (e.kind = "add" /\ e.id = i) \/ (e.kind = "move" /\ e.to = i)
EndsOrder(e) == e.kind \in {"cancelled", "add_error"}

Unplaced(i, b) == \A k \in DOMAIN b : ~Places(b[k], i)

\* Messages are about ids in use, and a move is to another one.
AboutUsed(b, used) ==
    \A k \in DOMAIN b :
        /\ b[k].id \in used
        /\ b[k].kind = "move" => b[k].to \in used /\ b[k].id # b[k].to

\* An order that is still to be placed does not rest, and all that is said of it
\* besides is that it be cancelled or moved afterwards.
PlacedOnce(b, l) ==
    \A i \in Ids : \A k \in DOMAIN b : Places(b[k], i) =>
        /\ l[i] = 0
        /\ \A n \in DOMAIN b : n # k =>
              ~Places(b[n], i) /\ (b[n].id = i => b[n].kind \in {"del", "move"} /\ n > k)

\* The news that an order was cancelled or refused is true, for good.
EndsTrue(b, l) ==
    \A k \in DOMAIN b : EndsOrder(b[k]) => l[b[k].id] = 0 /\ Unplaced(b[k].id, b)

Core(b, l, used) ==
    /\ b \in Seq(Message) /\ l \in [Ids -> 0..MaxVolume] /\ used \subseteq Ids
    /\ \A i \in Ids \ used : l[i] = 0
    /\ AboutUsed(b, used) /\ PlacedOnce(b, l) /\ EndsTrue(b, l)

\* The exchange has order i or is still to get it.
Coming(i, b, l) == l[i] > 0 \/ ~Unplaced(i, b)

-----------------------------------------------------------------------------
(* The invariant *)

Used == {i \in Ids : origin[i] # "none"}

\* Which markets noted which order: those on the way to the root, but of an order
\* made by a move only the market that moved it.
Noted ==
    \A i \in Ids, n \in Nested :
        i \in orderIds[n] <=>
            i \in Used /\ (IF i \in moved THEN n = origin[i] ELSE n \in Path[origin[i]])

OnlyUsed == moved \subseteq Used /\ \A m \in Markets : pendings[m] \subseteq Used

\* An order that comes to rest or rests is pending or open where it was placed.
Cancellable ==
    \A i \in Ids : origin[i] \in Attached /\ Coming(i, bus, live) =>
        i \in pendings[origin[i]] \/ seen[origin[i]][i].status = "open"

IInv ==
    /\ TypeOK
    /\ Noted /\ OnlyUsed /\ SeesOwnOrders /\ MovedOrdersLost
    /\ Core(bus, live, Used) /\ Cancellable

-----------------------------------------------------------------------------
(* The tree *)

LEMMA PathFacts ==
  ASSUME NEW m \in Markets
  PROVE  /\ m \in Path[m] /\ Root \in Path[m] /\ Path[m] \subseteq Markets
         /\ \A n \in Path[m] : Path[n] \subseteq Path[m]
  <1>1. \A k \in Markets : Path[k] = {n \in Markets : \A S \in SUBSET Markets :
            k \in S /\ (\A x \in S \cap Nested : Parent[x] \in S) => n \in S}
    BY DEF Path
  <1>2. \A n \in Path[m] : Path[n] \subseteq Path[m]
    <2> SUFFICES ASSUME NEW n \in Path[m], NEW k \in Path[n], NEW S \in SUBSET Markets,
                        m \in S, \A x \in S \cap Nested : Parent[x] \in S
                 PROVE  k \in S
      BY <1>1
    <2>1. n \in S
      BY <1>1
    <2>q. QED BY <1>1, <2>1
  <1>q. QED BY <1>1, <1>2, RootAssumption

LEMMA RootPath == Root \in Markets /\ Path[Root] = {Root}
  <1>1. {Root} \in SUBSET Markets /\ {Root} \cap Nested = {}
    BY ParentAssumption DEF Markets
  <1>q. QED BY <1>1, PathFacts DEF Path

\* The filters of the markets let an event about an order through to those it was
\* placed through or below, unless a move hid it from them.
LEMMA ReachesWhom ==
  ASSUME Noted, OnlyUsed, TypeOK, NEW i \in Used, NEW m \in Attached
  PROVE  Reaches(m, i) <=> m \in Path[origin[i]] /\ ~Hidden(m, i)
  <1> DEFINE o == origin[i]
  <1>1. /\ i \in Ids /\ o \in Markets /\ m \in Markets /\ Root \notin Nested
        /\ Markets = Nested \cup {Root}
    BY ParentAssumption DEF TypeOK, Used, Attached, Markets
  <1>2. /\ m \in Path[m] /\ Root \in Path[o] /\ o \in Path[o]
        /\ Path[m] \subseteq Markets /\ Path[o] \subseteq Markets
        /\ m \in Path[o] => Path[m] \subseteq Path[o]
    BY <1>1, PathFacts
  <1>3. Path[m] \ {Root} \subseteq Nested
    BY <1>1, <1>2
  <1>4. CASE i \notin moved
    <2>1. Reaches(m, i) <=> Path[m] \ {Root} \subseteq Path[o]
      BY <1>1, <1>3, <1>4 DEF Reaches, Noted
    <2>2. Path[m] \ {Root} \subseteq Path[o] <=> m \in Path[o]
      BY <1>2
    <2>q. QED BY <1>4, <2>1, <2>2 DEF Hidden
  <1>5. CASE i \in moved
    <2>1. Reaches(m, i) <=> Path[m] \ {Root} \subseteq {o}
      BY <1>1, <1>3, <1>5 DEF Reaches, Noted
    <2>2. CASE m = Root
      BY <1>2, <2>1, <2>2, RootPath DEF Hidden
    <2>3. CASE m # Root
      <3>1. Hidden(m, i) <=> Path[o] \ {Root, o} # {}
        BY <1>5, <2>3 DEF Hidden
      <3>2. Path[m] \ {Root} \subseteq {o} => m = o
        BY <1>2, <2>3
      <3>3. m \in Path[o] /\ Path[o] \ {Root, o} = {} => m = o
        BY <2>3
      <3>q. QED BY <2>1, <3>1, <3>2, <3>3, <1>2
    <2>q. QED BY <2>2, <2>3
  <1>q. QED BY <1>4, <1>5

-----------------------------------------------------------------------------
(* Sequences of messages *)

LEMMA TailBus ==
  ASSUME NEW b \in Seq(Message), b # <<>>
  PROVE  /\ Tail(b) \in Seq(Message) /\ Head(b) = b[1] /\ b[1] \in Message
         /\ Len(b) \in Nat /\ Len(b) > 0
         /\ DOMAIN b = 1..Len(b) /\ DOMAIN Tail(b) = 1..(Len(b) - 1)
         /\ \A k \in 1..(Len(b) - 1) : Tail(b)[k] = b[k + 1]
  OBVIOUS

LEMMA AppendBus ==
  ASSUME NEW b \in Seq(Message), NEW e \in Message
  PROVE  /\ Append(b, e) \in Seq(Message) /\ Len(b) \in Nat
         /\ DOMAIN b = 1..Len(b) /\ DOMAIN Append(b, e) = 1..(Len(b) + 1)
         /\ \A k \in 1..Len(b) : Append(b, e)[k] = b[k]
         /\ Append(b, e)[Len(b) + 1] = e
  OBVIOUS

LEMMA Concats ==
  ASSUME NEW b \in Seq(Message), NEW e \in Message, NEW f \in Message, NEW g \in Message
  PROVE  /\ b \o <<e>> = Append(b, e)
         /\ b \o <<e, f>> = Append(Append(b, e), f)
         /\ b \o <<e, f, g>> = Append(Append(Append(b, e), f), g)
  OBVIOUS

LEMMA MessageFields ==
  ASSUME NEW e \in Message
  PROVE  /\ e.id \in Ids
         /\ e.kind \in {"add", "accepted", "filled", "cancelled", "add_error", "del_error",
                        "del", "move"}
         /\ e.kind = "move" => e.to \in Ids
         /\ e.kind \notin {"del", "move"} => e.volume \in 0..MaxVolume
  BY DEF Message

LEMMA MessageMade ==
  ASSUME NEW i \in Ids
  PROVE  /\ [kind |-> "del", id |-> i] \in Message
         /\ \A j \in Ids : [kind |-> "move", id |-> i, to |-> j] \in Message
         /\ \A v \in 0..MaxVolume :
               /\ [kind |-> "add", id |-> i, volume |-> v] \in Message
               /\ \A kind \in {"accepted", "filled", "cancelled", "add_error", "del_error"} :
                     /\ Event(kind, i, v) \in Message
                     /\ Event(kind, i, v).kind = kind /\ Event(kind, i, v).id = i
  BY DEF Message, Event

-----------------------------------------------------------------------------
(* What is said of orders, as messages come and go *)

\* A message leaves the bus: its id is not placed any more; if it placed an order,
\* that order was not asked about before.
LEMMA CoreDrop ==
  ASSUME NEW b, NEW l, NEW used, Core(b, l, used), b # <<>>
  PROVE  /\ Core(Tail(b), l, used)
         /\ \A i \in Ids : ~Unplaced(i, Tail(b)) => ~Unplaced(i, b)
         /\ Unplaced(b[1].id, Tail(b))
         /\ b[1].kind = "move" => Unplaced(b[1].to, Tail(b)) /\ b[1].id # b[1].to
         /\ \A i \in Ids : Places(b[1], i) =>
               \A k \in DOMAIN Tail(b) : Tail(b)[k].id = i => ~EndsOrder(Tail(b)[k])
  <1> DEFINE t == Tail(b)
  <1>1. /\ b \in Seq(Message) /\ t \in Seq(Message) /\ b[1] \in Message
        /\ Len(b) \in Nat /\ Len(b) > 0
        /\ DOMAIN b = 1..Len(b) /\ DOMAIN t = 1..(Len(b) - 1)
        /\ \A k \in 1..(Len(b) - 1) : t[k] = b[k + 1]
    BY TailBus DEF Core
  <1>2. \A k \in DOMAIN t : k + 1 \in DOMAIN b /\ k + 1 # 1 /\ t[k] = b[k + 1]
    BY <1>1
  <1>3. 1 \in DOMAIN b /\ b[1].id \in Ids /\ (b[1].kind = "move" => b[1].to \in Ids)
    BY <1>1, MessageFields
  <1>4. \A i \in Ids : ~Unplaced(i, t) => ~Unplaced(i, b)
    BY <1>2 DEF Unplaced
  <1>5. AboutUsed(t, used)
    BY <1>2 DEF AboutUsed, Core
  <1>6. PlacedOnce(t, l)
    <2> SUFFICES ASSUME NEW i \in Ids, NEW k \in DOMAIN t, Places(t[k], i)
                 PROVE  /\ l[i] = 0
                        /\ \A n \in DOMAIN t : n # k =>
                              /\ ~Places(t[n], i)
                              /\ t[n].id = i => t[n].kind \in {"del", "move"} /\ n > k
      BY DEF PlacedOnce
    <2>1. /\ l[i] = 0
          /\ \A n \in DOMAIN b : n # k + 1 =>
                ~Places(b[n], i) /\ (b[n].id = i => b[n].kind \in {"del", "move"} /\ n > k + 1)
      BY <1>2 DEF PlacedOnce, Core
    <2>2. \A n \in DOMAIN t : n # k => n + 1 # k + 1 /\ (n + 1 > k + 1 => n > k)
      BY <1>1
    <2>q. QED BY <1>2, <2>1, <2>2
  <1>7. EndsTrue(t, l)
    <2> SUFFICES ASSUME NEW k \in DOMAIN t, EndsOrder(t[k])
                 PROVE  l[t[k].id] = 0 /\ Unplaced(t[k].id, t)
      BY DEF EndsTrue
    <2>1. l[t[k].id] = 0 /\ Unplaced(t[k].id, b) /\ t[k] \in Message
      BY <1>1, <1>2 DEF EndsTrue, Core
    <2>q. QED BY <1>4, <2>1, MessageFields
  <1>8. Unplaced(b[1].id, t)
    <2> SUFFICES ASSUME NEW k \in DOMAIN t, Places(t[k], b[1].id) PROVE FALSE
      BY DEF Unplaced
    <2>1. 1 > k + 1
      BY <1>2, <1>3 DEF PlacedOnce, Core
    <2>q. QED BY <1>1, <2>1
  <1>9. b[1].kind = "move" => Unplaced(b[1].to, t) /\ b[1].id # b[1].to
    <2> HAVE b[1].kind = "move"
    <2>1. Places(b[1], b[1].to)
      BY DEF Places
    <2>2. \A n \in DOMAIN b : n # 1 => ~Places(b[n], b[1].to)
      BY <1>3, <2>1 DEF PlacedOnce, Core
    <2>q. QED BY <1>2, <1>3, <2>2 DEF Unplaced, AboutUsed, Core
  <1>10. \A i \in Ids : Places(b[1], i) =>
            \A k \in DOMAIN t : t[k].id = i => ~EndsOrder(t[k])
    <2> SUFFICES ASSUME NEW i \in Ids, Places(b[1], i), NEW k \in DOMAIN t, t[k].id = i
                 PROVE  ~EndsOrder(t[k])
      OBVIOUS
    <2>1. b[k + 1].kind \in {"del", "move"}
      BY <1>2, <1>3 DEF PlacedOnce, Core
    <2>q. QED BY <1>2, <2>1 DEF EndsOrder
  <1>q. QED BY <1>1, <1>4, <1>5, <1>6, <1>7, <1>8, <1>9, <1>10 DEF Core

\* News of an order that is not to be placed joins the bus.
LEMMA CoreJoin ==
  ASSUME NEW b, NEW l, NEW used, Core(b, l, used), NEW e \in Message,
         e.id \in used, Unplaced(e.id, b), e.kind \notin {"add", "move"},
         EndsOrder(e) => l[e.id] = 0
  PROVE  /\ Core(Append(b, e), l, used)
         /\ \A i \in Ids : ~Unplaced(i, Append(b, e)) => ~Unplaced(i, b)
  <1> DEFINE c == Append(b, e)
  <1>1. /\ c \in Seq(Message) /\ Len(b) \in Nat
        /\ DOMAIN b = 1..Len(b) /\ DOMAIN c = 1..(Len(b) + 1)
        /\ \A k \in 1..Len(b) : c[k] = b[k]
        /\ c[Len(b) + 1] = e
    BY AppendBus DEF Core
  <1>2. \A k \in DOMAIN c : (k \in DOMAIN b /\ c[k] = b[k]) \/ c[k] = e
    BY <1>1
  <1>3. \A i : ~Places(e, i)
    BY DEF Places
  <1>4. \A i : ~Unplaced(i, c) => ~Unplaced(i, b)
    BY <1>2, <1>3 DEF Unplaced
  <1>5. AboutUsed(c, used)
    BY <1>2 DEF AboutUsed, Core
  <1>6. PlacedOnce(c, l)
    <2> SUFFICES ASSUME NEW i \in Ids, NEW k \in DOMAIN c, Places(c[k], i)
                 PROVE  /\ l[i] = 0
                        /\ \A n \in DOMAIN c : n # k =>
                              /\ ~Places(c[n], i)
                              /\ c[n].id = i => c[n].kind \in {"del", "move"} /\ n > k
      BY DEF PlacedOnce
    <2>1. k \in DOMAIN b /\ c[k] = b[k]
      BY <1>2, <1>3
    <2>2. e.id # i
      BY <2>1 DEF Unplaced
    <2>q. QED BY <1>2, <1>3, <2>1, <2>2 DEF PlacedOnce, Core
  <1>7. EndsTrue(c, l)
    <2> SUFFICES ASSUME NEW k \in DOMAIN c, EndsOrder(c[k])
                 PROVE  l[c[k].id] = 0 /\ Unplaced(c[k].id, c)
      BY DEF EndsTrue
    <2>q. QED BY <1>2, <1>4 DEF EndsTrue, Core
  <1>q. QED BY <1>1, <1>4, <1>5, <1>6, <1>7 DEF Core

\* What rests of an order that is not to be placed changes.
LEMMA CoreTrade ==
  ASSUME NEW b, NEW l, NEW used, Core(b, l, used), NEW i \in used, NEW v \in 0..MaxVolume,
         Unplaced(i, b), v = 0 \/ \A k \in DOMAIN b : b[k].id = i => ~EndsOrder(b[k])
  PROVE  Core(b, [l EXCEPT ![i] = v], used)
  <1> DEFINE n == [l EXCEPT ![i] = v]
  <1>1. /\ n \in [Ids -> 0..MaxVolume] /\ i \in Ids /\ n[i] = v
        /\ \A j \in Ids : j # i => n[j] = l[j]
    BY DEF Core
  <1>2. PlacedOnce(b, n)
    <2> SUFFICES ASSUME NEW j \in Ids, NEW k \in DOMAIN b, Places(b[k], j)
                 PROVE  n[j] = 0
      BY DEF PlacedOnce, Core
    <2>1. j # i
      BY DEF Unplaced
    <2>q. QED BY <1>1, <2>1 DEF PlacedOnce, Core
  <1>3. EndsTrue(b, n)
    <2> SUFFICES ASSUME NEW k \in DOMAIN b, EndsOrder(b[k]) PROVE n[b[k].id] = 0
      BY DEF EndsTrue, Core
    <2>1. b[k].id \in Ids /\ l[b[k].id] = 0
      BY DEF EndsTrue, AboutUsed, Core
    <2>q. QED BY <1>1, <2>1
  <1>4. \A j \in Ids \ used : n[j] = 0
    BY <1>1 DEF Core
  <1>q. QED BY <1>1, <1>2, <1>3, <1>4 DEF Core

\* An unknown id is asked for.
LEMMA CorePlace ==
  ASSUME NEW b, NEW l, NEW used, Core(b, l, used), NEW e \in Message, NEW i \in Ids \ used,
         \/ e.kind = "add" /\ e.id = i
         \/ e.kind = "move" /\ e.to = i /\ e.id \in used
  PROVE  /\ Core(Append(b, e), l, used \cup {i})
         /\ \A j \in Ids \ {i} : ~Unplaced(j, Append(b, e)) => ~Unplaced(j, b)
  <1> DEFINE c == Append(b, e)
  <1>1. /\ c \in Seq(Message) /\ Len(b) \in Nat
        /\ DOMAIN b = 1..Len(b) /\ DOMAIN c = 1..(Len(b) + 1)
        /\ \A k \in 1..Len(b) : c[k] = b[k]
        /\ c[Len(b) + 1] = e
    BY AppendBus DEF Core
  <1>2. \A k \in DOMAIN c : (k \in DOMAIN b /\ c[k] = b[k]) \/ (k = Len(b) + 1 /\ c[k] = e)
    BY <1>1
  <1>3. \A j : Places(e, j) <=> j = i
    BY DEF Places
  <1>4. Unplaced(i, b) /\ \A k \in DOMAIN b : b[k].id # i
    BY DEF Unplaced, Places, AboutUsed, Core
  <1>5. \A j \in Ids \ {i} : ~Unplaced(j, c) => ~Unplaced(j, b)
    BY <1>2, <1>3 DEF Unplaced
  <1>6. AboutUsed(c, used \cup {i})
    <2> SUFFICES ASSUME NEW k \in DOMAIN c
                 PROVE  /\ c[k].id \in used \cup {i}
                        /\ c[k].kind = "move" => c[k].to \in used \cup {i} /\ c[k].id # c[k].to
      BY DEF AboutUsed
    <2>1. CASE k \in DOMAIN b /\ c[k] = b[k]
      BY <2>1 DEF AboutUsed, Core
    <2>2. CASE c[k] = e
      BY <2>2
    <2>q. QED BY <1>2, <2>1, <2>2
  <1>7. PlacedOnce(c, l)
    <2> SUFFICES ASSUME NEW j \in Ids, NEW k \in DOMAIN c, Places(c[k], j)
                 PROVE  /\ l[j] = 0
                        /\ \A n \in DOMAIN c : n # k =>
                              /\ ~Places(c[n], j)
                              /\ c[n].id = j => c[n].kind \in {"del", "move"} /\ n > k
      BY DEF PlacedOnce
    <2>1. CASE j = i
      <3>1. k = Len(b) + 1
        BY <1>2, <1>4, <2>1 DEF Unplaced
      <3>2. \A n \in DOMAIN c : n # k => n \in DOMAIN b /\ c[n] = b[n]
        BY <1>2, <3>1
      <3>q. QED BY <1>4, <2>1, <3>2 DEF Unplaced, Core
    <2>2. CASE j # i
      <3>1. k \in DOMAIN b /\ c[k] = b[k]
        BY <1>2, <1>3, <2>2
      <3>2. ~Places(e, j) /\ Len(b) + 1 > k
        BY <1>1, <1>3, <2>2, <3>1
      <3>3. e.id = j => e.kind = "move"
        BY <2>2
      <3>q. QED BY <1>2, <3>1, <3>2, <3>3 DEF PlacedOnce, Core
    <2>q. QED BY <2>1, <2>2
  <1>8. EndsTrue(c, l)
    <2> SUFFICES ASSUME NEW k \in DOMAIN c, EndsOrder(c[k])
                 PROVE  l[c[k].id] = 0 /\ Unplaced(c[k].id, c)
      BY DEF EndsTrue
    <2>1. k \in DOMAIN b /\ c[k] = b[k]
      BY <1>2 DEF EndsOrder
    <2>2. c[k].id \in Ids \ {i}
      BY <1>1, <1>4, <2>1, MessageFields DEF Core
    <2>q. QED BY <1>5, <2>1, <2>2 DEF EndsTrue, Core
  <1>q. QED BY <1>1, <1>5, <1>6, <1>7, <1>8 DEF Core

\* A deletion is asked for.
LEMMA CoreAsk ==
  ASSUME NEW b, NEW l, NEW used, Core(b, l, used), NEW e \in Message,
         e.id \in used, e.kind = "del"
  PROVE  /\ Core(Append(b, e), l, used)
         /\ \A i \in Ids : ~Unplaced(i, Append(b, e)) => ~Unplaced(i, b)
  <1> DEFINE c == Append(b, e)
  <1>1. /\ c \in Seq(Message) /\ Len(b) \in Nat
        /\ DOMAIN b = 1..Len(b) /\ DOMAIN c = 1..(Len(b) + 1)
        /\ \A k \in 1..Len(b) : c[k] = b[k]
        /\ c[Len(b) + 1] = e
    BY AppendBus DEF Core
  <1>2. \A k \in DOMAIN c : (k \in DOMAIN b /\ c[k] = b[k]) \/ (k = Len(b) + 1 /\ c[k] = e)
    BY <1>1
  <1>3. \A i : ~Places(e, i)
    BY DEF Places
  <1>4. \A i : ~Unplaced(i, c) => ~Unplaced(i, b)
    BY <1>2, <1>3 DEF Unplaced
  <1>5. AboutUsed(c, used)
    BY <1>2 DEF AboutUsed, Core
  <1>6. PlacedOnce(c, l)
    <2> SUFFICES ASSUME NEW i \in Ids, NEW k \in DOMAIN c, Places(c[k], i)
                 PROVE  /\ l[i] = 0
                        /\ \A n \in DOMAIN c : n # k =>
                              /\ ~Places(c[n], i)
                              /\ c[n].id = i => c[n].kind \in {"del", "move"} /\ n > k
      BY DEF PlacedOnce
    <2>1. k \in DOMAIN b /\ c[k] = b[k] /\ Len(b) + 1 > k
      BY <1>1, <1>2, <1>3
    <2>q. QED BY <1>2, <1>3, <2>1 DEF PlacedOnce, Core
  <1>7. EndsTrue(c, l)
    BY <1>2, <1>4 DEF EndsTrue, EndsOrder, Core
  <1>q. QED BY <1>1, <1>4, <1>5, <1>6, <1>7 DEF Core

-----------------------------------------------------------------------------
(* Steps of the exchange *)

LEMMA ExchangeKeeps ==
  ASSUME IInv, Kept, Core(bus', live', Used),
         \A i \in Ids : Coming(i, bus', live') => Coming(i, bus, live)
  PROVE  IInv'
  <1>1. Used' = Used /\ Attached' = Attached
    BY DEF Kept, Used, Attached
  <1>2. TypeOK'
    BY DEF IInv, TypeOK, Kept, Core
  <1>3. Noted' /\ OnlyUsed'
    BY <1>1 DEF IInv, Noted, OnlyUsed, Kept
  <1>4. SeesOwnOrders' /\ MovedOrdersLost'
    BY <1>1 DEF IInv, SeesOwnOrders, MovedOrdersLost, Hidden, Kept
  <1>5. Cancellable'
    BY <1>1 DEF IInv, Cancellable, Kept
  <1>q. QED BY <1>1, <1>2, <1>3, <1>4, <1>5 DEF IInv

\* What a placement leaves at the exchange and says of it
LEMMA PlacementSays ==
  ASSUME NEW i \in Ids, NEW v \in 0..MaxVolume, NEW a \in Placements(i, v)
  PROVE  /\ a.rest \in 0..MaxVolume
         /\ \/ a.rest = 0 /\ a.events = <<Event("add_error", i, 0)>>
            \/ a.events = <<Event("accepted", i, v)>>
            \/ \E t \in 0..MaxVolume :
                  a.events = <<Event("accepted", i, v), Event("filled", i, t)>>
  <1>1. CASE a = [rest |-> 0, events |-> <<Event("add_error", i, 0)>>]
    <2>1. a.rest = 0 /\ a.events = <<Event("add_error", i, 0)>>
      BY <1>1
    <2>2. 0 \in 0..MaxVolume
      BY VolumeAssumption
    <2>3. a.rest \in 0..MaxVolume
      BY <2>1, <2>2, Zenon
    <2>q. QED BY <2>1, <2>3
  <1>2. CASE a # [rest |-> 0, events |-> <<Event("add_error", i, 0)>>]
    <2>1. PICK t \in 0..v :
            a = [rest |-> v - t,
                 events |-> IF t = 0 THEN <<Event("accepted", i, v)>>
                            ELSE <<Event("accepted", i, v), Event("filled", i, t)>>]
      BY <1>2 DEF Placements
    <2>2. t \in 0..MaxVolume /\ v - t \in 0..MaxVolume
      BY VolumeAssumption
    <2>3. a.rest \in 0..MaxVolume
      BY <2>1, <2>2
    <2>4. \/ a.events = <<Event("accepted", i, v)>>
          \/ a.events = <<Event("accepted", i, v), Event("filled", i, t)>>
      BY <2>1
    <2>q. QED BY <2>2, <2>3, <2>4
  <1>q. QED BY <1>1, <1>2

\* An order that is no more to be placed takes its place at the exchange.
LEMMA CorePlaced ==
  ASSUME NEW b, NEW l, NEW used, Core(b, l, used), NEW i \in used,
         Unplaced(i, b), \A k \in DOMAIN b : b[k].id = i => ~EndsOrder(b[k]),
         NEW v \in 0..MaxVolume, NEW a \in Placements(i, v)
  PROVE  /\ Core(b \o a.events, [l EXCEPT ![i] = a.rest], used)
         /\ \A j \in Ids : ~Unplaced(j, b \o a.events) => ~Unplaced(j, b)
  <1> DEFINE n == [l EXCEPT ![i] = a.rest]
  <1>1. i \in Ids /\ a.rest \in 0..MaxVolume /\ l \in [Ids -> 0..MaxVolume] /\ n[i] = a.rest
    BY PlacementSays DEF Core
  <1>2. Core(b, n, used)
    BY <1>1, CoreTrade
  <1>3. b \in Seq(Message) /\ 0 \in 0..MaxVolume
    BY VolumeAssumption DEF Core
  <1>4. CASE a.rest = 0 /\ a.events = <<Event("add_error", i, 0)>>
    <2>1. /\ Event("add_error", i, 0) \in Message
          /\ Event("add_error", i, 0).id = i /\ Event("add_error", i, 0).kind = "add_error"
      BY <1>1, <1>3, MessageMade
    <2>2. b \o a.events = Append(b, Event("add_error", i, 0))
      BY <1>3, <1>4, <2>1, Concats
    <2>3. n[Event("add_error", i, 0).id] = 0
      BY <1>1, <1>4, <2>1
    <2>4. /\ Core(Append(b, Event("add_error", i, 0)), n, used)
          /\ \A j \in Ids : ~Unplaced(j, Append(b, Event("add_error", i, 0))) => ~Unplaced(j, b)
      <3> HIDE DEF n
      <3>q. QED BY <1>2, <2>1, <2>3, CoreJoin
    <2>q. QED BY <2>2, <2>4
  <1>5. /\ Event("accepted", i, v) \in Message
        /\ Event("accepted", i, v).id = i /\ Event("accepted", i, v).kind = "accepted"
    BY <1>1, MessageMade
  <1> DEFINE c == Append(b, Event("accepted", i, v))
  <1>6. /\ Core(c, n, used)
        /\ \A j \in Ids : ~Unplaced(j, c) => ~Unplaced(j, b)
    BY <1>2, <1>5, CoreJoin DEF EndsOrder
  <1>7. CASE a.events = <<Event("accepted", i, v)>>
    <2>1. b \o a.events = c
      BY <1>3, <1>5, <1>7, Concats
    <2>q. QED BY <1>6, <2>1
  <1>8. CASE \E t \in 0..MaxVolume :
               a.events = <<Event("accepted", i, v), Event("filled", i, t)>>
    <2>1. PICK t \in 0..MaxVolume :
               a.events = <<Event("accepted", i, v), Event("filled", i, t)>>
      BY <1>8
    <2>2. /\ Event("filled", i, t) \in Message
          /\ Event("filled", i, t).id = i /\ Event("filled", i, t).kind = "filled"
      BY <1>1, MessageMade
    <2>3. b \o a.events = Append(c, Event("filled", i, t))
      BY <1>3, <1>5, <2>1, <2>2, Concats
    <2>4. Unplaced(i, c)
      BY <1>1, <1>6
    <2>q. QED BY <1>6, <2>2, <2>3, <2>4, CoreJoin DEF EndsOrder
  <1>q. QED BY <1>4, <1>7, <1>8, <1>1, PlacementSays

LEMMA AddArrivesKeeps == IInv /\ AddArrives => IInv'
  <1> SUFFICES ASSUME IInv, AddArrives PROVE IInv'
    OBVIOUS
  <1> DEFINE q == Head(bus)
             i == q.id
             t == Tail(bus)
  <1>1. Core(bus, live, Used) /\ bus # <<>> /\ q.kind = "add" /\ Kept
    BY DEF IInv, AddArrives, Head1
  <1>2. PICK a \in Placements(i, q.volume) :
          live' = [live EXCEPT ![i] = a.rest] /\ bus' = t \o a.events
    BY DEF AddArrives
  <1>3. q = bus[1] /\ q \in Message /\ 1 \in DOMAIN bus
    BY <1>1, TailBus DEF Core
  <1>4. i \in Used /\ i \in Ids /\ q.volume \in 0..MaxVolume /\ Places(q, i)
    BY <1>1, <1>3, MessageFields DEF AboutUsed, Core, Places
  <1>5. /\ Core(t, live, Used) /\ Unplaced(i, t)
        /\ \A j \in Ids : ~Unplaced(j, t) => ~Unplaced(j, bus)
        /\ \A k \in DOMAIN t : t[k].id = i => ~EndsOrder(t[k])
    BY <1>1, <1>3, <1>4, CoreDrop
  <1>6. /\ Core(bus', live', Used)
        /\ \A j \in Ids : ~Unplaced(j, bus') => ~Unplaced(j, t)
    BY <1>2, <1>4, <1>5, CorePlaced
  <1>7. \A j \in Ids : Coming(j, bus', live') => Coming(j, bus, live)
    <2> SUFFICES ASSUME NEW j \in Ids, Coming(j, bus', live') PROVE Coming(j, bus, live)
      OBVIOUS
    <2>1. ~Unplaced(i, bus)
      BY <1>3, <1>4 DEF Unplaced
    <2>2. j # i => live'[j] = live[j]
      BY <1>2 DEF IInv, TypeOK
    <2>q. QED BY <1>5, <1>6, <2>1, <2>2 DEF Coming
  <1>q. QED BY <1>1, <1>6, <1>7, ExchangeKeeps

LEMMA DelArrivesKeeps == IInv /\ DelArrives => IInv'
  <1> SUFFICES ASSUME IInv, DelArrives PROVE IInv'
    OBVIOUS
  <1> DEFINE q == Head(bus)
             i == q.id
             t == Tail(bus)
             e == Event(IF live[i] > 0 THEN "cancelled" ELSE "del_error", i, 0)
  <1>1. /\ Core(bus, live, Used) /\ bus # <<>> /\ q.kind = "del" /\ Kept
        /\ live' = [live EXCEPT ![i] = 0] /\ bus' = Append(t, e)
    BY DEF IInv, DelArrives, Head1
  <1>2. q = bus[1] /\ q \in Message /\ 1 \in DOMAIN bus
    BY <1>1, TailBus DEF Core
  <1>3. i \in Used /\ i \in Ids /\ 0 \in 0..MaxVolume
    BY <1>1, <1>2, MessageFields, VolumeAssumption DEF AboutUsed, Core
  <1>4. /\ Core(t, live, Used) /\ Unplaced(i, t)
        /\ \A j \in Ids : ~Unplaced(j, t) => ~Unplaced(j, bus)
    BY <1>1, <1>2, CoreDrop
  <1>5. Core(t, live', Used) /\ live'[i] = 0
    BY <1>1, <1>3, <1>4, CoreTrade DEF Core
  <1>6. e \in Message /\ e.id = i /\ e.kind \in {"cancelled", "del_error"}
    BY <1>3, MessageMade
  <1>7. /\ Core(bus', live', Used)
        /\ \A j \in Ids : ~Unplaced(j, bus') => ~Unplaced(j, t)
    BY <1>1, <1>3, <1>4, <1>5, <1>6, CoreJoin
  <1>8. \A j \in Ids : live'[j] > 0 => live[j] > 0
    BY <1>1 DEF IInv, TypeOK
  <1>q. QED BY <1>1, <1>4, <1>7, <1>8, ExchangeKeeps DEF Coming

LEMMA DealKeeps == IInv /\ Deal => IInv'
  <1> SUFFICES ASSUME IInv, Deal PROVE IInv'
    OBVIOUS
  <1>0. PICK i \in Ids : \E v \in 1..live[i] :
          /\ live' = [live EXCEPT ![i] = @ - v]
          /\ bus' = Append(bus, Event("filled", i, v))
    BY DEF Deal, Event
  <1>1. PICK v \in 1..live[i] :
          /\ live' = [live EXCEPT ![i] = @ - v]
          /\ bus' = Append(bus, Event("filled", i, v))
    BY <1>0
  <1>2. /\ Kept /\ Core(bus, live, Used)
        /\ live[i] \in 0..MaxVolume /\ live[i] > 0 /\ v \in 0..MaxVolume
        /\ live[i] - v \in 0..MaxVolume
    BY VolumeAssumption DEF IInv, TypeOK, Deal
  <1>3. i \in Used /\ Unplaced(i, bus)
    BY <1>2 DEF Core, PlacedOnce, Unplaced
  <1>4. \A k \in DOMAIN bus : bus[k].id = i => ~EndsOrder(bus[k])
    BY <1>2 DEF Core, EndsTrue
  <1>5. Core(bus, live', Used)
    BY <1>1, <1>2, <1>3, <1>4, CoreTrade
  <1>6. /\ Core(bus', live', Used)
        /\ \A j \in Ids : ~Unplaced(j, bus') => ~Unplaced(j, bus)
    <2>1. /\ Event("filled", i, v) \in Message
          /\ Event("filled", i, v).id = i /\ Event("filled", i, v).kind = "filled"
      BY <1>2, MessageMade
    <2>q. QED BY <1>1, <1>3, <1>5, <2>1, CoreJoin DEF EndsOrder
  <1>7. \A j \in Ids : live'[j] > 0 => live[j] > 0
    BY <1>1, <1>2 DEF IInv, TypeOK
  <1>q. QED BY <1>2, <1>6, <1>7, ExchangeKeeps DEF Coming

LEMMA MoveArrivesKeeps == IInv /\ MoveArrives => IInv'
  <1> SUFFICES ASSUME IInv, MoveArrives PROVE IInv'
    OBVIOUS
  <1> DEFINE q == Head(bus)
             i == q.id
             j == q.to
             t == Tail(bus)
             gone == Event("cancelled", i, 0)
             Old == [live EXCEPT ![i] = 0]
  <1>1. Core(bus, live, Used) /\ bus # <<>> /\ q.kind = "move" /\ Kept
    BY DEF IInv, MoveArrives, Head1
  <1>2. q = bus[1] /\ q \in Message /\ 1 \in DOMAIN bus
    BY <1>1, TailBus DEF Core
  <1>3. /\ i \in Used /\ i \in Ids /\ j \in Used /\ j \in Ids /\ i # j
        /\ 0 \in 0..MaxVolume /\ Places(q, j)
    BY <1>1, <1>2, MessageFields, VolumeAssumption DEF AboutUsed, Core, Places
  <1>4. /\ Core(t, live, Used) /\ Unplaced(i, t) /\ Unplaced(j, t)
        /\ \A k \in Ids : ~Unplaced(k, t) => ~Unplaced(k, bus)
        /\ \A k \in DOMAIN t : t[k].id = j => ~EndsOrder(t[k])
    BY <1>1, <1>2, <1>3, CoreDrop
  <1>5. CASE live[i] = 0
    <2>1. bus' = t /\ live' = live
      BY <1>5 DEF MoveArrives
    <2>q. QED BY <1>1, <1>4, <2>1, ExchangeKeeps DEF Coming
  <1>6. CASE live[i] # 0
    <2>0. PICK v \in 1..MaxVolume : \E a \in Placements(j, v) :
            /\ live' = [live EXCEPT ![i] = 0, ![j] = a.rest]
            /\ bus' = t \o <<gone>> \o a.events
      BY <1>6 DEF MoveArrives
    <2>1. PICK a \in Placements(j, v) :
            /\ live' = [live EXCEPT ![i] = 0, ![j] = a.rest]
            /\ bus' = t \o <<gone>> \o a.events
      BY <2>0
    <2>2. /\ live' = [Old EXCEPT ![j] = a.rest] /\ v \in 0..MaxVolume
          /\ bus' = (t \o <<gone>>) \o a.events
      BY <2>1, VolumeAssumption
    <2>3. Core(t, Old, Used) /\ Old[i] = 0
      BY <1>3, <1>4, CoreTrade DEF Core
    <2>4. gone \in Message /\ gone.id = i /\ gone.kind = "cancelled"
      BY <1>3, MessageMade
    <2>5. t \in Seq(Message) /\ t \o <<gone>> = Append(t, gone)
      BY <1>4, <2>4, Concats DEF Core
    <2> DEFINE c == Append(t, gone)
    <2>6. /\ Core(c, Old, Used)
          /\ \A k \in Ids : ~Unplaced(k, c) => ~Unplaced(k, t)
      BY <1>3, <1>4, <2>3, <2>4, CoreJoin
    <2>7. \A k \in DOMAIN c : c[k].id = j => ~EndsOrder(c[k])
      <3>1. \A k \in DOMAIN c : (k \in DOMAIN t /\ c[k] = t[k]) \/ c[k] = gone
        BY <2>4, <2>5, AppendBus
      <3>q. QED BY <1>3, <1>4, <2>4, <3>1
    <2>8. Unplaced(j, c)
      BY <1>3, <1>4, <2>6
    <2>9. /\ Core(bus', live', Used)
          /\ \A k \in Ids : ~Unplaced(k, bus') => ~Unplaced(k, c)
      BY <1>3, <2>2, <2>5, <2>6, <2>7, <2>8, CorePlaced
    <2>10. \A k \in Ids : Coming(k, bus', live') => Coming(k, bus, live)
      <3> SUFFICES ASSUME NEW k \in Ids, Coming(k, bus', live') PROVE Coming(k, bus, live)
        OBVIOUS
      <3>1. ~Unplaced(j, bus)
        BY <1>2, <1>3 DEF Unplaced
      <3>2. k # j /\ live'[k] > 0 => live[k] > 0
        <4>1. live \in [Ids -> 0..MaxVolume] /\ a.rest \in 0..MaxVolume
          BY <1>3, <2>2, PlacementSays DEF IInv, TypeOK
        <4>2. k # j => live'[k] = Old[k]
          BY <2>2, <4>1
        <4>3. Old[k] > 0 => live[k] > 0
          BY <1>3, <4>1, VolumeAssumption
        <4>q. QED BY <4>2, <4>3
      <3>q. QED BY <1>4, <2>6, <2>9, <3>1, <3>2 DEF Coming
    <2>q. QED BY <1>1, <2>9, <2>10, ExchangeKeeps
  <1>q. QED BY <1>5, <1>6

-----------------------------------------------------------------------------
(* Steps of the markets *)

LEMMA RootAttached == ASSUME TypeOK PROVE Root \in Attached
  BY RootPath DEF TypeOK, Attached

\* No market was told anything of an order that was not asked for.
LEMMA NothingSeen ==
  ASSUME TypeOK, OnlyUsed, SeesOwnOrders, NEW m \in Attached, NEW i \in Ids \ Used
  PROVE  seen[m][i] = Unseen
  BY DEF SeesOwnOrders, OnlyUsed, Hidden, Used

LEMMA AddOrderKeeps ==
  ASSUME IInv, NEW m \in Markets, NEW i \in Ids, NEW v \in 1..MaxVolume, AddOrder(m, i, v)
  PROVE  IInv'
  <1> DEFINE e == [kind |-> "add", id |-> i, volume |-> v]
  <1>1. /\ TypeOK /\ Noted /\ OnlyUsed /\ SeesOwnOrders /\ MovedOrdersLost
        /\ Core(bus, live, Used) /\ Cancellable
    BY DEF IInv
  <1>2. /\ m \in Attached /\ i \in Ids \ Used /\ i \notin moved
        /\ pendings' = [n \in Markets |-> IF n \in Path[m] THEN pendings[n] \cup {i}
                                          ELSE pendings[n]]
        /\ bus' = Append(bus, e) /\ origin' = [origin EXCEPT ![i] = m]
        /\ alive' = alive /\ seen' = seen /\ live' = live /\ moved' = moved
    BY <1>1 DEF AddOrder, Announced, Used, OnlyUsed
  <1>3. \A n \in Nested : orderIds'[n] = IF n \in Path[m] THEN orderIds[n] \cup {i}
                                         ELSE orderIds[n]
    <2>1. CASE m = Root
      BY <2>1, RootPath, ParentAssumption DEF AddOrder
    <2>2. CASE m # Root
      BY <2>2 DEF AddOrder, Known
    <2>q. QED BY <2>1, <2>2
  <1>4. orderIds' \in [Nested -> SUBSET Ids]
    BY <1>1 DEF AddOrder, Known, TypeOK
  <1>5. /\ Attached' = Attached /\ Used' = Used \cup {i}
        /\ origin' \in [Ids -> Markets \cup {"none"}] /\ origin'[i] = m /\ m # "none"
        /\ \A j \in Ids \ {i} : origin'[j] = origin[j]
    BY <1>1, <1>2, ParentAssumption DEF Attached, Used, TypeOK
  <1>6. e \in Message /\ e.kind = "add" /\ e.id = i
    <2>1. v \in 0..MaxVolume
      BY VolumeAssumption
    <2>q. QED BY <2>1, MessageMade
  <1>7. /\ Core(bus', live', Used')
        /\ \A j \in Ids \ {i} : ~Unplaced(j, bus') => ~Unplaced(j, bus)
    BY <1>1, <1>2, <1>5, <1>6, CorePlace
  <1>8. TypeOK'
    BY <1>1, <1>2, <1>4, <1>5, <1>7 DEF TypeOK, Core
  <1>9. Noted'
    <2> SUFFICES ASSUME NEW k \in Ids, NEW n \in Nested
                 PROVE  k \in orderIds'[n] <=>
                          k \in Used' /\ (IF k \in moved THEN n = origin'[k]
                                          ELSE n \in Path[origin'[k]])
      BY <1>2 DEF Noted
    <2>1. CASE k = i
      <3>1. i \notin orderIds[n] /\ k \in Used' /\ k \notin moved
        BY <1>1, <1>2, <1>5, <2>1 DEF Noted
      <3>2. i \in orderIds'[n] <=> n \in Path[m]
        BY <1>3, <3>1
      <3>q. QED BY <1>5, <2>1, <3>1, <3>2
    <2>2. CASE k # i
      <3>1. (k \in orderIds'[n] <=> k \in orderIds[n]) /\ (k \in Used' <=> k \in Used)
        BY <1>3, <1>5, <2>2
      <3>2. origin'[k] = origin[k]
        BY <1>5, <2>2
      <3>q. QED BY <1>1, <3>1, <3>2 DEF Noted
    <2>q. QED BY <2>1, <2>2
  <1>10. OnlyUsed'
    BY <1>1, <1>2, <1>5 DEF OnlyUsed
  <1>11. SeesOwnOrders'
    <2> SUFFICES ASSUME NEW n \in Attached, NEW j \in Ids, ~Hidden(n, j)'
                 PROVE  seen[n][j] = IF origin'[j] # "none" /\ n \in Path[origin'[j]]
                                     THEN seen[Root][j] ELSE Unseen
      BY <1>2, <1>5 DEF SeesOwnOrders
    <2>1. CASE j = i
      BY <1>1, <1>2, <2>1, NothingSeen, RootAttached
    <2>2. CASE j # i
      BY <1>1, <1>2, <1>5, <2>2 DEF SeesOwnOrders, Hidden
    <2>q. QED BY <2>1, <2>2
  <1>12. MovedOrdersLost'
    <2> SUFFICES ASSUME NEW j \in moved, NEW n \in Attached, Hidden(n, j)'
                 PROVE  seen[n][j] = Unseen /\ (n = origin'[j] <=> j \in pendings'[n])
      BY <1>2, <1>5 DEF MovedOrdersLost
    <2>1. j # i /\ j \in Ids /\ n \in Markets /\ Hidden(n, j)
      BY <1>1, <1>2, <1>5 DEF TypeOK, Attached, Hidden
    <2>q. QED BY <1>1, <1>2, <1>5, <2>1 DEF MovedOrdersLost
  <1>13. Cancellable'
    <2> SUFFICES ASSUME NEW j \in Ids, origin'[j] \in Attached, Coming(j, bus', live)
                 PROVE  j \in pendings'[origin'[j]] \/ seen[origin'[j]][j].status = "open"
      BY <1>2, <1>5 DEF Cancellable
    <2>1. CASE j = i
      BY <1>2, <1>5, <2>1, PathFacts
    <2>2. CASE j # i
      <3>1. Coming(j, bus, live) /\ origin[j] \in Attached /\ origin[j] \in Markets
        BY <1>1, <1>5, <1>7, <2>2 DEF Coming, TypeOK, Attached
      <3>q. QED BY <1>1, <1>2, <1>5, <2>2, <3>1 DEF Cancellable
    <2>q. QED BY <2>1, <2>2
  <1>q. QED BY <1>7, <1>8, <1>9, <1>10, <1>11, <1>12, <1>13 DEF IInv

LEMMA MoveOrderKeeps ==
  ASSUME IInv, NEW m \in Markets, NEW i \in Ids, NEW j \in Ids, MoveOrder(m, i, j)
  PROVE  IInv'
  <1> DEFINE e == [kind |-> "move", id |-> i, to |-> j]
  <1>1. /\ TypeOK /\ Noted /\ OnlyUsed /\ SeesOwnOrders /\ MovedOrdersLost
        /\ Core(bus, live, Used) /\ Cancellable
    BY DEF IInv
  <1>2. /\ i \in Used /\ j \in Ids \ Used /\ j \notin moved
        /\ pendings' = [n \in Markets |-> IF n \in {m, Root} THEN pendings[n] \cup {j}
                                          ELSE pendings[n]]
        /\ bus' = Append(bus, e) /\ origin' = [origin EXCEPT ![j] = m]
        /\ alive' = alive /\ seen' = seen /\ live' = live /\ moved' = moved \cup {j}
    BY <1>1, ParentAssumption DEF MoveOrder, Announced, Used, OnlyUsed
  <1>3. \A n \in Nested : orderIds'[n] = IF n = m THEN orderIds[n] \cup {j} ELSE orderIds[n]
    BY <1>1, ParentAssumption DEF MoveOrder, TypeOK
  <1>4. orderIds' \in [Nested -> SUBSET Ids]
    BY <1>1 DEF MoveOrder, TypeOK
  <1>5. /\ Attached' = Attached /\ Used' = Used \cup {j}
        /\ origin' \in [Ids -> Markets \cup {"none"}] /\ origin'[j] = m /\ m # "none"
        /\ \A k \in Ids \ {j} : origin'[k] = origin[k]
    BY <1>1, <1>2, ParentAssumption DEF Attached, Used, TypeOK
  <1>6. e \in Message /\ e.kind = "move" /\ e.to = j /\ e.id \in Used
    BY <1>2, MessageMade
  <1>7. /\ Core(bus', live', Used')
        /\ \A k \in Ids \ {j} : ~Unplaced(k, bus') => ~Unplaced(k, bus)
    BY <1>1, <1>2, <1>5, <1>6, CorePlace
  <1>8. TypeOK'
    BY <1>1, <1>2, <1>4, <1>5, <1>7 DEF TypeOK, Core
  <1>9. Noted'
    <2> SUFFICES ASSUME NEW k \in Ids, NEW n \in Nested
                 PROVE  k \in orderIds'[n] <=>
                          k \in Used' /\ (IF k \in moved' THEN n = origin'[k]
                                          ELSE n \in Path[origin'[k]])
      BY DEF Noted
    <2>1. CASE k = j
      <3>1. j \notin orderIds[n] /\ k \in Used' /\ k \in moved'
        BY <1>1, <1>2, <1>5, <2>1 DEF Noted
      <3>2. j \in orderIds'[n] <=> n = m
        BY <1>3, <3>1
      <3>q. QED BY <1>5, <2>1, <3>1, <3>2
    <2>2. CASE k # j
      <3>1. /\ k \in orderIds'[n] <=> k \in orderIds[n]
            /\ k \in Used' <=> k \in Used
            /\ k \in moved' <=> k \in moved
        BY <1>2, <1>3, <1>5, <2>2
      <3>2. origin'[k] = origin[k]
        BY <1>5, <2>2
      <3>q. QED BY <1>1, <3>1, <3>2 DEF Noted
    <2>q. QED BY <2>1, <2>2
  <1>10. OnlyUsed'
    BY <1>1, <1>2, <1>5 DEF OnlyUsed
  <1>11. SeesOwnOrders'
    <2> SUFFICES ASSUME NEW n \in Attached, NEW k \in Ids, ~Hidden(n, k)'
                 PROVE  seen[n][k] = IF origin'[k] # "none" /\ n \in Path[origin'[k]]
                                     THEN seen[Root][k] ELSE Unseen
      BY <1>2, <1>5 DEF SeesOwnOrders
    <2>1. CASE k = j
      BY <1>1, <1>2, <2>1, NothingSeen, RootAttached
    <2>2. CASE k # j
      BY <1>1, <1>2, <1>5, <2>2 DEF SeesOwnOrders, Hidden
    <2>q. QED BY <2>1, <2>2
  <1>12. MovedOrdersLost'
    <2> SUFFICES ASSUME NEW k \in moved', NEW n \in Attached, Hidden(n, k)'
                 PROVE  seen[n][k] = Unseen /\ (n = origin'[k] <=> k \in pendings'[n])
      BY <1>2, <1>5 DEF MovedOrdersLost
    <2>1. n \in Markets /\ n # Root
      BY <1>1 DEF TypeOK, Attached, Hidden
    <2>2. CASE k = j
      <3>1. seen[n][j] = Unseen /\ j \notin pendings[n]
        BY <1>1, <1>2, <2>1, NothingSeen DEF OnlyUsed
      <3>q. QED BY <1>2, <1>5, <2>1, <2>2, <3>1
    <2>3. CASE k # j
      <3>1. k \in moved /\ k \in Ids /\ Hidden(n, k)
        BY <1>1, <1>2, <1>5, <2>3 DEF TypeOK, Hidden
      <3>q. QED BY <1>1, <1>2, <1>5, <2>1, <2>3, <3>1 DEF MovedOrdersLost
    <2>q. QED BY <2>2, <2>3
  <1>13. Cancellable'
    <2> SUFFICES ASSUME NEW k \in Ids, origin'[k] \in Attached, Coming(k, bus', live)
                 PROVE  k \in pendings'[origin'[k]] \/ seen[origin'[k]][k].status = "open"
      BY <1>2, <1>5 DEF Cancellable
    <2>1. CASE k = j
      BY <1>2, <1>5, <2>1
    <2>2. CASE k # j
      <3>1. Coming(k, bus, live) /\ origin[k] \in Attached /\ origin[k] \in Markets
        BY <1>1, <1>5, <1>7, <2>2 DEF Coming, TypeOK, Attached
      <3>q. QED BY <1>1, <1>2, <1>5, <2>2, <3>1 DEF Cancellable
    <2>q. QED BY <2>1, <2>2
  <1>q. QED BY <1>7, <1>8, <1>9, <1>10, <1>11, <1>12, <1>13 DEF IInv

LEMMA DelOrderKeeps ==
  ASSUME IInv, NEW m \in Markets, NEW i \in Ids, DelOrder(m, i)
  PROVE  IInv'
  <1> DEFINE e == [kind |-> "del", id |-> i]
  <1>1. Core(bus, live, Used) /\ i \in Used
    BY ParentAssumption DEF IInv, DelOrder, Used
  <1>2. /\ e \in Message /\ e.id = i /\ e.kind = "del"
        /\ bus' = Append(bus, e) /\ live' = live /\ Kept
    BY MessageMade DEF DelOrder, Kept
  <1>3. /\ Core(bus', live', Used)
        /\ \A j \in Ids : ~Unplaced(j, bus') => ~Unplaced(j, bus)
    BY <1>1, <1>2, CoreAsk
  <1>q. QED BY <1>2, <1>3, ExchangeKeeps DEF Coming

LEMMA DestroyKeeps ==
  ASSUME IInv, NEW m \in Nested, Destroy(m)
  PROVE  IInv'
  <1>1. /\ TypeOK /\ Noted /\ OnlyUsed /\ SeesOwnOrders /\ MovedOrdersLost
        /\ Core(bus, live, Used) /\ Cancellable
    BY DEF IInv
  <1>2. /\ alive' = alive \ {m} /\ m # Root
        /\ UNCHANGED <<orderIds, pendings, seen, bus, live, origin, moved>>
    BY ParentAssumption DEF Destroy
  <1>3. Attached' \subseteq Attached /\ Used' = Used
    BY <1>2 DEF Attached, Used
  <1>4. TypeOK'
    BY <1>1, <1>2 DEF TypeOK
  <1>5. Noted' /\ OnlyUsed' /\ Core(bus', live', Used')
    BY <1>1, <1>2, <1>3 DEF Noted, OnlyUsed
  <1>6. SeesOwnOrders' /\ MovedOrdersLost'
    BY <1>1, <1>2, <1>3 DEF SeesOwnOrders, MovedOrdersLost, Hidden
  <1>7. Cancellable'
    BY <1>1, <1>2, <1>3 DEF Cancellable
  <1>q. QED BY <1>4, <1>5, <1>6, <1>7 DEF IInv

LEMMA EventArrivesKeeps == IInv /\ EventArrives => IInv'
  <1> SUFFICES ASSUME IInv, EventArrives PROVE IInv'
    OBVIOUS
  <1> DEFINE e == Head(bus)
             i == e.id
             At(m) == Reaches(m, i)
  <1>1. /\ TypeOK /\ Noted /\ OnlyUsed /\ SeesOwnOrders /\ MovedOrdersLost
        /\ Core(bus, live, Used) /\ Cancellable
    BY DEF IInv
  <1>2. /\ bus # <<>> /\ e.kind \notin {"add", "del", "move"} /\ bus' = Tail(bus)
        /\ seen' = [m \in Markets |-> IF At(m) THEN [seen[m] EXCEPT ![i] = After(@, e)]
                                      ELSE seen[m]]
        /\ pendings' = [m \in Markets |-> IF At(m) /\ e.kind \in {"accepted", "add_error"}
                                          THEN pendings[m] \ {i} ELSE pendings[m]]
        /\ UNCHANGED <<alive, orderIds, live, origin, moved>>
    BY DEF EventArrives
  <1>3. e = bus[1] /\ e \in Message /\ 1 \in DOMAIN bus
    BY <1>1, <1>2, TailBus DEF Core
  <1>4. /\ i \in Used /\ i \in Ids /\ e.volume \in 0..MaxVolume
        /\ e.kind \in {"accepted", "filled", "cancelled", "add_error", "del_error"}
    BY <1>1, <1>2, <1>3, MessageFields DEF AboutUsed, Core
  <1>5. /\ Core(bus', live', Used')
        /\ \A j \in Ids : Coming(j, bus', live') => Coming(j, bus, live)
    <2>1. Used' = Used
      BY <1>2 DEF Used
    <2>q. QED BY <1>1, <1>2, <2>1, CoreDrop DEF Coming
  <1>6. Attached' = Attached /\ Used' = Used /\ \A m \in Attached : m \in Markets
    BY <1>1, <1>2 DEF Attached, Used, TypeOK
  <1>7. \A m \in Attached : At(m) <=> m \in Path[origin[i]] /\ ~Hidden(m, i)
    BY <1>1, <1>4, ReachesWhom
  <1>8. ASSUME NEW s \in [status : {"none", "open", "gone"}, filled : Nat]
        PROVE  After(s, e) \in [status : {"none", "open", "gone"}, filled : Nat]
    <2>1. s.filled + e.volume \in Nat
      BY <1>4, VolumeAssumption
    <2>q. QED BY <1>4, <2>1 DEF After
  <1>9. \A m \in Markets : /\ \A j \in Ids \ {i} : seen'[m][j] = seen[m][j]
                           /\ seen'[m][i] = IF At(m) THEN After(seen[m][i], e) ELSE seen[m][i]
    BY <1>1, <1>2, <1>4 DEF TypeOK
  <1>10. TypeOK'
    <2>1. seen' \in [Markets -> [Ids -> [status : {"none", "open", "gone"}, filled : Nat]]]
      <3> SUFFICES ASSUME NEW m \in Markets
                   PROVE  (IF At(m) THEN [seen[m] EXCEPT ![i] = After(@, e)] ELSE seen[m])
                             \in [Ids -> [status : {"none", "open", "gone"}, filled : Nat]]
        BY <1>2
      <3>1. seen[m] \in [Ids -> [status : {"none", "open", "gone"}, filled : Nat]]
        BY <1>1 DEF TypeOK
      <3>2. After(seen[m][i], e) \in [status : {"none", "open", "gone"}, filled : Nat]
        BY <1>4, <1>8, <3>1
      <3>q. QED BY <3>1, <3>2
    <2>2. pendings' \in [Markets -> SUBSET Ids]
      BY <1>1, <1>2 DEF TypeOK
    <2>q. QED BY <1>1, <1>2, <1>5, <2>1, <2>2 DEF TypeOK, Core
  <1>11. Noted'
    BY <1>1, <1>2, <1>6 DEF Noted
  <1>12. OnlyUsed'
    BY <1>1, <1>2, <1>6 DEF OnlyUsed
  <1>13. SeesOwnOrders'
    <2>0. \A m \in Attached', j \in Ids : Hidden(m, j)' <=> Hidden(m, j)
      BY <1>2 DEF Hidden
    <2> SUFFICES ASSUME NEW m \in Attached, NEW j \in Ids, ~Hidden(m, j)
                 PROVE  seen'[m][j] = IF origin'[j] # "none" /\ m \in Path[origin'[j]]
                                      THEN seen'[Root][j] ELSE Unseen
      BY <1>6, <2>0 DEF SeesOwnOrders
    <2>1. /\ Root \in Attached /\ Root \in Markets /\ m \in Markets
          /\ seen[m][j] = IF origin[j] # "none" /\ m \in Path[origin[j]]
                          THEN seen[Root][j] ELSE Unseen
      BY <1>1, <1>6, RootAttached DEF SeesOwnOrders
    <2>2. CASE j # i
      BY <1>2, <1>9, <2>1, <2>2
    <2>3. CASE j = i
      <3>1. origin[i] \in Markets /\ origin[i] # "none" /\ ~Hidden(Root, i)
        BY <1>1, <1>4 DEF TypeOK, Used, Hidden
      <3>2. At(Root)
        BY <1>7, <2>1, <3>1, PathFacts
      <3>q. QED BY <1>2, <1>7, <1>9, <2>1, <2>3, <3>1, <3>2
    <2>q. QED BY <2>2, <2>3
  <1>14. MovedOrdersLost'
    <2> SUFFICES ASSUME NEW j \in moved, NEW m \in Attached, Hidden(m, j)
                 PROVE  seen'[m][j] = Unseen /\ (m = origin[j] <=> j \in pendings'[m])
      BY <1>2, <1>6 DEF MovedOrdersLost, Hidden
    <2>1. j \in Ids /\ m \in Markets /\ (j = i => ~At(m))
      BY <1>1, <1>6, <1>7 DEF TypeOK
    <2>2. seen[m][j] = Unseen /\ (m = origin[j] <=> j \in pendings[m])
      BY <1>1 DEF MovedOrdersLost
    <2>q. QED BY <1>2, <1>9, <2>1, <2>2
  <1>15. Cancellable'
    <2> SUFFICES ASSUME NEW j \in Ids, origin[j] \in Attached, Coming(j, bus', live)
                 PROVE  j \in pendings'[origin[j]] \/ seen'[origin[j]][j].status = "open"
      BY <1>2, <1>6 DEF Cancellable
    <2> DEFINE o == origin[j]
    <2>1. /\ Coming(j, bus, live) /\ o \in Markets
          /\ j \in pendings[o] \/ seen[o][j].status = "open"
      BY <1>1, <1>2, <1>5, <1>6 DEF Cancellable
    <2>2. CASE j # i
      BY <1>2, <1>9, <2>1, <2>2
    <2>3. CASE j = i
      <3>1. ~EndsOrder(e)
        BY <1>1, <1>3, <2>1, <2>3 DEF Core, EndsTrue, Coming
      <3>2. seen[o][j] \in [status : {"none", "open", "gone"}, filled : Nat]
        BY <1>1, <2>1 DEF TypeOK
      <3>3. CASE e.kind = "accepted"
        <4>1. After(seen[o][j], e).status = "open"
          BY <3>2, <3>3 DEF After
        <4>q. QED BY <1>2, <1>9, <2>1, <2>3, <4>1
      <3>4. CASE e.kind \in {"filled", "del_error"}
        <4>1. After(seen[o][j], e).status = seen[o][j].status
          BY <3>2, <3>4 DEF After
        <4>q. QED BY <1>2, <1>9, <2>1, <2>3, <3>4, <4>1
      <3>q. QED BY <1>4, <3>1, <3>3, <3>4 DEF EndsOrder
    <2>q. QED BY <2>2, <2>3
  <1>q. QED BY <1>5, <1>10, <1>11, <1>12, <1>13, <1>14, <1>15 DEF IInv

-----------------------------------------------------------------------------
(* The theorems *)

LEMMA Initially == Init => IInv
  <1> SUFFICES ASSUME Init PROVE IInv
    OBVIOUS
  <1>1. Used = {} /\ moved = {} /\ bus = <<>> /\ \A i \in Ids : live[i] = 0
    BY DEF Init, Used
  <1>2. TypeOK
    BY VolumeAssumption DEF Init, TypeOK, Unseen, Markets
  <1>3. Noted /\ OnlyUsed
    BY <1>1 DEF Init, Noted, OnlyUsed
  <1>4. SeesOwnOrders /\ MovedOrdersLost
    <2>1. \A m \in Attached : m \in Markets
      BY DEF Init, Attached
    <2>q. QED BY <1>1, <2>1 DEF Init, SeesOwnOrders, MovedOrdersLost
  <1>5. Core(bus, live, Used)
    <2>1. DOMAIN bus = {}
      BY <1>1
    <2>q. QED BY <1>1, <1>2, <2>1 DEF Core, AboutUsed, PlacedOnce, EndsTrue, TypeOK
  <1>6. Cancellable
    BY <1>1 DEF Cancellable, Coming, Unplaced
  <1>q. QED BY <1>2, <1>3, <1>4, <1>5, <1>6 DEF IInv

LEMMA Stepwise == IInv /\ [Next]_vars => IInv'
  <1> SUFFICES ASSUME IInv, [Next]_vars PROVE IInv'
    OBVIOUS
  <1>1. CASE UNCHANGED vars
    <2>1. Kept /\ bus' = bus /\ live' = live
      BY <1>1 DEF vars, Kept
    <2>q. QED BY <2>1, ExchangeKeeps DEF IInv
  <1>2. ASSUME NEW m \in Markets, NEW i \in Ids, NEW v \in 1..MaxVolume, AddOrder(m, i, v)
        PROVE  IInv'
    BY <1>2, AddOrderKeeps
  <1>3. ASSUME NEW m \in Markets, NEW i \in Ids, DelOrder(m, i) PROVE IInv'
    BY <1>3, DelOrderKeeps
  <1>4. ASSUME NEW m \in Markets, NEW i \in Ids, NEW j \in Ids, MoveOrder(m, i, j)
        PROVE  IInv'
    BY <1>4, MoveOrderKeeps
  <1>5. ASSUME NEW m \in Nested, Destroy(m) PROVE IInv'
    BY <1>5, DestroyKeeps
  <1>6. CASE AddArrives \/ DelArrives \/ MoveArrives \/ Deal \/ EventArrives
    BY <1>6, AddArrivesKeeps, DelArrivesKeeps, MoveArrivesKeeps, DealKeeps, EventArrivesKeeps
  <1>q. QED BY <1>1, <1>2, <1>3, <1>4, <1>5, <1>6 DEF Next

\* In every reachable state the markets on the way noted each order, and what is on the
\* bus is in order.
THEOREM InvariantCorrect == Spec => []IInv
  BY Initially, Stepwise, PTL DEF Spec

\* In any tree, a market that has all it hangs on is told exactly what the root is told
\* about orders placed through it or below it, and nothing of others (the filters of
\* AsyncMarket), except of orders that a move hides.
THEOREM TreeCorrect == Spec => []TreeInv
  <1>1. IInv => TreeInv
    BY DEF IInv, TreeInv
  <1>q. QED BY <1>1, InvariantCorrect, PTL

\* In any tree, an order that rests at the exchange is pending or open for the market it
\* was placed or moved through: its closing strategy reaches it.
THEOREM CancellableCorrect == Spec => []CancellableByOrigin
  <1>1. IInv => CancellableByOrigin
    BY DEF IInv, Cancellable, CancellableByOrigin, Coming
  <1>q. QED BY <1>1, InvariantCorrect, PTL
=============================================================================
