--------------------------- MODULE Closing_proofs ---------------------------
(****************************************************************************)
(* Proofs about Closing, for any orders, volumes, tries and cuts.  IInv     *)
(* follows every order from the request that places it to the news of its   *)
(* end, and says of each phase of a session which orders can trade no more; *)
(* that a closing strategy ends with nothing held follows from it.          *)
(****************************************************************************)
EXTENDS Closing, TLAPS, FiniteSetTheorems

-----------------------------------------------------------------------------
(* What is said of messages b on the bus, of what l rests at the exchange,   *)
(* and of the orders p and o that are pending and open                       *)

Orders == {"add", "market"}
Places(m, i) == (m.kind \in Orders /\ m.id = i) \/ (m.kind = "move" /\ m.to = i)
Trades(m) == m.kind \in {"fill", "filled"}
EndsOrder(m) == m.kind \in {"filled", "cancelled", "del_error", "add_error"}

Unplaced(i, b) == \A k \in DOMAIN b : ~Places(b[k], i)
Unheard(i, b) == \A k \in DOMAIN b : b[k].id = i => b[k].kind # "accepted" /\ ~Trades(b[k])

\* A move is to another id.
Moves(b) == \A k \in DOMAIN b : b[k].kind = "move" => b[k].id # b[k].to

\* An order that is still to be placed does not rest, is pending, and all that is
\* said of it besides is that it be cancelled afterwards.
PlacedOnce(b, l, p, o) ==
    \A i \in Ids : \A k \in DOMAIN b : Places(b[k], i) =>
        /\ l[i] = 0 /\ i \in p /\ i \notin o
        /\ \A n \in DOMAIN b : n # k =>
              ~Places(b[n], i) /\ (b[n].id = i => b[n].kind = "del" /\ n > k)

\* The news that an order has ended is true, and the last that is heard of it.
EndsLast(b, l) ==
    \A k \in DOMAIN b : EndsOrder(b[k]) =>
        /\ l[b[k].id] = 0 /\ Unplaced(b[k].id, b)
        /\ \A n \in DOMAIN b : n > k /\ b[n].id = b[k].id =>
              b[n].kind # "accepted" /\ ~Trades(b[n])

\* Every order that rests, is to be placed or was traded is known.
AllKnown(b, l, p, o) ==
    \A i \in Ids \ (p \cup o) : l[i] = 0 /\ Unplaced(i, b) /\ Unheard(i, b)

Core(b, l, p, o) ==
    /\ b \in Seq(Message) /\ l \in [Ids -> Nat] /\ p \subseteq Ids /\ o \subseteq Ids
    /\ Moves(b) /\ PlacedOnce(b, l, p, o) /\ EndsLast(b, l) /\ AllKnown(b, l, p, o)

\* Order s does not rest any more when message k arrives.
Dead(s, k, b, l) ==
    l[s] = 0 \/ \E n \in DOMAIN b : n < k /\ b[n].kind = "del" /\ b[n].id = s

\* Order i trades no more: it does not rest, and is placed only by moves that find
\* nothing; and all its trades are heard of.
Calm(i, b, l) ==
    /\ l[i] = 0
    /\ \A k \in DOMAIN b :
         /\ b[k].id = i => b[k].kind \notin Orders /\ ~Trades(b[k])
         /\ b[k].kind = "move" /\ b[k].to = i => Dead(b[k].id, k, b, l)

\* What a message adds to the position when it is heard
Gain(m) == IF Trades(m) THEN Direction(m.id) * m.volume ELSE 0

\* The trades on the bus lead from position h to position pos: f gives the position
\* after each message.
Leads(h, b, pos) ==
    \E f \in [0..Len(b) -> Int] :
        /\ f[0] = h /\ f[Len(b)] = pos
        /\ \A k \in 1..Len(b) : f[k] = f[k - 1] + Gain(b[k])
        /\ \A j \in 0..Len(b) : (\A k \in (j + 1)..Len(b) : ~Trades(b[k])) => f[j] = pos

\* Of a closing order nothing is said but that it is placed and trades.
Untouched(i, b) ==
    \A k \in DOMAIN b : b[k].id = i => b[k].kind \in Orders \cup {"accepted", "fill", "filled"}

\* It is the opposite of the position, on its way or at the exchange.
Opposite(i, b, l, pos) ==
    \/ \E k \in DOMAIN b : /\ b[k].kind \in Orders /\ b[k].id = i
                           /\ pos + Direction(i) * b[k].volume = 0
    \/ Unplaced(i, b) /\ pos + Direction(i) * l[i] = 0

NoError(i, b) == \A k \in DOMAIN b : b[k] # Msg("add_error", i)

-----------------------------------------------------------------------------
(* The invariant *)

Cancelling ==
    /\ \A i \in Ids \ cancels : Calm(i, bus, live)
    /\ \A i \in mine : Unplaced(i, bus) /\ NoError(i, bus)
    /\ late => mine = {} /\ open \subseteq cancels
                /\ \A i \in open : \E k \in DOMAIN bus : bus[k].kind = "del" /\ bus[k].id = i

Active ==
    /\ \E i \in Ids : mine = {i}
    /\ \A i \in Ids \ mine : Calm(i, bus, live)
    /\ \A i \in mine : Untouched(i, bus) /\ Opposite(i, bus, live, position)
    /\ late => open = {}
    /\ phase = "waiting" => ~late /\ mine \cap pendings = {}

Flat ==
    /\ mine = {} /\ position = 0 /\ held = 0
    /\ \A i \in Ids : Calm(i, bus, live)
    /\ late => open = {}

Phases ==
    /\ phase \in {"trading", "reset"} => mine = {}
    /\ phase = "cancelling" => Cancelling
    /\ phase \in {"adding", "waiting"} => Active
    /\ phase = "flat" => Flat

IInv ==
    /\ TypeOK
    /\ Core(bus, live, pendings, open)
    /\ Leads(held, bus, position)
    /\ Phases

-----------------------------------------------------------------------------
(* Sequences of messages *)

LEMMA TailBus ==
  ASSUME NEW b \in Seq(Message), b # <<>>
  PROVE  /\ Tail(b) \in Seq(Message) /\ Head(b) = b[1] /\ b[1] \in Message
         /\ Len(b) \in Nat /\ Len(b) > 0 /\ Len(Tail(b)) = Len(b) - 1
         /\ DOMAIN b = 1..Len(b) /\ DOMAIN Tail(b) = 1..(Len(b) - 1)
         /\ \A k \in 1..(Len(b) - 1) : Tail(b)[k] = b[k + 1]
  OBVIOUS

LEMMA AppendBus ==
  ASSUME NEW b \in Seq(Message), NEW m \in Message
  PROVE  /\ Append(b, m) \in Seq(Message)
         /\ Len(b) \in Nat /\ Len(Append(b, m)) = Len(b) + 1
         /\ DOMAIN b = 1..Len(b) /\ DOMAIN Append(b, m) = 1..(Len(b) + 1)
         /\ \A k \in 1..Len(b) : Append(b, m)[k] = b[k]
         /\ Append(b, m)[Len(b) + 1] = m
  OBVIOUS

LEMMA MessageFields ==
  ASSUME NEW m \in Message
  PROVE  /\ m.id \in Ids
         /\ m.kind \in {"add", "market", "fill", "filled", "del", "accepted", "cancelled",
                        "add_error", "del_error", "move"}
         /\ m.kind = "move" => m.to \in Ids
         /\ m.kind \in {"add", "market", "fill", "filled"} => m.volume \in Nat
         /\ m.kind \in {"del", "accepted", "cancelled", "add_error", "del_error"} =>
               m = Msg(m.kind, m.id)
  BY DEF Message, Msg

LEMMA MessageMade ==
  ASSUME NEW i \in Ids
  PROVE  /\ \A kind \in {"del", "accepted", "cancelled", "add_error", "del_error"} :
               /\ Msg(kind, i) \in Message
               /\ Msg(kind, i).kind = kind /\ Msg(kind, i).id = i
         /\ \A kind \in {"add", "market", "fill", "filled"}, v \in Nat :
               /\ Order(kind, i, v) \in Message
               /\ Order(kind, i, v).kind = kind /\ Order(kind, i, v).id = i
               /\ Order(kind, i, v).volume = v
  BY DEF Message, Msg, Order

LEMMA DirectionType == \A i \in Ids : Direction(i) \in {1, -1}
  BY DEF Direction

LEMMA GainType ==
  ASSUME NEW m \in Message
  PROVE  Gain(m) \in Int /\ (~Trades(m) => Gain(m) = 0)
  <1>1. CASE ~Trades(m)
    BY <1>1 DEF Gain
  <1>2. CASE Trades(m)
    <2>1. m.volume \in Nat /\ m.id \in Ids
      BY <1>2, MessageFields DEF Trades
    <2>2. CASE Direction(m.id) = 1
      BY <1>2, <2>1, <2>2 DEF Gain
    <2>3. CASE Direction(m.id) = -1
      BY <1>2, <2>1, <2>3 DEF Gain
    <2>q. QED BY <2>1, <2>2, <2>3, DirectionType
  <1>q. QED BY <1>1, <1>2

-----------------------------------------------------------------------------
(* What an order can still do, as messages come and go *)

\* A message leaves the bus.
LEMMA CoreDrop ==
  ASSUME NEW b, NEW l, NEW p, NEW o, Core(b, l, p, o), b # <<>>
  PROVE  Core(Tail(b), l, p, o)
  <1> DEFINE t == Tail(b)
  <1>1. /\ b \in Seq(Message) /\ l \in [Ids -> Nat] /\ p \subseteq Ids /\ o \subseteq Ids
        /\ Moves(b) /\ PlacedOnce(b, l, p, o) /\ EndsLast(b, l) /\ AllKnown(b, l, p, o)
    BY DEF Core
  <1>2. /\ t \in Seq(Message) /\ Len(b) \in Nat /\ Len(b) > 0
        /\ DOMAIN b = 1..Len(b) /\ DOMAIN t = 1..(Len(b) - 1)
        /\ \A k \in 1..(Len(b) - 1) : t[k] = b[k + 1]
    BY <1>1, TailBus
  <1>3. \A k \in DOMAIN t : k + 1 \in DOMAIN b /\ t[k] = b[k + 1]
    BY <1>2
  <1> HIDE DEF t
  <1>4. Moves(t)
    BY <1>1, <1>3 DEF Moves
  <1>5. \A i : (Unplaced(i, b) => Unplaced(i, t)) /\ (Unheard(i, b) => Unheard(i, t))
    BY <1>3 DEF Unplaced, Unheard
  <1>6. PlacedOnce(t, l, p, o)
    <2> SUFFICES ASSUME NEW i \in Ids, NEW k \in DOMAIN t, Places(t[k], i)
                 PROVE  /\ l[i] = 0 /\ i \in p /\ i \notin o
                        /\ \A n \in DOMAIN t : n # k =>
                              ~Places(t[n], i) /\ (t[n].id = i => t[n].kind = "del" /\ n > k)
      BY DEF PlacedOnce
    <2>1. k + 1 \in DOMAIN b /\ Places(b[k + 1], i)
      BY <1>3
    <2>2. /\ l[i] = 0 /\ i \in p /\ i \notin o
          /\ \A n \in DOMAIN b : n # k + 1 =>
                ~Places(b[n], i) /\ (b[n].id = i => b[n].kind = "del" /\ n > k + 1)
      BY <1>1, <2>1 DEF PlacedOnce
    <2>3. ASSUME NEW n \in DOMAIN t, n # k
          PROVE  ~Places(t[n], i) /\ (t[n].id = i => t[n].kind = "del" /\ n > k)
      <3>1. n + 1 \in DOMAIN b /\ t[n] = b[n + 1] /\ n + 1 # k + 1 /\ k \in Int /\ n \in Int
        BY <1>2, <1>3, <2>3
      <3>q. QED BY <2>2, <3>1
    <2>q. QED BY <2>2, <2>3
  <1>7. EndsLast(t, l)
    <2> SUFFICES ASSUME NEW k \in DOMAIN t, EndsOrder(t[k])
                 PROVE  /\ l[t[k].id] = 0 /\ Unplaced(t[k].id, t)
                        /\ \A n \in DOMAIN t : n > k /\ t[n].id = t[k].id =>
                              t[n].kind # "accepted" /\ ~Trades(t[n])
      BY DEF EndsLast
    <2>1. k + 1 \in DOMAIN b /\ t[k] = b[k + 1]
      BY <1>3
    <2>2. /\ l[b[k + 1].id] = 0 /\ Unplaced(b[k + 1].id, b)
          /\ \A n \in DOMAIN b : n > k + 1 /\ b[n].id = b[k + 1].id =>
                b[n].kind # "accepted" /\ ~Trades(b[n])
      BY <1>1, <2>1 DEF EndsLast
    <2>3. ASSUME NEW n \in DOMAIN t, n > k, t[n].id = t[k].id
          PROVE  t[n].kind # "accepted" /\ ~Trades(t[n])
      <3>1. n + 1 \in DOMAIN b /\ t[n] = b[n + 1] /\ n + 1 > k + 1
        BY <1>2, <1>3, <2>3
      <3>q. QED BY <2>1, <2>2, <2>3, <3>1
    <2>q. QED BY <1>5, <2>1, <2>2, <2>3
  <1>8. AllKnown(t, l, p, o)
    BY <1>1, <1>5 DEF AllKnown
  <1>q. QED BY <1>1, <1>2, <1>4, <1>6, <1>7, <1>8 DEF Core, t

LEMMA AppendCases ==
  ASSUME NEW b \in Seq(Message), NEW m \in Message
  PROVE  /\ Append(b, m) \in Seq(Message)
         /\ \A k \in DOMAIN b : k \in DOMAIN Append(b, m) /\ Append(b, m)[k] = b[k]
         /\ Len(b) + 1 \in DOMAIN Append(b, m) /\ Append(b, m)[Len(b) + 1] = m
         /\ \A k \in DOMAIN Append(b, m) :
               \/ k \in DOMAIN b /\ k \in Int /\ k < Len(b) + 1 /\ Append(b, m)[k] = b[k]
               \/ k = Len(b) + 1 /\ Append(b, m)[k] = m
         /\ Len(b) + 1 \notin DOMAIN b /\ Len(b) \in Nat
  BY AppendBus

\* A message joins the bus, as what rests and what is known changes.
LEMMA CoreJoin ==
  ASSUME NEW b, NEW l, NEW p, NEW o, Core(b, l, p, o),
         NEW m \in Message, NEW lx \in [Ids -> Nat], NEW px \in SUBSET Ids, NEW ox \in SUBSET Ids,
         m.kind = "move" => m.id # m.to,
         \A i \in Ids : \A k \in DOMAIN b : Places(b[k], i) =>
            /\ lx[i] = 0 /\ i \in px /\ i \notin ox
            /\ ~Places(m, i) /\ (m.id = i => m.kind = "del"),
         \A i \in Ids : Places(m, i) =>
            /\ lx[i] = 0 /\ i \in px /\ i \notin ox
            /\ \A n \in DOMAIN b : b[n].id # i /\ ~Places(b[n], i),
         \A k \in DOMAIN b : EndsOrder(b[k]) =>
            /\ lx[b[k].id] = 0 /\ ~Places(m, b[k].id)
            /\ m.id = b[k].id => m.kind # "accepted" /\ ~Trades(m),
         EndsOrder(m) => lx[m.id] = 0 /\ Unplaced(m.id, b),
         \A i \in Ids \ (px \cup ox) :
            /\ lx[i] = 0 /\ Unplaced(i, b) /\ Unheard(i, b) /\ ~Places(m, i)
            /\ m.id = i => m.kind # "accepted" /\ ~Trades(m)
  PROVE  Core(Append(b, m), lx, px, ox)
  <1> DEFINE x == Append(b, m)
             e == Len(b) + 1
  <1>1. /\ b \in Seq(Message)
        /\ Moves(b) /\ PlacedOnce(b, l, p, o) /\ EndsLast(b, l)
    BY DEF Core
  <1>2. /\ x \in Seq(Message)
        /\ \A k \in DOMAIN b : k \in DOMAIN x /\ x[k] = b[k]
        /\ e \in DOMAIN x /\ x[e] = m
        /\ \A k \in DOMAIN x : \/ k \in DOMAIN b /\ k \in Int /\ k < e /\ x[k] = b[k]
                               \/ k = e /\ x[k] = m
        /\ e \notin DOMAIN b /\ e \in Int
    BY <1>1, AppendCases
  <1> HIDE DEF x, e
  <1>3. Moves(x)
    BY <1>1, <1>2 DEF Moves
  <1>4. /\ \A i : Unplaced(i, b) /\ ~Places(m, i) => Unplaced(i, x)
        /\ \A i : Unheard(i, b) /\ (m.id = i => m.kind # "accepted" /\ ~Trades(m)) => Unheard(i, x)
    BY <1>2 DEF Unplaced, Unheard
  <1>5. PlacedOnce(x, lx, px, ox)
    <2> SUFFICES ASSUME NEW i \in Ids, NEW k \in DOMAIN x, Places(x[k], i)
                 PROVE  /\ lx[i] = 0 /\ i \in px /\ i \notin ox
                        /\ \A n \in DOMAIN x : n # k =>
                              ~Places(x[n], i) /\ (x[n].id = i => x[n].kind = "del" /\ n > k)
      BY DEF PlacedOnce
    <2>1. CASE k \in DOMAIN b /\ k \in Int /\ k < e /\ x[k] = b[k]
      <3>1. /\ lx[i] = 0 /\ i \in px /\ i \notin ox
            /\ ~Places(m, i) /\ (m.id = i => m.kind = "del")
        BY <2>1
      <3>2. \A n \in DOMAIN b : n # k =>
               ~Places(b[n], i) /\ (b[n].id = i => b[n].kind = "del" /\ n > k)
        BY <1>1, <2>1 DEF PlacedOnce
      <3>3. ASSUME NEW n \in DOMAIN x, n # k
            PROVE  ~Places(x[n], i) /\ (x[n].id = i => x[n].kind = "del" /\ n > k)
        BY <1>2, <2>1, <3>1, <3>2, <3>3
      <3>q. QED BY <3>1, <3>3
    <2>2. CASE k = e /\ x[k] = m
      <3>1. /\ lx[i] = 0 /\ i \in px /\ i \notin ox
            /\ \A n \in DOMAIN b : b[n].id # i /\ ~Places(b[n], i)
        BY <2>2
      <3>q. QED BY <1>2, <2>2, <3>1
    <2>q. QED BY <1>2, <2>1, <2>2
  <1>6. EndsLast(x, lx)
    <2> SUFFICES ASSUME NEW k \in DOMAIN x, EndsOrder(x[k])
                 PROVE  /\ lx[x[k].id] = 0 /\ Unplaced(x[k].id, x)
                        /\ \A n \in DOMAIN x : n > k /\ x[n].id = x[k].id =>
                              x[n].kind # "accepted" /\ ~Trades(x[n])
      BY DEF EndsLast
    <2>1. CASE k \in DOMAIN b /\ k \in Int /\ k < e /\ x[k] = b[k]
      <3>1. /\ Unplaced(b[k].id, b)
            /\ \A n \in DOMAIN b : n > k /\ b[n].id = b[k].id =>
                  b[n].kind # "accepted" /\ ~Trades(b[n])
        BY <1>1, <2>1 DEF EndsLast
      <3>2. /\ lx[b[k].id] = 0 /\ ~Places(m, b[k].id)
            /\ m.id = b[k].id => m.kind # "accepted" /\ ~Trades(m)
        BY <2>1
      <3>q. QED BY <1>2, <1>4, <2>1, <3>1, <3>2
    <2>2. CASE k = e /\ x[k] = m
      <3>1. ~Places(m, m.id) /\ lx[m.id] = 0 /\ Unplaced(m.id, b)
        BY <2>2 DEF EndsOrder, Places, Orders
      <3>q. QED BY <1>2, <1>4, <2>2, <3>1
    <2>q. QED BY <1>2, <2>1, <2>2
  <1>7. AllKnown(x, lx, px, ox)
    BY <1>4 DEF AllKnown
  <1>q. QED BY <1>2, <1>3, <1>5, <1>6, <1>7 DEF Core, x

\* A cancellation is asked for.
LEMMA CoreDel ==
  ASSUME NEW b, NEW l, NEW p, NEW o, Core(b, l, p, o), NEW i \in Ids
  PROVE  Core(Append(b, Msg("del", i)), l, p, o)
  <1> DEFINE m == Msg("del", i)
  <1>1. m \in Message /\ m.kind = "del"
    BY MessageMade
  <1>2. /\ b \in Seq(Message) /\ l \in [Ids -> Nat] /\ p \in SUBSET Ids /\ o \in SUBSET Ids
        /\ PlacedOnce(b, l, p, o) /\ EndsLast(b, l) /\ AllKnown(b, l, p, o)
    BY DEF Core
  <1>3. ~EndsOrder(m) /\ ~Trades(m) /\ \A j : ~Places(m, j)
    BY <1>1 DEF EndsOrder, Trades, Places, Orders
  <1> HIDE DEF m
  <1>4. Core(Append(b, m), l, p, o)
    BY <1>1, <1>2, <1>3, CoreJoin DEF PlacedOnce, EndsLast, AllKnown
  <1>q. QED BY <1>4 DEF m

\* An order is asked for under an id that nothing recalls.
LEMMA CoreSend ==
  ASSUME NEW b, NEW l, NEW p, NEW o, Core(b, l, p, o), NEW i \in Ids, NEW m \in Message,
         Places(m, i), m.kind = "move" => m.id # i /\ m.id \in o,
         i \notin p \cup o, l[i] = 0,
         \A k \in DOMAIN b : b[k].id # i /\ (b[k].kind = "move" => b[k].to # i)
  PROVE  Core(Append(b, m), l, p \cup {i}, o)
  <1>1. /\ b \in Seq(Message) /\ l \in [Ids -> Nat] /\ p \cup {i} \in SUBSET Ids /\ o \in SUBSET Ids
        /\ PlacedOnce(b, l, p, o) /\ EndsLast(b, l) /\ AllKnown(b, l, p, o)
    BY DEF Core
  <1>2. \A j \in Ids : Places(m, j) => j = i
    BY DEF Places, Orders
  <1>3. \A k \in DOMAIN b : ~Places(b[k], i) /\ b[k].id # i
    BY DEF Places
  <1>4. ~EndsOrder(m) /\ m.kind # "accepted" /\ ~Trades(m)
    BY DEF EndsOrder, Trades, Places, Orders
  <1>5. m.kind = "move" => m.id # m.to
    BY DEF Places, Orders
  <1>6. ASSUME NEW j \in Ids, NEW k \in DOMAIN b, Places(b[k], j)
        PROVE  /\ l[j] = 0 /\ j \in p \cup {i} /\ j \notin o
               /\ ~Places(m, j) /\ (m.id = j => m.kind = "del")
    <2>1. l[j] = 0 /\ j \in p /\ j \notin o /\ j # i
      BY <1>1, <1>3, <1>6 DEF PlacedOnce
    <2>2. m.id # j
      BY <2>1 DEF Places
    <2>q. QED BY <1>2, <2>1, <2>2
  <1>7. ASSUME NEW k \in DOMAIN b, EndsOrder(b[k])
        PROVE  l[b[k].id] = 0 /\ ~Places(m, b[k].id)
    <2>1. b[k].id # i /\ b[k].id \in Ids
      BY <1>1, <1>3, MessageFields
    <2>q. QED BY <1>1, <1>2, <1>7, <2>1 DEF EndsLast
  <1>8. ASSUME NEW j \in Ids \ ((p \cup {i}) \cup o)
        PROVE  l[j] = 0 /\ Unplaced(j, b) /\ Unheard(j, b) /\ ~Places(m, j)
    BY <1>1, <1>2 DEF AllKnown
  <1>q. QED BY <1>1, <1>2, <1>3, <1>4, <1>5, <1>6, <1>7, <1>8, CoreJoin

\* The exchange takes an order whose request has left the bus.
LEMMA CorePlace ==
  ASSUME NEW b, NEW l, NEW p, NEW o, Core(b, l, p, o), NEW i \in Ids, NEW v \in Nat,
         i \in p, \A k \in DOMAIN b : ~Places(b[k], i) /\ (b[k].id = i => b[k].kind = "del")
  PROVE  Core(Append(b, Msg("accepted", i)), [l EXCEPT ![i] = v], p, o)
  <1> DEFINE m == Msg("accepted", i)
             lx == [l EXCEPT ![i] = v]
  <1>1. m \in Message /\ m.kind = "accepted" /\ m.id = i
    BY MessageMade
  <1>2. /\ b \in Seq(Message) /\ lx \in [Ids -> Nat] /\ p \in SUBSET Ids /\ o \in SUBSET Ids
        /\ PlacedOnce(b, l, p, o) /\ EndsLast(b, l) /\ AllKnown(b, l, p, o)
        /\ \A j \in Ids : j # i => lx[j] = l[j]
    BY DEF Core
  <1>3. ~EndsOrder(m) /\ \A j : ~Places(m, j)
    BY <1>1 DEF EndsOrder, Places, Orders
  <1>4. \A k \in DOMAIN b : EndsOrder(b[k]) => b[k].id # i
    BY DEF EndsOrder
  <1> HIDE DEF m, lx
  <1>5. ASSUME NEW j \in Ids, NEW k \in DOMAIN b, Places(b[k], j)
        PROVE  lx[j] = 0 /\ j \in p /\ j \notin o /\ m.id # j
    BY <1>1, <1>2, <1>5 DEF PlacedOnce
  <1>6. ASSUME NEW k \in DOMAIN b, EndsOrder(b[k])
        PROVE  lx[b[k].id] = 0 /\ m.id # b[k].id
    <2>1. b[k].id # i /\ b[k].id \in Ids
      BY <1>2, <1>4, <1>6, MessageFields
    <2>q. QED BY <1>1, <1>2, <1>6, <2>1 DEF EndsLast
  <1>7. ASSUME NEW j \in Ids \ (p \cup o)
        PROVE  lx[j] = 0 /\ Unplaced(j, b) /\ Unheard(j, b) /\ m.id # j
    BY <1>1, <1>2 DEF AllKnown
  <1>8. Core(Append(b, m), lx, p, o)
    BY <1>1, <1>2, <1>3, <1>5, <1>6, <1>7, CoreJoin
  <1>q. QED BY <1>8 DEF m, lx

\* An order that rests trades.
LEMMA CoreTrade ==
  ASSUME NEW b, NEW l, NEW p, NEW o, Core(b, l, p, o), NEW i \in Ids, NEW v \in 1..l[i]
  PROVE  Core(Append(b, Fill(i, v, l[i] - v)), [l EXCEPT ![i] = l[i] - v], p, o)
  <1> DEFINE m == Fill(i, v, l[i] - v)
             lx == [l EXCEPT ![i] = l[i] - v]
  <1>1. /\ b \in Seq(Message) /\ l \in [Ids -> Nat] /\ p \in SUBSET Ids /\ o \in SUBSET Ids
        /\ PlacedOnce(b, l, p, o) /\ EndsLast(b, l) /\ AllKnown(b, l, p, o)
    BY DEF Core
  <1>2. /\ l[i] \in Nat /\ v \in Nat /\ l[i] - v \in Nat /\ l[i] # 0
        /\ lx \in [Ids -> Nat] /\ lx[i] = l[i] - v
        /\ \A j \in Ids : j # i => lx[j] = l[j]
    BY <1>1
  <1>3. /\ m \in Message /\ m.id = i /\ Trades(m)
        /\ m.kind = "filled" => l[i] - v = 0
    BY <1>2, MessageMade DEF Fill, Trades
  <1>4. (EndsOrder(m) => m.kind = "filled") /\ m.kind # "move" /\ \A j : ~Places(m, j)
    BY <1>3 DEF EndsOrder, Places, Orders, Trades
  <1> HIDE DEF m, lx
  <1>5. ASSUME NEW j \in Ids, NEW k \in DOMAIN b, Places(b[k], j)
        PROVE  lx[j] = 0 /\ j \in p /\ j \notin o /\ m.id # j
    BY <1>1, <1>2, <1>3, <1>5 DEF PlacedOnce
  <1>6. ASSUME NEW k \in DOMAIN b, EndsOrder(b[k])
        PROVE  lx[b[k].id] = 0 /\ m.id # b[k].id
    <2>1. b[k].id \in Ids /\ l[b[k].id] = 0
      BY <1>1, <1>6, MessageFields DEF EndsLast
    <2>q. QED BY <1>2, <1>3, <2>1
  <1>7. ASSUME NEW j \in Ids \ (p \cup o)
        PROVE  lx[j] = 0 /\ Unplaced(j, b) /\ Unheard(j, b) /\ m.id # j
    BY <1>1, <1>2, <1>3 DEF AllKnown
  <1>8. EndsOrder(m) => lx[m.id] = 0 /\ Unplaced(m.id, b)
    BY <1>2, <1>3, <1>4, <1>5 DEF Unplaced
  <1>9. Core(Append(b, m), lx, p, o)
    BY <1>1, <1>2, <1>3, <1>4, <1>5, <1>6, <1>7, <1>8, CoreJoin
  <1>q. QED BY <1>9 DEF m, lx

\* An order that is not to be placed any more ends.
LEMMA CoreEnd ==
  ASSUME NEW b, NEW l, NEW p, NEW o, Core(b, l, p, o), NEW i \in Ids, Unplaced(i, b),
         NEW kind \in {"cancelled", "del_error", "add_error"}
  PROVE  Core(Append(b, Msg(kind, i)), [l EXCEPT ![i] = 0], p, o)
  <1> DEFINE m == Msg(kind, i)
             lx == [l EXCEPT ![i] = 0]
  <1>1. /\ b \in Seq(Message) /\ l \in [Ids -> Nat] /\ p \in SUBSET Ids /\ o \in SUBSET Ids
        /\ PlacedOnce(b, l, p, o) /\ EndsLast(b, l) /\ AllKnown(b, l, p, o)
    BY DEF Core
  <1>2. lx \in [Ids -> Nat] /\ lx[i] = 0 /\ \A j \in Ids : j # i => lx[j] = l[j]
    BY <1>1
  <1>3. m \in Message /\ m.id = i /\ m.kind = kind
    BY MessageMade
  <1>4. m.kind \notin {"move", "accepted"} /\ ~Trades(m) /\ \A j : ~Places(m, j)
    BY <1>3 DEF Places, Orders, Trades
  <1> HIDE DEF m, lx
  <1>5. ASSUME NEW j \in Ids, NEW k \in DOMAIN b, Places(b[k], j)
        PROVE  lx[j] = 0 /\ j \in p /\ j \notin o /\ m.id # j
    BY <1>1, <1>2, <1>3, <1>5 DEF PlacedOnce, Unplaced
  <1>6. ASSUME NEW k \in DOMAIN b, EndsOrder(b[k])
        PROVE  lx[b[k].id] = 0
    <2>1. b[k].id \in Ids /\ l[b[k].id] = 0
      BY <1>1, <1>6, MessageFields DEF EndsLast
    <2>q. QED BY <1>2, <2>1
  <1>7. ASSUME NEW j \in Ids \ (p \cup o)
        PROVE  lx[j] = 0 /\ Unplaced(j, b) /\ Unheard(j, b)
    BY <1>1, <1>2 DEF AllKnown
  <1>8. Core(Append(b, m), lx, p, o)
    BY <1>1, <1>2, <1>3, <1>4, <1>5, <1>6, <1>7, CoreJoin
  <1>q. QED BY <1>8 DEF m, lx

\* News of order i is heard: it is known no longer, or as open.
LEMMA CoreHeard ==
  ASSUME NEW b, NEW l, NEW p, NEW o, Core(b, l, p, o), b # <<>>,
         NEW px \in SUBSET p, NEW ox \in SUBSET Ids, NEW i \in Ids, b[1].id = i,
         \A j \in Ids \ {i} : (j \in px <=> j \in p) /\ (j \in ox <=> j \in o),
         b[1].kind = "accepted" \/ EndsOrder(b[1]),
         EndsOrder(b[1]) \/ i \in ox
  PROVE  Core(Tail(b), l, px, ox)
  <1> DEFINE t == Tail(b)
  <1>1. /\ b \in Seq(Message) /\ l \in [Ids -> Nat] /\ p \subseteq Ids
        /\ PlacedOnce(b, l, p, o) /\ EndsLast(b, l)
    BY DEF Core
  <1>2. /\ t \in Seq(Message) /\ Moves(t)
        /\ PlacedOnce(t, l, p, o) /\ EndsLast(t, l) /\ AllKnown(t, l, p, o)
    BY CoreDrop DEF Core
  <1>3. /\ 1 \in DOMAIN b
        /\ \A k \in DOMAIN t : k + 1 \in DOMAIN b /\ t[k] = b[k + 1] /\ k + 1 > 1
    BY <1>1, TailBus
  <1> HIDE DEF t
  <1>4. Unplaced(i, t)
    <2> SUFFICES ASSUME NEW k \in DOMAIN t, Places(t[k], i)
                 PROVE  FALSE
      BY DEF Unplaced
    <2>1. Places(b[k + 1], i) /\ k + 1 \in DOMAIN b /\ k + 1 # 1
      BY <1>3
    <2>2. b[1].kind = "del"
      BY <1>1, <1>3, <2>1 DEF PlacedOnce
    <2>q. QED BY <2>2 DEF EndsOrder
  <1>5. EndsOrder(b[1]) => l[i] = 0 /\ Unheard(i, t)
    <2>1. EndsOrder(b[1]) => l[i] = 0 /\ \A n \in DOMAIN b : n > 1 /\ b[n].id = i =>
                                            b[n].kind # "accepted" /\ ~Trades(b[n])
      BY <1>1, <1>3 DEF EndsLast
    <2>q. QED BY <1>3, <2>1 DEF Unheard
  <1>6. PlacedOnce(t, l, px, ox)
    <2> SUFFICES ASSUME NEW j \in Ids, NEW k \in DOMAIN t, Places(t[k], j)
                 PROVE  /\ l[j] = 0 /\ j \in px /\ j \notin ox
                        /\ \A n \in DOMAIN t : n # k =>
                              ~Places(t[n], j) /\ (t[n].id = j => t[n].kind = "del" /\ n > k)
      BY DEF PlacedOnce
    <2>1. j # i
      BY <1>4 DEF Unplaced
    <2>q. QED BY <1>2, <2>1 DEF PlacedOnce
  <1>7. AllKnown(t, l, px, ox)
    <2> SUFFICES ASSUME NEW j \in Ids \ (px \cup ox)
                 PROVE  l[j] = 0 /\ Unplaced(j, t) /\ Unheard(j, t)
      BY DEF AllKnown
    <2>1. CASE j = i
      BY <1>4, <1>5, <2>1
    <2>2. CASE j # i
      BY <1>2, <2>2 DEF AllKnown
    <2>q. QED BY <2>1, <2>2
  <1>q. QED BY <1>1, <1>2, <1>6, <1>7 DEF Core, t

LEMMA ConcatCases ==
  ASSUME NEW b \in Seq(Message), NEW d \in Seq(Message)
  PROVE  /\ b \o d \in Seq(Message) /\ Len(b \o d) = Len(b) + Len(d)
         /\ Len(b) \in Nat /\ Len(d) \in Nat
         /\ \A k \in DOMAIN b : k \in DOMAIN (b \o d) /\ (b \o d)[k] = b[k] /\ k \in 1..Len(b)
         /\ \A k \in DOMAIN d : Len(b) + k \in DOMAIN (b \o d) /\ (b \o d)[Len(b) + k] = d[k]
         /\ \A k \in DOMAIN (b \o d) :
               \/ k \in DOMAIN b /\ k \in Int /\ k <= Len(b) /\ (b \o d)[k] = b[k]
               \/ /\ k \in Int /\ k > Len(b) /\ k - Len(b) \in DOMAIN d
                  /\ (b \o d)[k] = d[k - Len(b)]
  OBVIOUS

\* Several cancellations are asked for.
LEMMA CoreDels ==
  ASSUME NEW b, NEW l, NEW p, NEW o, Core(b, l, p, o),
         NEW d \in Seq(Message), \A k \in DOMAIN d : d[k].kind = "del"
  PROVE  Core(b \o d, l, p, o)
  <1> DEFINE x == b \o d
             e == Len(b)
  <1>1. /\ b \in Seq(Message) /\ l \in [Ids -> Nat] /\ p \subseteq Ids /\ o \subseteq Ids
        /\ Moves(b) /\ PlacedOnce(b, l, p, o) /\ EndsLast(b, l) /\ AllKnown(b, l, p, o)
    BY DEF Core
  <1>2. /\ x \in Seq(Message) /\ e \in Int
        /\ \A k \in DOMAIN b : k \in DOMAIN x /\ x[k] = b[k]
        /\ \A k \in DOMAIN x :
              \/ k \in DOMAIN b /\ k \in Int /\ k <= e /\ x[k] = b[k]
              \/ k \in Int /\ k > e /\ x[k].kind = "del"
    BY <1>1, ConcatCases
  <1>3. /\ \A m : m.kind = "del" => ~EndsOrder(m) /\ ~Trades(m) /\ m.kind # "accepted" /\ m.kind # "move"
        /\ \A m, i : m.kind = "del" => ~Places(m, i)
    BY DEF EndsOrder, Trades, Places, Orders
  <1> HIDE DEF x, e
  <1>4. Moves(x)
    BY <1>1, <1>2, <1>3 DEF Moves
  <1>5. \A i : (Unplaced(i, b) => Unplaced(i, x)) /\ (Unheard(i, b) => Unheard(i, x))
    BY <1>2, <1>3 DEF Unplaced, Unheard
  <1>6. PlacedOnce(x, l, p, o)
    <2> SUFFICES ASSUME NEW i \in Ids, NEW k \in DOMAIN x, Places(x[k], i)
                 PROVE  /\ l[i] = 0 /\ i \in p /\ i \notin o
                        /\ \A n \in DOMAIN x : n # k =>
                              ~Places(x[n], i) /\ (x[n].id = i => x[n].kind = "del" /\ n > k)
      BY DEF PlacedOnce
    <2>1. k \in DOMAIN b /\ k \in Int /\ k <= e /\ Places(b[k], i)
      BY <1>2, <1>3
    <2>2. /\ l[i] = 0 /\ i \in p /\ i \notin o
          /\ \A n \in DOMAIN b : n # k =>
                ~Places(b[n], i) /\ (b[n].id = i => b[n].kind = "del" /\ n > k)
      BY <1>1, <2>1 DEF PlacedOnce
    <2>3. ASSUME NEW n \in DOMAIN x, n # k
          PROVE  ~Places(x[n], i) /\ (x[n].id = i => x[n].kind = "del" /\ n > k)
      <3>1. CASE n \in DOMAIN b /\ x[n] = b[n]
        BY <2>2, <2>3, <3>1
      <3>2. CASE n \in Int /\ n > e /\ x[n].kind = "del"
        BY <1>2, <1>3, <2>1, <3>2
      <3>q. QED BY <1>2, <3>1, <3>2
    <2>q. QED BY <2>2, <2>3
  <1>7. EndsLast(x, l)
    <2> SUFFICES ASSUME NEW k \in DOMAIN x, EndsOrder(x[k])
                 PROVE  /\ l[x[k].id] = 0 /\ Unplaced(x[k].id, x)
                        /\ \A n \in DOMAIN x : n > k /\ x[n].id = x[k].id =>
                              x[n].kind # "accepted" /\ ~Trades(x[n])
      BY DEF EndsLast
    <2>1. k \in DOMAIN b /\ x[k] = b[k]
      BY <1>2, <1>3
    <2>2. /\ l[b[k].id] = 0 /\ Unplaced(b[k].id, b)
          /\ \A n \in DOMAIN b : n > k /\ b[n].id = b[k].id =>
                b[n].kind # "accepted" /\ ~Trades(b[n])
      BY <1>1, <2>1 DEF EndsLast
    <2>q. QED BY <1>2, <1>3, <1>5, <2>1, <2>2
  <1>8. AllKnown(x, l, p, o)
    BY <1>1, <1>5 DEF AllKnown
  <1>q. QED BY <1>1, <1>2, <1>4, <1>6, <1>7, <1>8 DEF Core, x

-----------------------------------------------------------------------------
(* An order that trades no more *)

\* Nothing begins to rest that a move on the bus is from.
KeepsDead(b, l, lx) == \A k \in DOMAIN b : b[k].kind = "move" /\ l[b[k].id] = 0 => lx[b[k].id] = 0

LEMMA CalmDrop ==
  ASSUME NEW b \in Seq(Message), b # <<>>, NEW l, NEW lx, NEW i, Calm(i, b, l),
         lx[i] = 0, KeepsDead(b, l, lx), b[1].kind = "del" => lx[b[1].id] = 0
  PROVE  Calm(i, Tail(b), lx)
  <1> DEFINE t == Tail(b)
  <1>1. /\ DOMAIN b = 1..Len(b) /\ DOMAIN t = 1..(Len(b) - 1) /\ Len(b) \in Nat
        /\ \A k \in 1..(Len(b) - 1) : t[k] = b[k + 1]
    BY TailBus
  <1>2. \A k \in DOMAIN t : k \in Int /\ k + 1 \in DOMAIN b /\ t[k] = b[k + 1]
    BY <1>1
  <1>3. \A n \in DOMAIN b : n = 1 \/ (n \in Int /\ n - 1 \in DOMAIN t /\ t[n - 1] = b[n])
    BY <1>1
  <1> HIDE DEF t
  <1>4. ASSUME NEW k \in DOMAIN t
        PROVE  /\ t[k].id = i => t[k].kind \notin Orders /\ ~Trades(t[k])
               /\ t[k].kind = "move" /\ t[k].to = i => Dead(t[k].id, k, t, lx)
    <2>1. t[k].id = i => t[k].kind \notin Orders /\ ~Trades(t[k])
      BY <1>2 DEF Calm
    <2>2. ASSUME t[k].kind = "move", t[k].to = i
          PROVE  Dead(t[k].id, k, t, lx)
      <3>1. Dead(t[k].id, k + 1, b, l) /\ b[k + 1].kind = "move" /\ b[k + 1].id = t[k].id
        BY <1>2, <2>2 DEF Calm
      <3>2. CASE l[t[k].id] = 0
        BY <1>2, <3>1, <3>2 DEF KeepsDead, Dead
      <3>3. CASE \E n \in DOMAIN b : n < k + 1 /\ b[n].kind = "del" /\ b[n].id = t[k].id
        <4>1. PICK n \in DOMAIN b : n < k + 1 /\ b[n].kind = "del" /\ b[n].id = t[k].id
          BY <3>3
        <4>2. CASE n = 1
          BY <4>1, <4>2 DEF Dead
        <4>3. CASE n \in Int /\ n - 1 \in DOMAIN t /\ t[n - 1] = b[n]
          <5>1. n - 1 < k
            BY <1>2, <4>1, <4>3
          <5>q. QED BY <4>1, <4>3, <5>1 DEF Dead
        <4>q. QED BY <1>3, <4>2, <4>3
      <3>q. QED BY <3>1, <3>2, <3>3 DEF Dead
    <2>q. QED BY <2>1, <2>2
  <1>q. QED BY <1>4 DEF Calm, t

LEMMA CalmJoin ==
  ASSUME NEW b \in Seq(Message), NEW m \in Message, NEW l, NEW lx, NEW i, Calm(i, b, l),
         lx[i] = 0, KeepsDead(b, l, lx),
         m.id = i => m.kind \notin Orders /\ ~Trades(m),
         m.kind = "move" /\ m.to = i =>
            lx[m.id] = 0 \/ \E n \in DOMAIN b : b[n].kind = "del" /\ b[n].id = m.id
  PROVE  Calm(i, Append(b, m), lx)
  <1> DEFINE x == Append(b, m)
             e == Len(b) + 1
  <1>1. /\ \A k \in DOMAIN b : k \in DOMAIN x /\ x[k] = b[k] /\ k < e
        /\ \A k \in DOMAIN x : k \in DOMAIN b \/ (k = e /\ x[k] = m)
    BY AppendBus
  <1> HIDE DEF x, e
  <1>2. \A s, k : k \in DOMAIN b /\ b[k].kind = "move" /\ b[k].id = s /\ Dead(s, k, b, l) => Dead(s, k, x, lx)
    BY <1>1 DEF Dead, KeepsDead
  <1>3. ASSUME NEW k \in DOMAIN x
        PROVE  /\ x[k].id = i => x[k].kind \notin Orders /\ ~Trades(x[k])
               /\ x[k].kind = "move" /\ x[k].to = i => Dead(x[k].id, k, x, lx)
    <2>1. CASE k \in DOMAIN b
      <3>1. /\ b[k].id = i => b[k].kind \notin Orders /\ ~Trades(b[k])
            /\ b[k].kind = "move" /\ b[k].to = i => Dead(b[k].id, k, b, l)
        BY <2>1 DEF Calm
      <3>q. QED BY <1>1, <1>2, <2>1, <3>1
    <2>2. CASE k = e /\ x[k] = m
      BY <1>1, <2>2 DEF Dead
    <2>q. QED BY <1>1, <2>1, <2>2
  <1>q. QED BY <1>3 DEF Calm, x

LEMMA CalmDels ==
  ASSUME NEW b \in Seq(Message), NEW l, NEW i, Calm(i, b, l),
         NEW d \in Seq(Message), \A k \in DOMAIN d : d[k].kind = "del"
  PROVE  Calm(i, b \o d, l)
  <1> DEFINE x == b \o d
  <1>1. /\ \A k \in DOMAIN b : k \in DOMAIN x /\ x[k] = b[k]
        /\ \A k \in DOMAIN x : k \in DOMAIN b \/ x[k].kind = "del"
    BY ConcatCases
  <1> HIDE DEF x
  <1>2. \A s, k : Dead(s, k, b, l) => Dead(s, k, x, l)
    BY <1>1 DEF Dead
  <1>3. ASSUME NEW k \in DOMAIN x
        PROVE  /\ x[k].id = i => x[k].kind \notin Orders /\ ~Trades(x[k])
               /\ x[k].kind = "move" /\ x[k].to = i => Dead(x[k].id, k, x, l)
    <2>1. CASE k \in DOMAIN b
      <3>1. /\ b[k].id = i => b[k].kind \notin Orders /\ ~Trades(b[k])
            /\ b[k].kind = "move" /\ b[k].to = i => Dead(b[k].id, k, b, l)
        BY <2>1 DEF Calm
      <3>q. QED BY <1>1, <1>2, <2>1, <3>1
    <2>2. CASE x[k].kind = "del"
      BY <2>2 DEF Orders, Trades
    <2>q. QED BY <1>1, <2>1, <2>2
  <1>q. QED BY <1>3 DEF Calm, x

LEMMA CalmUnplaced ==
  ASSUME NEW b, NEW l, NEW i, l[i] = 0, Unplaced(i, b),
         \A k \in DOMAIN b : b[k].id = i => ~Trades(b[k])
  PROVE  Calm(i, b, l)
  BY DEF Calm, Unplaced, Places

-----------------------------------------------------------------------------
(* The position that is heard of and the one at the exchange *)

LEMMA LeadsTail ==
  ASSUME NEW b \in Seq(Message), b # <<>>, NEW h, NEW pos, Leads(h, b, pos)
  PROVE  Leads(h + Gain(b[1]), Tail(b), pos)
  <1> DEFINE t == Tail(b)
             n == Len(b) - 1
  <1>1. PICK f \in [0..Len(b) -> Int] :
          /\ f[0] = h /\ f[Len(b)] = pos
          /\ \A k \in 1..Len(b) : f[k] = f[k - 1] + Gain(b[k])
          /\ \A j \in 0..Len(b) : (\A k \in (j + 1)..Len(b) : ~Trades(b[k])) => f[j] = pos
    BY DEF Leads
  <1>2. /\ Len(b) \in Nat /\ Len(t) = n /\ n \in Nat /\ Len(b) = n + 1
        /\ \A k \in 1..n : t[k] = b[k + 1]
    BY TailBus
  <1> DEFINE g == [k \in 0..n |-> f[k + 1]]
  <1> HIDE DEF t, n
  <1>3. g \in [0..n -> Int] /\ \A k \in 0..n : g[k] = f[k + 1]
    BY <1>2
  <1> HIDE DEF g
  <1>4. g[0] = h + Gain(b[1]) /\ g[n] = pos
    <2>1. f[1] = f[1 - 1] + Gain(b[1])
      BY <1>1, <1>2
    <2>q. QED BY <1>1, <1>2, <1>3, <2>1
  <1>5. \A k \in 1..n : g[k] = g[k - 1] + Gain(t[k])
    <2> SUFFICES ASSUME NEW k \in 1..n
                 PROVE  g[k] = g[k - 1] + Gain(t[k])
      OBVIOUS
    <2>1. k + 1 \in 1..Len(b) /\ k \in 0..n /\ k - 1 \in 0..n /\ (k - 1) + 1 = k /\ (k + 1) - 1 = k
      BY <1>2
    <2>2. f[k + 1] = f[k] + Gain(b[k + 1])
      BY <1>1, <2>1
    <2>3. t[k] = b[k + 1]
      BY <1>2
    <2>q. QED BY <1>3, <2>1, <2>2, <2>3
  <1>6. ASSUME NEW j \in 0..n, \A k \in (j + 1)..n : ~Trades(t[k])
        PROVE  g[j] = pos
    <2>1. ASSUME NEW k \in ((j + 1) + 1)..Len(b)
          PROVE  ~Trades(b[k])
      <3>1. k - 1 \in (j + 1)..n /\ k - 1 \in 1..n /\ (k - 1) + 1 = k
        BY <1>2
      <3>q. QED BY <1>2, <1>6, <3>1
    <2>2. j + 1 \in 0..Len(b)
      BY <1>2
    <2>q. QED BY <1>1, <1>3, <2>1, <2>2
  <1>7. \E q \in [0..Len(t) -> Int] :
          /\ q[0] = h + Gain(b[1]) /\ q[Len(t)] = pos
          /\ \A k \in 1..Len(t) : q[k] = q[k - 1] + Gain(t[k])
          /\ \A j \in 0..Len(t) : (\A k \in (j + 1)..Len(t) : ~Trades(t[k])) => q[j] = pos
    BY <1>2, <1>3, <1>4, <1>5, <1>6
  <1>q. QED BY <1>7 DEF Leads, t

LEMMA LeadsJoin ==
  ASSUME NEW b \in Seq(Message), NEW m \in Message, NEW h, NEW pos, Leads(h, b, pos)
  PROVE  Leads(h, Append(b, m), pos + Gain(m))
  <1> DEFINE x == Append(b, m)
             n == Len(b)
             e == n + 1
  <1>1. PICK f \in [0..n -> Int] :
          /\ f[0] = h /\ f[n] = pos
          /\ \A k \in 1..n : f[k] = f[k - 1] + Gain(b[k])
          /\ \A j \in 0..n : (\A k \in (j + 1)..n : ~Trades(b[k])) => f[j] = pos
    BY DEF Leads
  <1>2. /\ n \in Nat /\ Len(x) = e /\ e \in Nat /\ e > 0
        /\ \A k \in 1..n : x[k] = b[k]
        /\ x[e] = m
    BY AppendBus
  <1>3. Gain(m) \in Int /\ (~Trades(m) => Gain(m) = 0)
    BY GainType
  <1> DEFINE g == [k \in 0..e |-> IF k = e THEN pos + Gain(m) ELSE f[k]]
  <1>3a. pos \in Int
    BY <1>1, <1>2
  <1>4. /\ g \in [0..e -> Int]
        /\ \A k \in 0..n : g[k] = f[k]
        /\ g[e] = pos + Gain(m)
    <2>1. ASSUME NEW k \in 0..e
          PROVE  (IF k = e THEN pos + Gain(m) ELSE f[k]) \in Int
      <3>1. k = e \/ k \in 0..n
        BY <1>2
      <3>q. QED BY <1>1, <1>3, <1>3a, <3>1
    <2>2. \A k \in 0..n : k \in 0..e /\ k # e
      BY <1>2
    <2>3. e \in 0..e
      BY <1>2
    <2>q. QED BY <2>1, <2>2, <2>3
  <1> HIDE DEF x, e, g
  <1>5. g[0] = h
    BY <1>1, <1>2, <1>4
  <1>6. \A k \in 1..e : g[k] = g[k - 1] + Gain(x[k])
    <2> SUFFICES ASSUME NEW k \in 1..e
                 PROVE  g[k] = g[k - 1] + Gain(x[k])
      OBVIOUS
    <2>1. CASE k \in 1..n
      <3>1. k \in 0..n /\ k - 1 \in 0..n
        BY <1>2, <2>1
      <3>q. QED BY <1>1, <1>2, <1>4, <2>1, <3>1
    <2>2. CASE k = e
      <3>1. k - 1 = n /\ n \in 0..n
        BY <1>2, <2>2 DEF e
      <3>q. QED BY <1>1, <1>2, <1>4, <2>2, <3>1
    <2>q. QED BY <1>2, <2>1, <2>2 DEF e
  <1>7. ASSUME NEW j \in 0..e, \A k \in (j + 1)..e : ~Trades(x[k])
        PROVE  g[j] = pos + Gain(m)
    <2>1. CASE j = e
      BY <1>4, <2>1
    <2>2. CASE j \in 0..n
      <3>1. e \in (j + 1)..e /\ \A k \in (j + 1)..n : k \in (j + 1)..e /\ k \in 1..n
        BY <1>2, <2>2 DEF e
      <3>2. ~Trades(m) /\ \A k \in (j + 1)..n : ~Trades(b[k])
        BY <1>2, <1>7, <3>1
      <3>3. f[j] = pos
        BY <1>1, <2>2, <3>2
      <3>4. Gain(m) = 0 /\ pos \in Int
        BY <1>3, <1>3a, <3>2
      <3>q. QED BY <1>4, <2>2, <3>3, <3>4
    <2>q. QED BY <1>2, <2>1, <2>2 DEF e
  <1>8. \E q \in [0..Len(x) -> Int] :
          /\ q[0] = h /\ q[Len(x)] = pos + Gain(m)
          /\ \A k \in 1..Len(x) : q[k] = q[k - 1] + Gain(x[k])
          /\ \A j \in 0..Len(x) : (\A k \in (j + 1)..Len(x) : ~Trades(x[k])) => q[j] = pos + Gain(m)
    BY <1>2, <1>4, <1>5, <1>6, <1>7
  <1>q. QED BY <1>8 DEF Leads, x

\* A message that is no trade joins the bus.
LEMMA LeadsPast ==
  ASSUME NEW b \in Seq(Message), NEW m \in Message, ~Trades(m), NEW h, NEW pos \in Int, Leads(h, b, pos)
  PROVE  Leads(h, Append(b, m), pos)
  <1>1. Gain(m) = 0 /\ pos + 0 = pos
    BY GainType
  <1>q. QED BY <1>1, LeadsJoin

LEMMA LeadsDels ==
  ASSUME NEW b \in Seq(Message), NEW h, NEW pos, Leads(h, b, pos),
         NEW d \in Seq(Message), \A k \in DOMAIN d : d[k].kind = "del"
  PROVE  Leads(h, b \o d, pos)
  <1> DEFINE x == b \o d
             n == Len(b)
             e == Len(x)
  <1>1. PICK f \in [0..n -> Int] :
          /\ f[0] = h /\ f[n] = pos
          /\ \A k \in 1..n : f[k] = f[k - 1] + Gain(b[k])
          /\ \A j \in 0..n : (\A k \in (j + 1)..n : ~Trades(b[k])) => f[j] = pos
    BY DEF Leads
  <1>2. /\ n \in Nat /\ e \in Nat /\ e >= n
        /\ \A k \in 1..n : x[k] = b[k]
        /\ \A k \in (n + 1)..e : x[k].kind = "del"
    <2>1. \A k \in (n + 1)..e : k \in DOMAIN x /\ k \notin DOMAIN b
      BY ConcatCases
    <2>2. \A k \in DOMAIN x : k \in DOMAIN b \/ x[k].kind = "del"
      BY ConcatCases
    <2>q. QED BY <2>1, <2>2, ConcatCases
  <1>3. \A k \in (n + 1)..e : ~Trades(x[k]) /\ Gain(x[k]) = 0
    BY <1>2 DEF Trades, Gain
  <1>4. pos \in Int
    BY <1>1, <1>2
  <1> DEFINE g == [k \in 0..e |-> IF k > n THEN pos ELSE f[k]]
  <1>5. /\ g \in [0..e -> Int]
        /\ \A k \in 0..n : g[k] = f[k]
        /\ \A k \in n..e : g[k] = pos
    <2>1. ASSUME NEW k \in 0..e
          PROVE  (IF k > n THEN pos ELSE f[k]) \in Int
      <3>1. k > n \/ k \in 0..n
        BY <1>2
      <3>q. QED BY <1>1, <1>4, <3>1
    <2>2. \A k \in 0..n : k \in 0..e /\ ~(k > n)
      BY <1>2
    <2>3. \A k \in n..e : k \in 0..e /\ (k > n \/ k = n)
      BY <1>2
    <2>q. QED BY <1>1, <1>2, <2>1, <2>2, <2>3
  <1> HIDE DEF x, e, g
  <1>6. g[0] = h /\ g[e] = pos
    BY <1>1, <1>2, <1>5
  <1>7. \A k \in 1..e : g[k] = g[k - 1] + Gain(x[k])
    <2> SUFFICES ASSUME NEW k \in 1..e
                 PROVE  g[k] = g[k - 1] + Gain(x[k])
      OBVIOUS
    <2>1. CASE k \in 1..n
      <3>1. k \in 0..n /\ k - 1 \in 0..n
        BY <1>2, <2>1
      <3>q. QED BY <1>1, <1>2, <1>5, <2>1, <3>1
    <2>2. CASE k \in (n + 1)..e
      <3>1. k \in n..e /\ k - 1 \in n..e
        BY <1>2, <2>2
      <3>q. QED BY <1>3, <1>4, <1>5, <2>2, <3>1
    <2>q. QED BY <1>2, <2>1, <2>2
  <1>8. ASSUME NEW j \in 0..e, \A k \in (j + 1)..e : ~Trades(x[k])
        PROVE  g[j] = pos
    <2>1. CASE j \in n..e
      BY <1>5, <2>1
    <2>2. CASE j \in 0..n
      <3>1. \A k \in (j + 1)..n : k \in (j + 1)..e /\ k \in 1..n
        BY <1>2, <2>2
      <3>2. \A k \in (j + 1)..n : ~Trades(b[k])
        BY <1>2, <1>8, <3>1
      <3>q. QED BY <1>1, <1>5, <2>2, <3>2
    <2>q. QED BY <1>2, <2>1, <2>2
  <1>9. \E q \in [0..Len(x) -> Int] :
          /\ q[0] = h /\ q[Len(x)] = pos
          /\ \A k \in 1..Len(x) : q[k] = q[k - 1] + Gain(x[k])
          /\ \A j \in 0..Len(x) : (\A k \in (j + 1)..Len(x) : ~Trades(x[k])) => q[j] = pos
    BY <1>5, <1>6, <1>7, <1>8 DEF e
  <1>q. QED BY <1>9 DEF Leads, x

\* When no trade is on its way the two are the same.
LEMMA LeadsNowhere ==
  ASSUME NEW b \in Seq(Message), NEW h, NEW pos, Leads(h, b, pos), \A k \in DOMAIN b : ~Trades(b[k])
  PROVE  h = pos
  <1>1. Len(b) \in Nat /\ DOMAIN b = 1..Len(b)
    OBVIOUS
  <1>2. PICK f \in [0..Len(b) -> Int] :
          /\ f[0] = h
          /\ \A j \in 0..Len(b) : (\A k \in (j + 1)..Len(b) : ~Trades(b[k])) => f[j] = pos
    BY DEF Leads
  <1>3. 0 \in 0..Len(b) /\ \A k \in (0 + 1)..Len(b) : ~Trades(b[k])
    BY <1>1
  <1>q. QED BY <1>2, <1>3

-----------------------------------------------------------------------------
(* What the exchange does, in terms of the messages and of what rests *)

LEMMA ConcatAppend ==
  ASSUME NEW b \in Seq(Message), NEW m \in Message
  PROVE  /\ b \o <<m>> = Append(b, m)
         /\ b \o <<>> = b
         /\ \A n \in Message : b \o <<m, n>> = Append(Append(b, m), n)
  OBVIOUS

LEMMA FillMade ==
  ASSUME NEW i \in Ids, NEW v \in Nat, NEW r
  PROVE  /\ Fill(i, v, r) \in Message /\ Fill(i, v, r).id = i /\ Trades(Fill(i, v, r))
         /\ Gain(Fill(i, v, r)) = Direction(i) * v
  <1>1. /\ Fill(i, v, r) \in Message /\ Fill(i, v, r).id = i /\ Fill(i, v, r).volume = v
        /\ Trades(Fill(i, v, r))
    BY MessageMade DEF Fill, Trades
  <1>q. QED BY <1>1 DEF Gain

\* Bus x is bus b, and then only that order i is taken and trades.
Serves(i, b, x) ==
    /\ \A k \in DOMAIN b : k \in DOMAIN x /\ x[k] = b[k]
    /\ \A k \in DOMAIN x : \/ k \in DOMAIN b /\ x[k] = b[k]
                           \/ x[k].id = i /\ x[k].kind \in {"accepted", "fill", "filled"}

LEMMA ServesKeeps ==
  ASSUME NEW i, NEW b, NEW x, Serves(i, b, x)
  PROVE  /\ \A j : Unplaced(j, b) => Unplaced(j, x)
         /\ \A j : NoError(j, b) => NoError(j, x)
         /\ \A j : Untouched(j, b) => Untouched(j, x)
  <1>1. \A m : m.kind \in {"accepted", "fill", "filled"} =>
           \A j : ~Places(m, j) /\ m # Msg("add_error", j)
    BY DEF Places, Orders, Msg
  <1>q. QED BY <1>1 DEF Serves, Unplaced, NoError, Untouched

LEMMA Traded ==
  ASSUME NEW b, NEW l, NEW p, NEW o, Core(b, l, p, o), NEW i \in Ids, NEW v \in 1..l[i],
         NEW h, NEW pos, Leads(h, b, pos)
  PROVE  LET x == Append(b, Fill(i, v, l[i] - v))
             lx == [l EXCEPT ![i] = l[i] - v]
         IN  /\ Core(x, lx, p, o) /\ Leads(h, x, pos + Direction(i) * v)
             /\ Serves(i, b, x)
             /\ \A j \in Ids : Calm(j, b, l) => j # i /\ Calm(j, x, lx)
  <1> DEFINE m == Fill(i, v, l[i] - v)
             x == Append(b, m)
             lx == [l EXCEPT ![i] = l[i] - v]
  <1>1. b \in Seq(Message) /\ l \in [Ids -> Nat] /\ l[i] \in Nat /\ l[i] # 0 /\ v \in Nat
    BY DEF Core
  <1>2. /\ m \in Message /\ m.id = i /\ Trades(m) /\ Gain(m) = Direction(i) * v
    BY <1>1, FillMade
  <1>2a. m.kind \in {"fill", "filled"}
    BY <1>2 DEF Trades
  <1>3. Core(x, lx, p, o)
    BY CoreTrade
  <1> HIDE DEF m
  <1>4. Leads(h, x, pos + Direction(i) * v)
    BY <1>1, <1>2, LeadsJoin
  <1>5. Serves(i, b, x)
    BY <1>1, <1>2, <1>2a, AppendCases DEF Serves
  <1>6. ASSUME NEW j \in Ids, Calm(j, b, l)
        PROVE  j # i /\ Calm(j, x, lx)
    <2>1. l[j] = 0 /\ j # i
      BY <1>1, <1>6 DEF Calm
    <2>2. lx[j] = 0 /\ \A s \in Ids : l[s] = 0 => lx[s] = 0
      BY <1>1, <2>1
    <2>3. KeepsDead(b, l, lx)
      <3>1. \A k \in DOMAIN b : b[k].id \in Ids
        BY <1>1, MessageFields
      <3>q. QED BY <2>2, <3>1 DEF KeepsDead
    <2>4. m.id # j /\ m.kind # "move"
      BY <1>2, <1>2a, <2>1
    <2> HIDE DEF lx
    <2>5. Calm(j, Append(b, m), lx)
      BY <1>1, <1>2, <1>6, <2>2, <2>3, <2>4, CalmJoin
    <2>q. QED BY <2>1, <2>5
  <1>q. QED BY <1>3, <1>4, <1>5, <1>6 DEF m

\* The bus when order i of volume v has been taken and has traded or not
Taken(b, i, v, traded) ==
    b \o <<Msg("accepted", i)>>
      \o (IF traded = 0 THEN <<>> ELSE <<Fill(i, traded, v - traded)>>)

\* What rests then
Rests(l, i, v, traded) == [l EXCEPT ![i] = v - traded]

\* An order whose request has left the bus is taken, and trades at once or not.
LEMMA PlacedTraded ==
  ASSUME NEW b, NEW l, NEW p, NEW o, Core(b, l, p, o), NEW i \in Ids, i \in p,
         \A k \in DOMAIN b : ~Places(b[k], i) /\ (b[k].id = i => b[k].kind = "del"),
         NEW v \in Nat, NEW traded \in 0..v,
         NEW h, NEW pos \in Int, Leads(h, b, pos)
  PROVE  /\ Core(Taken(b, i, v, traded), Rests(l, i, v, traded), p, o)
         /\ Leads(h, Taken(b, i, v, traded), pos + Direction(i) * traded)
         /\ Serves(i, b, Taken(b, i, v, traded)) /\ Unplaced(i, Taken(b, i, v, traded))
         /\ \A j \in Ids \ {i} :
               Calm(j, b, l) => Calm(j, Taken(b, i, v, traded), Rests(l, i, v, traded))
  <1> DEFINE x == Taken(b, i, v, traded)
             lx == Rests(l, i, v, traded)
  <1>a. /\ x = b \o <<Msg("accepted", i)>>
                  \o (IF traded = 0 THEN <<>> ELSE <<Fill(i, traded, v - traded)>>)
        /\ lx = [l EXCEPT ![i] = v - traded]
    BY DEF Taken, Rests
  <1> HIDE DEF x, lx
  <1> SUFFICES /\ Core(x, lx, p, o)
               /\ Leads(h, x, pos + Direction(i) * traded)
               /\ Serves(i, b, x) /\ Unplaced(i, x)
               /\ \A j \in Ids \ {i} : Calm(j, b, l) => Calm(j, x, lx)
    BY DEF x, lx
  <1> DEFINE m == Msg("accepted", i)
             y == Append(b, m)
             ly == [l EXCEPT ![i] = v]
  <1>1. /\ b \in Seq(Message) /\ l \in [Ids -> Nat]
        /\ m \in Message /\ m.id = i /\ m.kind = "accepted"
    BY MessageMade DEF Core
  <1>2. Core(y, ly, p, o)
    BY CorePlace
  <1>3. y \in Seq(Message) /\ ly \in [Ids -> Nat] /\ ly[i] = v /\ \A j \in Ids \ {i} : ly[j] = l[j]
    BY <1>1, <1>2 DEF Core
  <1>4. b \o <<m>> = y
    BY <1>1, ConcatAppend
  <1> HIDE DEF m, y
  <1>5. Leads(h, y, pos)
    BY <1>1, LeadsPast DEF Trades, y
  <1>6. Serves(i, b, y)
    BY <1>1, AppendCases DEF Serves, y
  <1>7. Unplaced(i, y)
    <2>1. Unplaced(i, b)
      BY DEF Unplaced
    <2>q. QED BY <1>6, <2>1, ServesKeeps
  <1>8. ASSUME NEW j \in Ids \ {i}, Calm(j, b, l)
        PROVE  Calm(j, y, ly)
    <2>1. ly[j] = 0
      BY <1>3, <1>8 DEF Calm
    <2>2. KeepsDead(b, l, ly)
      <3>1. \A k \in DOMAIN b : b[k].id \in Ids
        BY <1>1, MessageFields
      <3>q. QED BY <1>3, <3>1 DEF KeepsDead
    <2> HIDE DEF ly
    <2>q. QED BY <1>1, <1>8, <2>1, <2>2, CalmJoin DEF y
  <1>9. CASE traded = 0
    <2>1. x = y /\ lx = ly
      <3>1. y \o <<>> = y
        BY <1>3
      <3>2. x = y
        BY <1>a, <1>4, <1>9, <3>1 DEF m
      <3>3. v - traded = v
        BY <1>9
      <3>q. QED BY <1>a, <3>2, <3>3
    <2>2. Direction(i) * traded = 0 /\ pos + 0 = pos
      BY <1>9, DirectionType
    <2>q. QED BY <1>2, <1>5, <1>6, <1>7, <1>8, <2>1, <2>2
  <1>10. CASE traded # 0
    <2>1. traded \in 1..ly[i] /\ traded \in Nat
      BY <1>3, <1>10
    <2>2. Fill(i, traded, v - traded) \in Message
      BY <2>1, FillMade
    <2>3. x = Append(y, Fill(i, traded, ly[i] - traded)) /\ lx = [ly EXCEPT ![i] = ly[i] - traded]
      <3>1. x = y \o <<Fill(i, traded, v - traded)>>
        BY <1>a, <1>4, <1>10 DEF m
      <3>2. y \o <<Fill(i, traded, v - traded)>> = Append(y, Fill(i, traded, v - traded))
        BY <1>3, <2>2, ConcatAppend
      <3>3. lx = [ly EXCEPT ![i] = ly[i] - traded]
        BY <1>a, <1>1, <1>3
      <3>q. QED BY <1>3, <3>1, <3>2, <3>3
    <2> HIDE DEF ly
    <2>4. /\ Core(x, lx, p, o) /\ Leads(h, x, pos + Direction(i) * traded)
          /\ Serves(i, y, x)
          /\ \A j \in Ids : Calm(j, y, ly) => Calm(j, x, lx)
      <3> DEFINE z == Append(y, Fill(i, traded, ly[i] - traded))
                 lz == [ly EXCEPT ![i] = ly[i] - traded]
      <3>1. /\ Core(z, lz, p, o) /\ Leads(h, z, pos + Direction(i) * traded)
            /\ Serves(i, y, z)
            /\ \A j \in Ids : Calm(j, y, ly) => Calm(j, z, lz)
        BY <1>2, <1>5, <2>1, Traded
      <3> HIDE DEF z, lz
      <3>2. x = z /\ lx = lz
        BY <2>3 DEF z, lz
      <3>q. QED BY <3>1, <3>2
    <2>5. Serves(i, b, x)
      BY <1>6, <2>4 DEF Serves
    <2>6. Unplaced(i, x)
      BY <1>7, <2>4, ServesKeeps
    <2>q. QED BY <1>8, <2>4, <2>5, <2>6
  <1>q. QED BY <1>9, <1>10

\* A request that places order i leaves the bus.
LEMMA RequestTaken ==
  ASSUME NEW b, NEW l, NEW p, NEW o, Core(b, l, p, o), b # <<>>, NEW i \in Ids, Places(b[1], i)
  PROVE  /\ i \in p /\ l[i] = 0
         /\ \A k \in DOMAIN Tail(b) :
               ~Places(Tail(b)[k], i) /\ (Tail(b)[k].id = i => Tail(b)[k].kind = "del")
         /\ \A k \in DOMAIN b : b[k].kind = "move" => b[k].id # i
  <1>1. b \in Seq(Message) /\ PlacedOnce(b, l, p, o) /\ Moves(b)
    BY DEF Core
  <1>2. /\ 1 \in DOMAIN b
        /\ \A k \in DOMAIN Tail(b) : k + 1 \in DOMAIN b /\ Tail(b)[k] = b[k + 1] /\ k + 1 # 1
    BY <1>1, TailBus
  <1>3. /\ i \in p /\ l[i] = 0
        /\ \A n \in DOMAIN b : n # 1 => ~Places(b[n], i) /\ (b[n].id = i => b[n].kind = "del")
    BY <1>1, <1>2 DEF PlacedOnce
  <1>4. b[1].kind = "move" => b[1].id # i
    BY <1>1, <1>2 DEF Places, Orders, Moves
  <1>q. QED BY <1>2, <1>3, <1>4

\* A message leaves the bus: what held of all messages still does.
LEMMA KeptByTail ==
  ASSUME NEW b \in Seq(Message), b # <<>>, NEW i
  PROVE  /\ Unplaced(i, b) => Unplaced(i, Tail(b))
         /\ NoError(i, b) => NoError(i, Tail(b))
         /\ Untouched(i, b) => Untouched(i, Tail(b))
  <1>1. \A k \in DOMAIN Tail(b) : k + 1 \in DOMAIN b /\ Tail(b)[k] = b[k + 1]
    BY TailBus
  <1>q. QED BY <1>1 DEF Unplaced, NoError, Untouched

LEMMA OppositeTail ==
  ASSUME NEW b \in Seq(Message), b # <<>>, NEW i, NEW l, NEW pos, Opposite(i, b, l, pos),
         b[1].id = i => b[1].kind \notin Orders
  PROVE  Opposite(i, Tail(b), l, pos)
  <1>1. CASE Unplaced(i, b) /\ pos + Direction(i) * l[i] = 0
    BY <1>1, KeptByTail DEF Opposite
  <1>2. CASE \E k \in DOMAIN b : /\ b[k].kind \in Orders /\ b[k].id = i
                                 /\ pos + Direction(i) * b[k].volume = 0
    <2>1. PICK k \in DOMAIN b : /\ b[k].kind \in Orders /\ b[k].id = i
                                /\ pos + Direction(i) * b[k].volume = 0
      BY <1>2
    <2>2. k - 1 \in DOMAIN Tail(b) /\ Tail(b)[k - 1] = b[k]
      <3>1. k # 1
        BY <2>1
      <3>q. QED BY <3>1, TailBus
    <2>q. QED BY <2>1, <2>2 DEF Opposite
  <1>q. QED BY <1>1, <1>2 DEF Opposite

LEMMA OppositeJoin ==
  ASSUME NEW b \in Seq(Message), NEW m \in Message, NEW i, NEW l, NEW pos, Opposite(i, b, l, pos),
         ~Places(m, i)
  PROVE  Opposite(i, Append(b, m), l, pos)
  BY AppendCases DEF Opposite, Unplaced

-----------------------------------------------------------------------------
(* The actions of the exchange *)

\* What is so before an action of the exchange ...
Known1 == Core(bus, live, pendings, open) /\ Leads(held, bus, position)

\* ... and what it leaves.
Exchanges ==
    /\ Core(bus', live', pendings, open) /\ Leads(held, bus', position')
    /\ \A j \in Ids : Calm(j, bus, live) => Calm(j, bus', live')
    /\ \A j \in Ids : Unplaced(j, bus) /\ NoError(j, bus) => Unplaced(j, bus') /\ NoError(j, bus')
    /\ \A i \in Ids :
          /\ \A j \in Ids \ {i} : Calm(j, bus, live)
          /\ Untouched(i, bus) /\ Opposite(i, bus, live, position)
          => Untouched(i, bus') /\ Opposite(i, bus', live', position')
    /\ (\A j \in Ids : Calm(j, bus, live)) => position' = position

LEMMA LeadsType ==
  ASSUME NEW b \in Seq(Message), NEW h, NEW pos, Leads(h, b, pos)
  PROVE  h \in Int /\ pos \in Int
  BY DEF Leads

LEMMA BusFacts ==
  ASSUME Known1
  PROVE  /\ bus \in Seq(Message) /\ live \in [Ids -> Nat] /\ position \in Int
         /\ pendings \subseteq Ids /\ open \subseteq Ids
         /\ PlacedOnce(bus, live, pendings, open) /\ Moves(bus)
  BY LeadsType DEF Known1, Core

\* A request that leaves the bus is no trade.
LEMMA LeadsRequest ==
  ASSUME NEW b \in Seq(Message), b # <<>>, NEW h, NEW pos, Leads(h, b, pos), ~Trades(b[1])
  PROVE  Leads(h, Tail(b), pos)
  <1>1. h \in Int /\ Gain(b[1]) = 0 /\ h + 0 = h
    BY LeadsType, GainType, TailBus
  <1>q. QED BY <1>1, LeadsTail

LEMMA AddExchanges ==
  ASSUME Known1, AddArrives
  PROVE  Exchanges
  <1> DEFINE m == bus[1]
             i == m.id
             t == Tail(bus)
  <1>1. /\ bus \in Seq(Message) /\ live \in [Ids -> Nat] /\ position \in Int
        /\ PlacedOnce(bus, live, pendings, open)
        /\ Core(bus, live, pendings, open) /\ Leads(held, bus, position)
    BY BusFacts DEF Known1
  <1>2. bus # <<>> /\ Head(bus).kind \in {"add", "market"}
    BY DEF AddArrives, Arrives
  <1>3. /\ t \in Seq(Message) /\ Head(bus) = m /\ m \in Message /\ 1 \in DOMAIN bus
        /\ \A k \in DOMAIN t : k + 1 \in DOMAIN bus /\ t[k] = bus[k + 1]
    BY <1>1, <1>2, TailBus
  <1>4. /\ m.kind \in Orders /\ m.kind # "del" /\ i \in Ids /\ m.volume \in Nat /\ Places(m, i) /\ ~Trades(m)
    BY <1>2, <1>3, MessageFields DEF Orders, Places, Trades
  <1>5. /\ i \in pendings /\ live[i] = 0
        /\ \A k \in DOMAIN t : ~Places(t[k], i) /\ (t[k].id = i => t[k].kind = "del")
        /\ \A k \in DOMAIN bus : bus[k].kind = "move" => bus[k].id # i
    BY <1>1, <1>2, <1>4, RequestTaken
  <1>6. Core(t, live, pendings, open) /\ Leads(held, t, position)
    BY <1>1, <1>2, <1>4, CoreDrop, LeadsRequest
  <1>7. \A j \in Ids : Calm(j, bus, live) => j # i
    BY <1>3, <1>4 DEF Calm
  <1>8. ASSUME NEW j \in Ids, Calm(j, bus, live)
        PROVE  Calm(j, t, live)
    <2>1. live[j] = 0 /\ KeepsDead(bus, live, live)
      BY <1>8 DEF Calm, KeepsDead
    <2>q. QED BY <1>1, <1>2, <1>4, <1>8, <2>1, CalmDrop
  <1>9. (\A j \in Ids : Calm(j, bus, live)) => FALSE
    BY <1>4, <1>7
  <1>10. ASSUME NEW c \in Ids, \A j \in Ids \ {c} : Calm(j, bus, live),
                Untouched(c, bus), Opposite(c, bus, live, position)
         PROVE  /\ c = i /\ Untouched(i, t)
                /\ position + Direction(i) * m.volume = 0
                /\ ~Refusable(i)
    <2>1. c = i
      BY <1>4, <1>7, <1>10
    <2>2. Untouched(i, t)
      BY <1>1, <1>2, <1>10, <2>1, KeptByTail
    <2>3. ~Unplaced(i, bus)
      BY <1>3, <1>4 DEF Unplaced
    <2>4. PICK k \in DOMAIN bus : /\ bus[k].kind \in Orders /\ bus[k].id = i
                                  /\ position + Direction(i) * bus[k].volume = 0
      BY <1>10, <2>1, <2>3 DEF Opposite
    <2>5. k = 1
      <3>1. Places(bus[k], i)
        BY <2>4 DEF Places
      <3>q. QED BY <1>1, <1>3, <1>4, <2>4, <3>1 DEF PlacedOnce
    <2>6. ~Refusable(i)
      <3>1. \A j \in Ids : live[j] = 0
        BY <1>5, <1>10, <2>1 DEF Calm
      <3>q. QED BY <3>1 DEF Refusable
    <2>q. QED BY <2>1, <2>2, <2>4, <2>5, <2>6
  <1>11. CASE \E traded \in 0..m.volume : Placed(i, m.volume, traded, <<>>)
    <2>1. PICK traded \in 0..m.volume : Placed(i, m.volume, traded, <<>>)
      BY <1>11
    <2>2. /\ live' = [live EXCEPT ![i] = m.volume - traded]
          /\ position' = position + Direction(i) * traded
          /\ bus' = t \o <<Msg("accepted", i)>>
                      \o (IF traded = 0 THEN <<>> ELSE <<Fill(i, traded, m.volume - traded)>>)
      <3>1. t \o <<>> = t
        BY <1>3
      <3>q. QED BY <2>1, <3>1 DEF Placed
    <2>3. live'[i] = m.volume - traded
      BY <1>1, <1>4, <2>2
    <2> DEFINE x == Taken(t, i, m.volume, traded)
               lx == Rests(live, i, m.volume, traded)
    <2>4. /\ Core(bus', live', pendings, open) /\ Leads(held, bus', position + Direction(i) * traded)
          /\ Serves(i, t, bus') /\ Unplaced(i, bus')
          /\ \A j \in Ids \ {i} : Calm(j, t, live) => Calm(j, bus', live')
      <3>1. bus' = x /\ live' = lx
        BY <2>2 DEF Taken, Rests
      <3>2. /\ Core(x, lx, pendings, open) /\ Leads(held, x, position + Direction(i) * traded)
            /\ Serves(i, t, x) /\ Unplaced(i, x)
            /\ \A j \in Ids \ {i} : Calm(j, t, live) => Calm(j, x, lx)
        BY <1>1, <1>4, <1>5, <1>6, PlacedTraded
      <3> HIDE DEF x, lx, t
      <3>q. QED BY <3>1, <3>2
    <2> HIDE DEF t, m
    <2>5. \A j \in Ids : Calm(j, bus, live) => Calm(j, bus', live')
      BY <1>7, <1>8, <2>4
    <2>6. \A j \in Ids : Unplaced(j, bus) /\ NoError(j, bus) => Unplaced(j, bus') /\ NoError(j, bus')
      BY <1>1, <1>2, <2>4, KeptByTail, ServesKeeps DEF t
    <2>7. ASSUME NEW c \in Ids, \A j \in Ids \ {c} : Calm(j, bus, live),
                 Untouched(c, bus), Opposite(c, bus, live, position)
          PROVE  Untouched(c, bus') /\ Opposite(c, bus', live', position')
      <3>1. c = i /\ Untouched(i, t) /\ position + Direction(i) * m.volume = 0
        BY <1>10, <2>7
      <3>2. position' + Direction(i) * live'[i] = 0
        <4>1. CASE Direction(i) = 1
          BY <1>1, <1>4, <2>1, <2>2, <2>3, <3>1, <4>1
        <4>2. CASE Direction(i) = -1
          BY <1>1, <1>4, <2>1, <2>2, <2>3, <3>1, <4>2
        <4>q. QED BY <1>4, <4>1, <4>2, DirectionType
      <3>q. QED BY <2>4, <3>1, <3>2, ServesKeeps DEF Opposite
    <2>q. QED BY <1>9, <2>2, <2>4, <2>5, <2>6, <2>7 DEF Exchanges
  <1>12. CASE /\ Refusable(i)
              /\ bus' = Append(t, Msg("add_error", i))
              /\ UNCHANGED <<live, position>>
    <2>1. Unplaced(i, t)
      BY <1>5 DEF Unplaced
    <2>2. /\ Msg("add_error", i) \in Message /\ Msg("add_error", i).kind = "add_error"
          /\ Msg("add_error", i).id = i
      BY <1>4, MessageMade
    <2>3. [live EXCEPT ![i] = 0] = live
      BY <1>1, <1>4, <1>5
    <2>4. Core(bus', live', pendings, open)
      <3>1. Core(Append(t, Msg("add_error", i)), [live EXCEPT ![i] = 0], pendings, open)
        BY <1>4, <1>6, <2>1, CoreEnd
      <3>q. QED BY <1>12, <2>3, <3>1
    <2> HIDE DEF t, m
    <2>5. Leads(held, bus', position')
      BY <1>1, <1>3, <1>6, <1>12, <2>2, LeadsPast DEF Trades
    <2>6. ASSUME NEW j \in Ids, Calm(j, bus, live)
          PROVE  Calm(j, bus', live')
      <3>1. live[j] = 0 /\ KeepsDead(t, live, live)
        BY <2>6 DEF Calm, KeepsDead
      <3>2. Calm(j, Append(t, Msg("add_error", i)), live)
        BY <1>3, <1>7, <1>8, <2>2, <2>6, <3>1, CalmJoin DEF Orders
      <3>q. QED BY <1>12, <3>2
    <2>7. ASSUME NEW j \in Ids, Unplaced(j, bus), NoError(j, bus)
          PROVE  Unplaced(j, bus') /\ NoError(j, bus')
      <3>1. Unplaced(j, t) /\ NoError(j, t)
        BY <1>1, <1>2, <2>7, KeptByTail DEF t
      <3>2. j # i
        BY <1>3, <1>4, <2>7 DEF Unplaced, m
      <3>3. ~Places(Msg("add_error", i), j) /\ Msg("add_error", i) # Msg("add_error", j)
        BY <2>2, <3>2 DEF Places, Orders, Msg
      <3>q. QED BY <1>3, <1>12, <2>2, <3>1, <3>3, AppendCases DEF Unplaced, NoError
    <2>q. QED BY <1>9, <1>10, <1>12, <2>4, <2>5, <2>6, <2>7 DEF Exchanges
  <1>q. QED BY <1>3, <1>11, <1>12 DEF AddArrives

LEMMA DelExchanges ==
  ASSUME Known1, DelArrives
  PROVE  Exchanges
  <1> DEFINE m == bus[1]
             i == m.id
             t == Tail(bus)
             kind == IF live[i] > 0 THEN "cancelled" ELSE "del_error"
             a == Msg(kind, i)
  <1>1. /\ bus \in Seq(Message) /\ live \in [Ids -> Nat] /\ position \in Int
        /\ PlacedOnce(bus, live, pendings, open)
        /\ Core(bus, live, pendings, open) /\ Leads(held, bus, position)
    BY BusFacts DEF Known1
  <1>2. bus # <<>> /\ Head(bus).kind = "del"
    BY DEF DelArrives, Arrives
  <1>3. /\ t \in Seq(Message) /\ Head(bus) = m /\ m \in Message /\ 1 \in DOMAIN bus
        /\ \A k \in DOMAIN t : k \in Int /\ k + 1 \in DOMAIN bus /\ t[k] = bus[k + 1] /\ k > 0
    BY <1>1, <1>2, TailBus
  <1>4. m.kind = "del" /\ i \in Ids /\ ~Trades(m) /\ m.kind \notin Orders
    BY <1>2, <1>3, MessageFields DEF Trades, Orders
  <1>5. /\ bus' = Append(t, a) /\ live' = [live EXCEPT ![i] = 0] /\ position' = position
        /\ a \in Message /\ a.id = i /\ a.kind \in {"cancelled", "del_error"}
    BY <1>3, <1>4, MessageMade DEF DelArrives
  <1>6. /\ a.kind \notin Orders /\ ~Trades(a) /\ a.kind # "move"
        /\ \A j : ~Places(a, j) /\ a # Msg("add_error", j)
    BY <1>5 DEF Orders, Trades, Places, Msg
  <1>7. Core(t, live, pendings, open) /\ Leads(held, t, position)
    BY <1>1, <1>2, <1>3, <1>4, CoreDrop, LeadsRequest
  <1>8. Unplaced(i, t)
    <2> SUFFICES ASSUME NEW k \in DOMAIN t, Places(t[k], i)
                 PROVE  FALSE
      BY DEF Unplaced
    <2>1. k + 1 \in DOMAIN bus /\ Places(bus[k + 1], i) /\ 1 # k + 1 /\ ~(1 > k + 1)
      BY <1>3
    <2>q. QED BY <1>1, <1>3, <1>4, <2>1 DEF PlacedOnce
  <1>9. Core(bus', live', pendings, open)
    <2>1. kind \in {"cancelled", "del_error", "add_error"}
      OBVIOUS
    <2>2. Core(Append(t, Msg(kind, i)), [live EXCEPT ![i] = 0], pendings, open)
      BY <1>4, <1>7, <1>8, <2>1, CoreEnd
    <2>q. QED BY <1>5, <2>2
  <1>11. live' \in [Ids -> Nat] /\ live'[i] = 0 /\ \A j \in Ids : j # i => live'[j] = live[j]
    BY <1>1, <1>4, <1>5
  <1> HIDE DEF t, m, a
  <1>10. Leads(held, bus', position')
    BY <1>1, <1>3, <1>5, <1>6, <1>7, LeadsPast
  <1>12. ASSUME NEW j \in Ids, Calm(j, bus, live)
         PROVE  Calm(j, bus', live')
    <2>1. live'[j] = 0 /\ \A s \in Ids : live[s] = 0 => live'[s] = 0
      BY <1>11, <1>12 DEF Calm
    <2>2. KeepsDead(bus, live, live')
      <3>1. \A k \in DOMAIN bus : bus[k].id \in Ids
        BY <1>1, MessageFields
      <3>q. QED BY <2>1, <3>1 DEF KeepsDead
    <2>3. Calm(j, t, live')
      BY <1>1, <1>2, <1>11, <1>12, <2>1, <2>2, CalmDrop DEF t, m
    <2>4. KeepsDead(t, live', live')
      BY DEF KeepsDead
    <2>5. Calm(j, Append(t, a), live')
      BY <1>3, <1>5, <1>6, <2>1, <2>3, <2>4, CalmJoin
    <2>q. QED BY <1>5, <2>5
  <1>13. ASSUME NEW j \in Ids, Unplaced(j, bus), NoError(j, bus)
         PROVE  Unplaced(j, bus') /\ NoError(j, bus')
    <2>1. Unplaced(j, t) /\ NoError(j, t)
      BY <1>1, <1>2, <1>13, KeptByTail DEF t
    <2>q. QED BY <1>3, <1>5, <1>6, <2>1, AppendCases DEF Unplaced, NoError
  <1>14. ASSUME NEW c \in Ids, \A j \in Ids \ {c} : Calm(j, bus, live),
                Untouched(c, bus), Opposite(c, bus, live, position)
         PROVE  Untouched(c, bus') /\ Opposite(c, bus', live', position')
    <2>1. i # c
      BY <1>3, <1>4, <1>14 DEF Untouched, Orders, m
    <2>2. live' = live
      BY <1>1, <1>4, <1>5, <1>14, <2>1 DEF Calm
    <2>3. Untouched(c, t) /\ Opposite(c, t, live, position)
      BY <1>1, <1>2, <1>4, <1>14, KeptByTail, OppositeTail DEF t, m
    <2>4. Opposite(c, Append(t, a), live, position)
      BY <1>3, <1>5, <1>6, <2>3, OppositeJoin
    <2>5. Untouched(c, Append(t, a))
      BY <1>3, <1>5, <2>1, <2>3, AppendCases DEF Untouched
    <2>q. QED BY <1>5, <2>2, <2>4, <2>5
  <1>q. QED BY <1>5, <1>9, <1>10, <1>12, <1>13, <1>14 DEF Exchanges

LEMMA DealExchanges ==
  ASSUME Known1, Deal
  PROVE  Exchanges
  <1>1. /\ bus \in Seq(Message) /\ live \in [Ids -> Nat] /\ position \in Int
        /\ PlacedOnce(bus, live, pendings, open)
        /\ Core(bus, live, pendings, open) /\ Leads(held, bus, position)
    BY BusFacts DEF Known1
  <1>2a. PICK i \in Ids : \E v \in 1..live[i] :
          /\ live' = [live EXCEPT ![i] = @ - v]
          /\ position' = position + Direction(i) * v
          /\ bus' = Append(bus, Fill(i, v, live[i] - v))
    BY DEF Deal
  <1>2. PICK v \in 1..live[i] :
          /\ live' = [live EXCEPT ![i] = @ - v]
          /\ position' = position + Direction(i) * v
          /\ bus' = Append(bus, Fill(i, v, live[i] - v))
    BY <1>2a
  <1>3. live' = [live EXCEPT ![i] = live[i] - v] /\ live[i] \in Nat /\ v \in Nat /\ live[i] > 0
    BY <1>1, <1>2
  <1>4. live'[i] = live[i] - v
    BY <1>1, <1>3
  <1>5. /\ Core(bus', live', pendings, open) /\ Leads(held, bus', position')
        /\ Serves(i, bus, bus')
        /\ \A j \in Ids : Calm(j, bus, live) => j # i /\ Calm(j, bus', live')
    <2> DEFINE x == Append(bus, Fill(i, v, live[i] - v))
               lx == [live EXCEPT ![i] = live[i] - v]
    <2>1. /\ Core(x, lx, pendings, open) /\ Leads(held, x, position + Direction(i) * v)
          /\ Serves(i, bus, x)
          /\ \A j \in Ids : Calm(j, bus, live) => j # i /\ Calm(j, x, lx)
      BY <1>1, Traded
    <2>2. bus' = x /\ live' = lx
      BY <1>2, <1>3
    <2> HIDE DEF x, lx
    <2>q. QED BY <1>2, <2>1, <2>2
  <1>6. \A j \in Ids : Unplaced(j, bus) /\ NoError(j, bus) => Unplaced(j, bus') /\ NoError(j, bus')
    BY <1>5, ServesKeeps
  <1>7. ASSUME NEW c \in Ids, \A j \in Ids \ {c} : Calm(j, bus, live),
               Untouched(c, bus), Opposite(c, bus, live, position)
        PROVE  Untouched(c, bus') /\ Opposite(c, bus', live', position')
    <2>1. c = i
      BY <1>5, <1>7
    <2>2. Unplaced(i, bus)
      BY <1>1, <1>3 DEF Unplaced, PlacedOnce
    <2>3. position + Direction(i) * live[i] = 0
      <3>1. ~ \E k \in DOMAIN bus : bus[k].kind \in Orders /\ bus[k].id = i
        BY <2>2 DEF Unplaced, Places
      <3>q. QED BY <1>7, <2>1, <3>1 DEF Opposite
    <2>4. position' + Direction(i) * live'[i] = 0
      <3>1. CASE Direction(i) = 1
        BY <1>1, <1>2, <1>3, <1>4, <2>3, <3>1
      <3>2. CASE Direction(i) = -1
        BY <1>1, <1>2, <1>3, <1>4, <2>3, <3>2
      <3>q. QED BY <3>1, <3>2, DirectionType
    <2>q. QED BY <1>5, <1>7, <2>1, <2>2, <2>4, ServesKeeps DEF Opposite
  <1>8. ~ \A j \in Ids : Calm(j, bus, live)
    BY <1>5
  <1>q. QED BY <1>5, <1>6, <1>7, <1>8 DEF Exchanges

LEMMA MoveExchanges ==
  ASSUME Known1, MoveArrives
  PROVE  Exchanges
  <1> DEFINE m == bus[1]
             s == m.id
             i == m.to
             t == Tail(bus)
             gone == Msg("cancelled", s)
             old == [live EXCEPT ![s] = 0]
             b == Append(t, gone)
  <1>1. /\ bus \in Seq(Message) /\ live \in [Ids -> Nat] /\ position \in Int
        /\ PlacedOnce(bus, live, pendings, open) /\ Moves(bus)
        /\ Core(bus, live, pendings, open) /\ Leads(held, bus, position)
    BY BusFacts DEF Known1
  <1>2. bus # <<>> /\ Head(bus).kind = "move"
    BY DEF MoveArrives, Arrives
  <1>3. /\ t \in Seq(Message) /\ Head(bus) = m /\ m \in Message /\ 1 \in DOMAIN bus
        /\ \A k \in DOMAIN t : k + 1 \in DOMAIN bus /\ t[k] = bus[k + 1]
        /\ \A n \in DOMAIN bus : ~(n < 1)
    BY <1>1, <1>2, TailBus
  <1>4. /\ m.kind = "move" /\ s \in Ids /\ i \in Ids /\ s # i /\ Places(m, i) /\ ~Places(m, s)
        /\ ~Trades(m) /\ m.kind \notin Orders
    BY <1>1, <1>2, <1>3, MessageFields DEF Trades, Orders, Places, Moves
  <1>5. /\ i \in pendings /\ live[i] = 0
        /\ \A k \in DOMAIN t : ~Places(t[k], i) /\ (t[k].id = i => t[k].kind = "del")
        /\ \A k \in DOMAIN bus : bus[k].kind = "move" => bus[k].id # i
    BY <1>1, <1>2, <1>4, RequestTaken
  <1>6. Core(t, live, pendings, open) /\ Leads(held, t, position)
    BY <1>1, <1>2, <1>4, CoreDrop, LeadsRequest
  <1>7. Unplaced(s, t)
    <2>1. Unplaced(s, bus)
      BY <1>1, <1>3, <1>4 DEF Unplaced, PlacedOnce
    <2>q. QED BY <1>1, <1>2, <2>1, KeptByTail
  <1>8. \A j \in Ids : Unplaced(j, bus) /\ NoError(j, bus) => j # i /\ Unplaced(j, t) /\ NoError(j, t)
    <2>1. \A j \in Ids : Unplaced(j, bus) => j # i
      BY <1>3, <1>4 DEF Unplaced
    <2>q. QED BY <1>1, <1>2, <2>1, KeptByTail
  <1>9. CASE live[s] = 0 /\ bus' = t /\ UNCHANGED <<live, position>>
    <2>1. ASSUME NEW j \in Ids, Calm(j, bus, live)
          PROVE  Calm(j, t, live)
      <3>1. live[j] = 0 /\ KeepsDead(bus, live, live)
        BY <2>1 DEF Calm, KeepsDead
      <3>q. QED BY <1>1, <1>2, <1>4, <2>1, <3>1, CalmDrop
    <2>2. \A c \in Ids : Untouched(c, bus) /\ Opposite(c, bus, live, position)
                           => Untouched(c, t) /\ Opposite(c, t, live, position)
      BY <1>1, <1>2, <1>4, KeptByTail, OppositeTail
    <2> HIDE DEF t
    <2>q. QED BY <1>6, <1>8, <1>9, <2>1, <2>2 DEF Exchanges
  <1>10. ASSUME live[s] > 0
         PROVE  /\ \A j \in Ids : Calm(j, bus, live) => j # s /\ j # i
                /\ \A c \in Ids : ~ /\ \A j \in Ids \ {c} : Calm(j, bus, live)
                                    /\ Untouched(c, bus)
                /\ ~ \A j \in Ids : Calm(j, bus, live)
    <2>1. \A j \in Ids : Calm(j, bus, live) => j # s
      BY <1>10 DEF Calm
    <2>2. \A j \in Ids : Calm(j, bus, live) => j # i
      BY <1>1, <1>3, <1>4, <1>10 DEF Calm, Dead
    <2>3. \A c \in Ids : Untouched(c, bus) => c # s
      BY <1>3, <1>4 DEF Untouched, Orders
    <2>q. QED BY <1>4, <2>1, <2>2, <2>3
  <1>11. /\ gone \in Message /\ gone.id = s /\ gone.kind = "cancelled" /\ ~Trades(gone)
         /\ \A j : ~Places(gone, j) /\ gone # Msg("add_error", j)
    BY <1>4, MessageMade DEF Trades, Places, Orders, Msg
  <1>12. /\ b \in Seq(Message)
         /\ \A k \in DOMAIN b : b[k] = gone \/ (k \in DOMAIN t /\ b[k] = t[k])
    BY <1>3, <1>11, AppendCases
  <1>13. Core(b, old, pendings, open) /\ Leads(held, b, position)
    <2>1. Core(b, old, pendings, open)
      BY <1>4, <1>6, <1>7, CoreEnd
    <2>2. Leads(held, b, position)
      BY <1>1, <1>3, <1>6, <1>11, LeadsPast
    <2>q. QED BY <2>1, <2>2
  <1>14. ASSUME NEW j \in Ids, Calm(j, bus, live)
         PROVE  Calm(j, b, old)
    <2>1. old[j] = 0 /\ \A k \in Ids : live[k] = 0 => old[k] = 0
      BY <1>1, <1>4, <1>14 DEF Calm
    <2>2. KeepsDead(bus, live, old)
      <3>1. \A k \in DOMAIN bus : bus[k].id \in Ids
        BY <1>1, MessageFields
      <3>q. QED BY <2>1, <3>1 DEF KeepsDead
    <2> HIDE DEF old
    <2>3. Calm(j, t, old)
      BY <1>1, <1>2, <1>4, <1>14, <2>1, <2>2, CalmDrop
    <2>4. KeepsDead(t, old, old)
      BY DEF KeepsDead
    <2> HIDE DEF gone, t
    <2>q. QED BY <1>3, <1>11, <2>1, <2>3, <2>4, CalmJoin DEF Orders
  <1>15. \A j \in Ids : Unplaced(j, bus) /\ NoError(j, bus) => j # i /\ Unplaced(j, b) /\ NoError(j, b)
    <2> HIDE DEF b, gone
    <2>q. QED BY <1>8, <1>11, <1>12 DEF Unplaced, NoError
  <1>16. CASE \E traded \in 0..live[s] :
                /\ live[s] > 0
                /\ live' = [old EXCEPT ![i] = live[s] - traded]
                /\ position' = position + Direction(i) * traded
                /\ bus' = t \o <<gone, Msg("accepted", i)>>
                             \o (IF traded = 0 THEN <<>> ELSE <<Fill(i, traded, live[s] - traded)>>)
    <2>1. PICK traded \in 0..live[s] :
                /\ live[s] > 0
                /\ live' = [old EXCEPT ![i] = live[s] - traded]
                /\ position' = position + Direction(i) * traded
                /\ bus' = t \o <<gone, Msg("accepted", i)>>
                             \o (IF traded = 0 THEN <<>> ELSE <<Fill(i, traded, live[s] - traded)>>)
      BY <1>16
    <2> DEFINE x == Taken(b, i, live[s], traded)
               lx == Rests(old, i, live[s], traded)
    <2>2. bus' = x /\ live' = lx
      <3>1. t \o <<gone, Msg("accepted", i)>> = b \o <<Msg("accepted", i)>>
        <4>1. Msg("accepted", i) \in Message
          BY <1>4, MessageMade
        <4>2. t \o <<gone, Msg("accepted", i)>> = Append(b, Msg("accepted", i))
          BY <1>3, <1>11, <4>1, ConcatAppend
        <4>q. QED BY <1>12, <4>1, <4>2, ConcatAppend
      <3> HIDE DEF b, gone, old, t
      <3>q. QED BY <2>1, <3>1 DEF Taken, Rests
    <2>3. \A k \in DOMAIN b : ~Places(b[k], i) /\ (b[k].id = i => b[k].kind = "del")
      <3> HIDE DEF b, gone, t
      <3>q. QED BY <1>4, <1>5, <1>11, <1>12
    <2>4. live[s] \in Nat /\ traded \in 0..live[s]
      BY <1>1, <1>4
    <2> HIDE DEF b, old
    <2>5. /\ Core(x, lx, pendings, open) /\ Leads(held, x, position + Direction(i) * traded)
          /\ Serves(i, b, x)
          /\ \A j \in Ids \ {i} : Calm(j, b, old) => Calm(j, x, lx)
      BY <1>1, <1>4, <1>5, <1>13, <2>3, <2>4, PlacedTraded
    <2> HIDE DEF x, lx, t
    <2>6. /\ Core(bus', live', pendings, open) /\ Leads(held, bus', position')
          /\ Serves(i, b, bus')
          /\ \A j \in Ids \ {i} : Calm(j, b, old) => Calm(j, bus', live')
      BY <2>1, <2>2, <2>5
    <2>7. \A j \in Ids : Calm(j, bus, live) => Calm(j, bus', live')
      BY <1>10, <1>14, <2>1, <2>6
    <2>8. \A j \in Ids : Unplaced(j, bus) /\ NoError(j, bus) => Unplaced(j, bus') /\ NoError(j, bus')
      BY <1>15, <2>6, ServesKeeps
    <2>9. live[s] > 0
      BY <2>1
    <2> HIDE DEF s, i
    <2>q. QED BY <1>10, <2>6, <2>7, <2>8, <2>9 DEF Exchanges
  <1>17. CASE /\ live[s] > 0
              /\ live' = old
              /\ bus' = t \o <<gone, Msg("add_error", i)>>
              /\ UNCHANGED position
    <2> DEFINE a == Msg("add_error", i)
    <2>1. /\ a \in Message /\ a.id = i /\ a.kind = "add_error" /\ ~Trades(a)
          /\ \A j : ~Places(a, j) /\ (j # i => a # Msg("add_error", j))
      BY <1>4, MessageMade DEF Trades, Places, Orders, Msg
    <2>2. bus' = Append(b, a)
      BY <1>3, <1>11, <1>17, <2>1, ConcatAppend
    <2>3. Unplaced(i, b)
      <3> HIDE DEF b, gone, t
      <3>q. QED BY <1>5, <1>11, <1>12 DEF Unplaced
    <2>4. Core(bus', live', pendings, open)
      <3>1. [old EXCEPT ![i] = 0] = old
        BY <1>1, <1>4, <1>5
      <3> HIDE DEF b, old
      <3>2. Core(Append(b, Msg("add_error", i)), [old EXCEPT ![i] = 0], pendings, open)
        BY <1>4, <1>13, <2>3, CoreEnd
      <3>q. QED BY <1>17, <2>2, <3>1, <3>2
    <2> HIDE DEF b, old, a, t
    <2>5. Leads(held, bus', position')
      BY <1>1, <1>12, <1>13, <1>17, <2>1, <2>2, LeadsPast
    <2>6. ASSUME NEW j \in Ids, Calm(j, bus, live)
          PROVE  Calm(j, bus', live')
      <3>1. Calm(j, b, old) /\ j # i
        BY <1>10, <1>14, <1>17, <2>6
      <3>2. old[j] = 0 /\ KeepsDead(b, old, old)
        BY <3>1 DEF Calm, KeepsDead
      <3>3. Calm(j, Append(b, a), old)
        BY <1>12, <2>1, <3>1, <3>2, CalmJoin DEF Orders
      <3>q. QED BY <1>17, <2>2, <3>3
    <2>7. ASSUME NEW j \in Ids, Unplaced(j, bus), NoError(j, bus)
          PROVE  Unplaced(j, bus') /\ NoError(j, bus')
      <3>1. j # i /\ Unplaced(j, b) /\ NoError(j, b)
        BY <1>15, <2>7
      <3>q. QED BY <1>12, <2>1, <2>2, <3>1, AppendCases DEF Unplaced, NoError
    <2>8. live[s] > 0
      BY <1>17
    <2> HIDE DEF s, i
    <2>q. QED BY <1>10, <2>4, <2>5, <2>6, <2>7, <2>8 DEF Exchanges
  <1>q. QED BY <1>3, <1>9, <1>16, <1>17 DEF MoveArrives

-----------------------------------------------------------------------------
(* The invariant is kept: the exchange and the events *)

LEMMA Unfolded ==
  ASSUME IInv
  PROVE  /\ TypeOK /\ Known1 /\ Phases
         /\ Core(bus, live, pendings, open) /\ Leads(held, bus, position)
         /\ bus \in Seq(Message) /\ live \in [Ids -> Nat] /\ position \in Int /\ held \in Int
         /\ pendings \subseteq Ids /\ open \subseteq Ids
         /\ PlacedOnce(bus, live, pendings, open) /\ EndsLast(bus, live)
         /\ AllKnown(bus, live, pendings, open) /\ Moves(bus)
  BY DEF IInv, Known1, Core, TypeOK

LEMMA ExchangeKeeps ==
  ASSUME IInv, Exchanges, late' = FALSE, UNCHANGED <<view, style, phase, closing, orders, cuts>>
  PROVE  IInv'
  <1>1. /\ TypeOK /\ Phases /\ Leads(held, bus, position)
        /\ Core(bus, live, pendings, open)
    BY Unfolded
  <1>2. /\ Core(bus', live', pendings, open) /\ Leads(held, bus', position')
        /\ \A j \in Ids : Calm(j, bus, live) => Calm(j, bus', live')
        /\ \A j \in Ids : Unplaced(j, bus) /\ NoError(j, bus) => Unplaced(j, bus') /\ NoError(j, bus')
        /\ \A i \in Ids :
              /\ \A j \in Ids \ {i} : Calm(j, bus, live)
              /\ Untouched(i, bus) /\ Opposite(i, bus, live, position)
              => Untouched(i, bus') /\ Opposite(i, bus', live', position')
        /\ (\A j \in Ids : Calm(j, bus, live)) => position' = position
    BY DEF Exchanges
  <1>3. /\ pendings' = pendings /\ open' = open /\ held' = held /\ style' = style /\ phase' = phase
        /\ cancels' = cancels /\ mine' = mine /\ tries' = tries /\ orders' = orders /\ cuts' = cuts
    BY DEF view, closing
  <1>4. TypeOK'
    <2>1. bus' \in Seq(Message) /\ live' \in [Ids -> Nat]
      BY <1>2 DEF Core
    <2>2. position' \in Int
      BY <1>2, <2>1, LeadsType
    <2>q. QED BY <1>1, <1>3, <2>1, <2>2 DEF TypeOK
  <1>5. mine \subseteq Ids
    BY <1>1 DEF TypeOK
  <1>6. phase = "cancelling" => Cancelling'
    BY <1>1, <1>2, <1>3, <1>5 DEF Phases, Cancelling
  <1>7. phase \in {"adding", "waiting"} => Active'
    <2> SUFFICES ASSUME phase \in {"adding", "waiting"}
                 PROVE  Active'
      OBVIOUS
    <2>1. PICK i \in Ids : mine = {i}
      BY <1>1 DEF Phases, Active
    <2>2. /\ \A j \in Ids \ {i} : Calm(j, bus, live)
          /\ Untouched(i, bus) /\ Opposite(i, bus, live, position)
          /\ phase = "waiting" => mine \cap pendings = {}
      BY <1>1, <2>1 DEF Phases, Active
    <2>3. /\ Untouched(i, bus') /\ Opposite(i, bus', live', position')
          /\ \A j \in Ids \ {i} : Calm(j, bus', live')
      BY <1>2, <2>2
    <2>q. QED BY <1>3, <2>1, <2>2, <2>3 DEF Active
  <1>8. phase = "flat" => Flat'
    BY <1>1, <1>2, <1>3 DEF Phases, Flat
  <1>9. Phases'
    BY <1>1, <1>3, <1>6, <1>7, <1>8 DEF Phases
  <1>q. QED BY <1>2, <1>3, <1>4, <1>9 DEF IInv

LEMMA EventKeeps ==
  ASSUME IInv, EventArrives
  PROVE  IInv'
  <1> DEFINE m == bus[1]
             i == m.id
             t == Tail(bus)
  <1>1. /\ TypeOK /\ Phases /\ Leads(held, bus, position)
        /\ Core(bus, live, pendings, open)
        /\ bus \in Seq(Message) /\ live \in [Ids -> Nat] /\ position \in Int /\ held \in Int
        /\ pendings \subseteq Ids /\ open \subseteq Ids /\ EndsLast(bus, live)
    BY Unfolded
  <1>2. /\ bus # <<>>
        /\ Head(bus).kind \in {"accepted", "fill", "filled", "cancelled", "add_error", "del_error"}
    BY DEF EventArrives, Arrives
  <1>3. /\ t \in Seq(Message) /\ Head(bus) = m /\ m \in Message /\ 1 \in DOMAIN bus
        /\ \A k \in DOMAIN t : k + 1 \in DOMAIN bus /\ t[k] = bus[k + 1] /\ k + 1 > 1
    BY <1>1, <1>2, TailBus
  <1>4. /\ m.kind \in {"accepted", "fill", "filled", "cancelled", "add_error", "del_error"}
        /\ i \in Ids /\ m.kind \notin Orders /\ m.kind # "del"
    BY <1>2, <1>3, MessageFields DEF Orders
  <1>5. /\ Noticed(m) /\ bus' = t /\ cancels' = cancels \ Answers(m) /\ late' = FALSE
        /\ phase' = IF phase = "adding" /\ m = Msg("accepted", i) /\ i \in mine
                    THEN "waiting" ELSE phase
        /\ live' = live /\ position' = position
        /\ style' = style /\ mine' = mine /\ tries' = tries /\ orders' = orders /\ cuts' = cuts
    BY <1>3 DEF EventArrives, exchange
  <1>6. held' = held + Gain(m)
    BY <1>1, <1>5 DEF Noticed, Gain, Trades
  <1>7. Leads(held', bus', position')
    BY <1>1, <1>2, <1>5, <1>6, LeadsTail
  <1>8. pendings' \subseteq pendings /\ open' \subseteq Ids
    BY <1>1, <1>4, <1>5 DEF Noticed
  <1>9. Core(bus', live', pendings', open')
    <2>1. CASE m.kind \in {"fill", "del_error"}
      <3>1. pendings' = pendings /\ open' = open
        BY <1>5, <2>1 DEF Noticed
      <3>q. QED BY <1>1, <1>2, <1>5, <3>1, CoreDrop
    <2>2. CASE m.kind \in {"accepted", "filled", "cancelled", "add_error"}
      <3>1. /\ pendings' \in SUBSET pendings /\ open' \in SUBSET Ids
            /\ \A j \in Ids \ {i} : (j \in pendings' <=> j \in pendings) /\ (j \in open' <=> j \in open)
        BY <1>5, <1>8, <2>2 DEF Noticed
      <3>2. m.kind = "accepted" \/ EndsOrder(m)
        BY <2>2 DEF EndsOrder
      <3>3. EndsOrder(m) \/ i \in open'
        BY <1>5, <3>2 DEF Noticed
      <3>4. Core(t, live, pendings', open')
        BY <1>1, <1>2, <1>4, <3>1, <3>2, <3>3, CoreHeard
      <3>q. QED BY <1>5, <3>4
    <2>q. QED BY <1>4, <2>1, <2>2
  <1>10. ASSUME NEW j \in Ids, Calm(j, bus, live)
         PROVE  Calm(j, t, live)
    <2>1. live[j] = 0 /\ KeepsDead(bus, live, live)
      BY <1>10 DEF Calm, KeepsDead
    <2>q. QED BY <1>1, <1>2, <1>4, <1>10, <2>1, CalmDrop
  <1>11. TypeOK'
    <2>1. held' \in Int
      BY <1>1, <1>3, <1>6, GainType
    <2>2. phase' \in {"trading", "reset", "cancelling", "adding", "waiting", "flat"}
      BY <1>1, <1>5 DEF TypeOK
    <2>3. cancels' \subseteq Ids
      BY <1>1, <1>5 DEF TypeOK
    <2> HIDE DEF t
    <2>q. QED BY <1>1, <1>3, <1>5, <1>8, <2>1, <2>2, <2>3 DEF TypeOK
  <1>12. phase' = "cancelling" => Cancelling'
    <2> SUFFICES ASSUME phase = "cancelling"
                 PROVE  Cancelling'
      BY <1>5
    <2>1. Cancelling
      BY <1>1 DEF Phases
    <2>2. ASSUME NEW j \in Ids \ cancels'
          PROVE  Calm(j, t, live)
      <3>1. CASE j \notin cancels
        BY <1>10, <2>1, <3>1 DEF Cancelling
      <3>2. CASE j \in cancels
        <4>1. m.kind \in {"cancelled", "del_error"} /\ j = i
          BY <1>5, <2>2, <3>2 DEF Answers
        <4>2. EndsOrder(m)
          BY <4>1 DEF EndsOrder
        <4>3. /\ live[j] = 0 /\ Unplaced(j, bus)
              /\ \A n \in DOMAIN bus : n > 1 /\ bus[n].id = i => ~Trades(bus[n])
          BY <1>1, <1>3, <4>1, <4>2 DEF EndsLast
        <4>4. \A k \in DOMAIN t : t[k].id = j => ~Trades(t[k])
          BY <1>3, <4>1, <4>3
        <4>5. Unplaced(j, t)
          BY <1>1, <1>2, <4>3, KeptByTail
        <4>q. QED BY <4>3, <4>4, <4>5, CalmUnplaced
      <3>q. QED BY <3>1, <3>2
    <2>3. \A j \in mine : Unplaced(j, t) /\ NoError(j, t)
      BY <1>1, <1>2, <2>1, KeptByTail DEF Cancelling
    <2> HIDE DEF t
    <2>q. QED BY <1>5, <2>2, <2>3 DEF Cancelling
  <1>13. phase' \in {"adding", "waiting"} => Active'
    <2> SUFFICES ASSUME phase' \in {"adding", "waiting"}
                 PROVE  Active'
      OBVIOUS
    <2>1. Active
      BY <1>1, <1>5 DEF Phases
    <2>2. PICK c \in Ids : mine = {c}
      BY <2>1 DEF Active
    <2>3. Untouched(c, t) /\ Opposite(c, t, live, position)
      BY <1>1, <1>2, <1>4, <2>1, <2>2, KeptByTail, OppositeTail DEF Active
    <2>4. \A j \in Ids \ mine : Calm(j, t, live)
      BY <1>10, <2>1 DEF Active
    <2>5. phase' = "waiting" => mine \cap pendings' = {}
      <3>1. CASE phase = "waiting"
        BY <1>8, <2>1, <3>1 DEF Active
      <3>2. CASE phase # "waiting"
        <4>1. phase' = "waiting" => m = Msg("accepted", i) /\ i \in mine
          BY <1>5, <3>2
        <4>2. Msg("accepted", i).kind = "accepted"
          BY DEF Msg
        <4>3. phase' = "waiting" => m.kind = "accepted" /\ i = c
          BY <2>2, <4>1, <4>2
        <4>4. phase' = "waiting" => c \notin pendings'
          BY <1>5, <4>3 DEF Noticed
        <4>q. QED BY <2>2, <4>4
      <3>q. QED BY <3>1, <3>2
    <2> HIDE DEF t
    <2>q. QED BY <1>5, <2>2, <2>3, <2>4, <2>5 DEF Active
  <1>14. phase' = "flat" => Flat'
    <2> SUFFICES ASSUME phase = "flat"
                 PROVE  Flat'
      BY <1>5
    <2>1. Flat
      BY <1>1 DEF Phases
    <2>2. Gain(m) = 0
      <3>1. Calm(i, bus, live)
        BY <1>4, <2>1 DEF Flat
      <3>2. ~Trades(m)
        BY <1>3, <3>1 DEF Calm
      <3>q. QED BY <3>2 DEF Gain
    <2>3. held' = 0
      BY <1>6, <2>1, <2>2 DEF Flat
    <2>4. \A j \in Ids : Calm(j, t, live)
      BY <1>10, <2>1 DEF Flat
    <2> HIDE DEF t
    <2>q. QED BY <1>5, <2>1, <2>3, <2>4 DEF Flat
  <1>15. phase' \in {"trading", "reset"} => mine' = {}
    BY <1>1, <1>5 DEF Phases
  <1>q. QED BY <1>7, <1>9, <1>11, <1>12, <1>13, <1>14, <1>15 DEF IInv, Phases

-----------------------------------------------------------------------------
(* The invariant is kept: the strategies and the guard *)

\* A request that asks for no order that trades joins the bus.
LEMMA RequestJoins ==
  ASSUME NEW b \in Seq(Message), NEW m \in Message, m.kind \in {"add", "market", "move", "del"},
         NEW h, NEW pos, Leads(h, b, pos)
  PROVE  Leads(h, Append(b, m), pos)
  <1>1. ~Trades(m) /\ pos \in Int
    BY LeadsType DEF Trades
  <1>q. QED BY <1>1, LeadsPast

LEMMA TradeKeeps ==
  ASSUME IInv, Trade
  PROVE  IInv'
  <1>1. /\ TypeOK /\ Phases /\ Leads(held, bus, position)
        /\ Core(bus, live, pendings, open)
        /\ bus \in Seq(Message) /\ live \in [Ids -> Nat] /\ pendings \subseteq Ids
    BY Unfolded
  <1>2. phase = "trading"
    BY DEF Trade
  <1>3. PICK i \in Ids : \E v \in 1..(MaxOrders - orders) :
          /\ Fresh(i)
          /\ pendings' = pendings \cup {i}
          /\ bus' = Append(bus, Order("add", i, v))
          /\ orders' = orders + v
    BY DEF Trade
  <1>4. PICK v \in 1..(MaxOrders - orders) :
          /\ bus' = Append(bus, Order("add", i, v))
          /\ orders' = orders + v
    BY <1>3
  <1>5. /\ live' = live /\ position' = position /\ open' = open /\ held' = held /\ style' = style
        /\ phase' = phase /\ cancels' = cancels /\ mine' = mine /\ tries' = tries /\ late' = late
        /\ cuts' = cuts
    BY DEF Trade, closing
  <1>6. v \in Nat /\ orders + v \in 0..MaxOrders
    BY <1>1, <1>4, BoundsAssumption DEF TypeOK
  <1> DEFINE m == Order("add", i, v)
  <1>7. m \in Message /\ m.kind = "add" /\ m.id = i
    BY <1>6, MessageMade
  <1> HIDE DEF m
  <1>8. Places(m, i)
    BY <1>7 DEF Places, Orders
  <1>9. /\ i \notin pendings \cup open /\ live[i] = 0
        /\ \A k \in DOMAIN bus : bus[k].id # i /\ (bus[k].kind = "move" => bus[k].to # i)
    BY <1>3 DEF Fresh
  <1>10. Core(Append(bus, m), live, pendings \cup {i}, open)
    BY <1>1, <1>7, <1>8, <1>9, CoreSend
  <1>11. Leads(held, Append(bus, m), position)
    BY <1>1, <1>7, RequestJoins
  <1>12. Append(bus, m) \in Seq(Message) /\ pendings' \subseteq Ids
    BY <1>1, <1>3, <1>7
  <1>13. bus' = Append(bus, m)
    BY <1>4 DEF m
  <1>14. TypeOK'
    BY <1>1, <1>4, <1>5, <1>6, <1>12, <1>13 DEF TypeOK
  <1>15. Phases'
    BY <1>1, <1>2, <1>5 DEF Phases
  <1>q. QED BY <1>3, <1>5, <1>10, <1>11, <1>13, <1>14, <1>15 DEF IInv

LEMMA TradeCancelKeeps ==
  ASSUME IInv, TradeCancel
  PROVE  IInv'
  <1>1. /\ TypeOK /\ Phases /\ Leads(held, bus, position)
        /\ Core(bus, live, pendings, open)
        /\ bus \in Seq(Message) /\ open \subseteq Ids
    BY Unfolded
  <1>2. phase = "trading"
    BY DEF TradeCancel
  <1>3. PICK i \in open : bus' = Append(bus, Msg("del", i))
    BY DEF TradeCancel
  <1>4. /\ live' = live /\ position' = position /\ open' = open /\ held' = held /\ style' = style
        /\ phase' = phase /\ cancels' = cancels /\ mine' = mine /\ tries' = tries /\ late' = late
        /\ cuts' = cuts /\ pendings' = pendings /\ orders' = orders
    BY DEF TradeCancel, closing, exchange, view
  <1>5. Msg("del", i) \in Message /\ Msg("del", i).kind = "del" /\ i \in Ids
    BY <1>1, MessageMade
  <1>6. Core(bus', live, pendings, open) /\ Leads(held, bus', position)
    BY <1>1, <1>3, <1>5, CoreDel, RequestJoins
  <1>7. TypeOK'
    <2>1. bus' \in Seq(Message)
      BY <1>6 DEF Core
    <2>q. QED BY <1>1, <1>4, <2>1 DEF TypeOK
  <1>8. Phases'
    BY <1>1, <1>2, <1>4 DEF Phases
  <1>q. QED BY <1>4, <1>6, <1>7, <1>8 DEF IInv

LEMMA TradeMoveKeeps ==
  ASSUME IInv, TradeMove
  PROVE  IInv'
  <1>1. /\ TypeOK /\ Phases /\ Leads(held, bus, position)
        /\ Core(bus, live, pendings, open)
        /\ bus \in Seq(Message) /\ live \in [Ids -> Nat] /\ pendings \subseteq Ids
    BY Unfolded
  <1>2. (phase = "trading" \/ late) /\ orders < MaxOrders /\ orders' = orders + 1
    BY DEF TradeMove
  <1>3. PICK i \in Ids : \E j \in Ids :
          /\ i \in open
          /\ Fresh(j) /\ Direction(j) = Direction(i)
          /\ pendings' = pendings \cup {j}
          /\ bus' = Append(bus, [kind |-> "move", id |-> i, to |-> j])
    BY DEF TradeMove
  <1>4. PICK j \in Ids :
          /\ i \in open
          /\ Fresh(j)
          /\ pendings' = pendings \cup {j}
          /\ bus' = Append(bus, [kind |-> "move", id |-> i, to |-> j])
    BY <1>3
  <1>5. /\ live' = live /\ position' = position /\ open' = open /\ held' = held /\ style' = style
        /\ phase' = phase /\ cancels' = cancels /\ mine' = mine /\ tries' = tries /\ late' = late
        /\ cuts' = cuts
    BY DEF TradeMove, closing
  <1> DEFINE m == [kind |-> "move", id |-> i, to |-> j]
  <1>6. m \in Message /\ m.kind = "move" /\ m.id = i /\ m.to = j
    BY DEF Message
  <1>6a. bus' = Append(bus, m)
    BY <1>4
  <1> HIDE DEF m
  <1>7. /\ j \notin pendings \cup open /\ live[j] = 0
        /\ \A k \in DOMAIN bus : bus[k].id # j /\ (bus[k].kind = "move" => bus[k].to # j)
    BY <1>4 DEF Fresh
  <1>8. Places(m, j) /\ m.id # j /\ m.id \in open
    BY <1>4, <1>6, <1>7 DEF Places
  <1>9. Core(bus', live, pendings \cup {j}, open)
    BY <1>1, <1>6, <1>6a, <1>7, <1>8, CoreSend
  <1>10. Leads(held, bus', position)
    BY <1>1, <1>6, <1>6a, RequestJoins
  <1>11. TypeOK'
    <2>1. bus' \in Seq(Message) /\ pendings' \subseteq Ids
      BY <1>1, <1>4, <1>9 DEF Core
    <2>2. orders' \in 0..MaxOrders
      BY <1>1, <1>2, BoundsAssumption DEF TypeOK
    <2>q. QED BY <1>1, <1>5, <2>1, <2>2 DEF TypeOK
  <1>12. phase = "cancelling" => Cancelling'
    <2> SUFFICES ASSUME phase = "cancelling"
                 PROVE  Cancelling'
      OBVIOUS
    <2>1. /\ mine = {} /\ open \subseteq cancels /\ \A c \in Ids \ cancels : Calm(c, bus, live)
          /\ \A c \in open : \E k \in DOMAIN bus : bus[k].kind = "del" /\ bus[k].id = c
      BY <1>1, <1>2 DEF Phases, Cancelling
    <2>2. ASSUME NEW c \in Ids \ cancels
          PROVE  Calm(c, bus', live)
      <3>1. Calm(c, bus, live) /\ c # i
        BY <1>4, <2>1
      <3>2. live[c] = 0 /\ KeepsDead(bus, live, live)
        BY <3>1 DEF Calm, KeepsDead
      <3>3. \E n \in DOMAIN bus : bus[n].kind = "del" /\ bus[n].id = m.id
        BY <1>4, <1>6, <2>1
      <3>q. QED BY <1>1, <1>6, <1>6a, <3>1, <3>2, <3>3, CalmJoin
    <2>3. \A c \in open : \E k \in DOMAIN bus' : bus'[k].kind = "del" /\ bus'[k].id = c
      BY <1>1, <1>6, <1>6a, <2>1, AppendCases
    <2>q. QED BY <1>5, <2>1, <2>2, <2>3 DEF Cancelling
  <1>13. phase \notin {"adding", "waiting", "flat"}
    BY <1>1, <1>2, <1>4 DEF Phases, Active, Flat
  <1>14. Phases'
    BY <1>1, <1>5, <1>12, <1>13 DEF Phases
  <1>q. QED BY <1>4, <1>5, <1>9, <1>10, <1>11, <1>14 DEF IInv

LEMMA InterruptKeeps ==
  ASSUME IInv, Interrupt
  PROVE  IInv'
  <1>1. /\ bus' = bus /\ live' = live /\ position' = position /\ pendings' = pendings
        /\ open' = open /\ held' = held /\ style' = style /\ orders' = orders
        /\ phase' = "reset" /\ mine' = {} /\ cancels' = {} /\ tries' = 0
        /\ late' \in BOOLEAN
    BY DEF Interrupt, exchange, view
  <1>2. cuts' \in 0..MaxCuts
    BY BoundsAssumption DEF Interrupt, IInv, TypeOK
  <1>3. TypeOK'
    <2>1. Cardinality({}) <= 1
      BY FS_EmptySet
    <2>q. QED BY <1>1, <1>2, <2>1, TriesAssumption DEF IInv, TypeOK
  <1>4. Phases'
    BY <1>1 DEF Phases
  <1>q. QED BY <1>1, <1>3, <1>4 DEF IInv

\* A sequence of all elements of a set has each of them.
LEMMA SeqsCover ==
  ASSUME NEW S, IsFiniteSet(S), NEW s \in SetToSeqs(S)
  PROVE  /\ s \in Seq(S) /\ DOMAIN s = 1..Len(s)
         /\ \A x \in S : \E k \in DOMAIN s : s[k] = x
  <1> DEFINE n == Cardinality(S)
             D == 1..n
  <1>1. n \in Nat
    BY FS_CardinalityType
  <1>2. s \in [D -> S] /\ \A i, j \in D : i # j => s[i] # s[j]
    BY DEF SetToSeqs
  <1>3. s \in Seq(S) /\ DOMAIN s = 1..Len(s) /\ DOMAIN s = D
    BY <1>1, <1>2
  <1>4. s \in Injection(D, S)
    BY <1>2 DEF Injection, IsInjective
  <1>5. IsFiniteSet(D) /\ Cardinality(D) = n
    BY <1>1, FS_Interval
  <1>6. s \in Surjection(D, S)
    BY <1>4, <1>5, FS_Injection
  <1>q. QED BY <1>3, <1>6 DEF Surjection

\* A round begins.
LEMMA RoundBegins ==
  ASSUME IInv, CancelAll
  PROVE  /\ Core(bus', live, pendings, open) /\ Leads(held, bus', position)
         /\ cancels' = pendings \cup open /\ cancels' \subseteq Ids /\ phase' = "cancelling"
         /\ \A i \in Ids \ cancels' : Calm(i, bus', live)
         /\ \A i \in open : \E k \in DOMAIN bus' : bus'[k].kind = "del" /\ bus'[k].id = i
         /\ \A i : Unplaced(i, bus) /\ NoError(i, bus) => Unplaced(i, bus') /\ NoError(i, bus')
  <1>1. /\ Leads(held, bus, position) /\ Core(bus, live, pendings, open)
        /\ bus \in Seq(Message) /\ AllKnown(bus, live, pendings, open)
        /\ pendings \subseteq Ids /\ open \subseteq Ids
    BY Unfolded
  <1>2. IsFiniteSet(Known)
    BY <1>1, IdsAssumption, FS_Subset DEF Known, Ids
  <1>3. PICK s \in SetToSeqs(Known) : bus' = bus \o [k \in DOMAIN s |-> Msg("del", s[k])]
    BY DEF CancelAll
  <1> DEFINE d == [k \in DOMAIN s |-> Msg("del", s[k])]
  <1>4. /\ s \in Seq(Known) /\ DOMAIN s = 1..Len(s)
        /\ \A x \in Known : \E k \in DOMAIN s : s[k] = x
    BY <1>2, SeqsCover
  <1>5. /\ d \in Seq(Message) /\ DOMAIN d = DOMAIN s
        /\ \A k \in DOMAIN d : d[k].kind = "del" /\ d[k].id = s[k]
    <2>1. \A k \in DOMAIN s : s[k] \in Ids
      BY <1>1, <1>4 DEF Known
    <2>2. \A k \in DOMAIN s : /\ Msg("del", s[k]) \in Message /\ Msg("del", s[k]).kind = "del"
                              /\ Msg("del", s[k]).id = s[k]
      BY <2>1, MessageMade
    <2>3. Len(s) \in Nat
      BY <1>4
    <2>q. QED BY <1>4, <2>2, <2>3
  <1>6. bus' = bus \o d
    BY <1>3
  <1> HIDE DEF d
  <1>7. Core(bus', live, pendings, open) /\ Leads(held, bus', position)
    BY <1>1, <1>5, <1>6, CoreDels, LeadsDels
  <1>8. /\ \A k \in DOMAIN d : \E n \in DOMAIN bus' : bus'[n] = d[k]
        /\ \A k \in DOMAIN bus' : \/ k \in DOMAIN bus /\ bus'[k] = bus[k]
                                  \/ \E n \in DOMAIN d : bus'[k] = d[n]
    <2> DEFINE x == bus \o d
    <2>1. /\ \A k \in DOMAIN d : Len(bus) + k \in DOMAIN x /\ x[Len(bus) + k] = d[k]
          /\ \A k \in DOMAIN x :
                \/ k \in DOMAIN bus /\ x[k] = bus[k]
                \/ k - Len(bus) \in DOMAIN d /\ x[k] = d[k - Len(bus)]
      BY <1>1, <1>5, ConcatCases
    <2>2. bus' = x
      BY <1>6
    <2> HIDE DEF x
    <2>q. QED BY <2>1, <2>2
  <1>9. cancels' = pendings \cup open /\ phase' = "cancelling"
    BY DEF CancelAll, Known
  <1>10. ASSUME NEW i \in Ids \ cancels'
         PROVE  Calm(i, bus', live)
    <2>1. live[i] = 0 /\ Unplaced(i, bus) /\ Unheard(i, bus)
      BY <1>1, <1>9 DEF AllKnown
    <2>2. Calm(i, bus, live)
      BY <2>1, CalmUnplaced DEF Unheard
    <2>q. QED BY <1>1, <1>5, <1>6, <2>2, CalmDels
  <1>11. \A i \in open : \E k \in DOMAIN bus' : bus'[k].kind = "del" /\ bus'[k].id = i
    BY <1>4, <1>5, <1>8 DEF Known
  <1>12. ASSUME NEW i, Unplaced(i, bus), NoError(i, bus)
         PROVE  Unplaced(i, bus') /\ NoError(i, bus')
    <2>1. \A n \in DOMAIN d : ~Places(d[n], i) /\ d[n] # Msg("add_error", i)
      BY <1>5 DEF Places, Orders, Msg
    <2>q. QED BY <1>8, <1>12, <2>1 DEF Unplaced, NoError
  <1>q. QED BY <1>1, <1>7, <1>9, <1>10, <1>11, <1>12

LEMMA StartKeeps ==
  ASSUME IInv, Start
  PROVE  IInv'
  <1>1. /\ TypeOK /\ Phases
        /\ phase = "reset" /\ CancelAll
        /\ live' = live /\ position' = position /\ pendings' = pendings /\ open' = open
        /\ held' = held /\ style' = style /\ mine' = mine /\ tries' = tries /\ late' = late
        /\ orders' = orders /\ cuts' = cuts
    BY Unfolded DEF Start, exchange, view
  <1>2. /\ Core(bus', live, pendings, open) /\ Leads(held, bus', position)
        /\ cancels' = pendings \cup open /\ cancels' \subseteq Ids /\ phase' = "cancelling"
        /\ \A i \in Ids \ cancels' : Calm(i, bus', live)
        /\ \A i \in open : \E k \in DOMAIN bus' : bus'[k].kind = "del" /\ bus'[k].id = i
    BY <1>1, RoundBegins
  <1>3. TypeOK'
    BY <1>1, <1>2 DEF TypeOK, Core
  <1>4. Phases'
    <2>1. mine = {}
      BY <1>1 DEF Phases
    <2>q. QED BY <1>1, <1>2, <2>1 DEF Phases, Cancelling
  <1>q. QED BY <1>1, <1>2, <1>3, <1>4 DEF IInv

LEMMA TimedOutKeeps ==
  ASSUME IInv, TimedOut
  PROVE  IInv'
  <1>1. /\ TypeOK /\ Phases
        /\ phase = "waiting" /\ CancelAll /\ tries < Tries /\ tries' = tries + 1
        /\ live' = live /\ position' = position /\ pendings' = pendings /\ open' = open
        /\ held' = held /\ style' = style /\ mine' = mine /\ late' = late
        /\ orders' = orders /\ cuts' = cuts
        /\ PlacedOnce(bus, live, pendings, open)
    BY Unfolded DEF TimedOut, exchange, view
  <1>2. /\ Core(bus', live, pendings, open) /\ Leads(held, bus', position)
        /\ cancels' = pendings \cup open /\ cancels' \subseteq Ids /\ phase' = "cancelling"
        /\ \A i \in Ids \ cancels' : Calm(i, bus', live)
        /\ \A i : Unplaced(i, bus) /\ NoError(i, bus) => Unplaced(i, bus') /\ NoError(i, bus')
    BY <1>1, RoundBegins
  <1>3. TypeOK'
    BY <1>1, <1>2, TriesAssumption DEF TypeOK, Core
  <1>4. mine \subseteq Ids /\ Active /\ ~late /\ mine \cap pendings = {}
    BY <1>1 DEF Phases, TypeOK, Active
  <1>5. ASSUME NEW i \in mine
        PROVE  Unplaced(i, bus) /\ NoError(i, bus)
    <2>1. Unplaced(i, bus)
      BY <1>1, <1>4 DEF Unplaced, PlacedOnce
    <2>2. Untouched(i, bus)
      BY <1>4 DEF Active
    <2>3. NoError(i, bus)
      <3>1. Msg("add_error", i).id = i /\ Msg("add_error", i).kind = "add_error"
        BY DEF Msg
      <3>q. QED BY <2>2, <3>1 DEF Untouched, NoError, Orders
    <2>q. QED BY <2>1, <2>3
  <1>6. Phases'
    BY <1>1, <1>2, <1>4, <1>5 DEF Phases, Cancelling
  <1>q. QED BY <1>1, <1>2, <1>3, <1>6 DEF IInv

LEMMA CloseKeeps ==
  ASSUME IInv, Close
  PROVE  IInv'
  <1>1. /\ TypeOK /\ Phases /\ Leads(held, bus, position)
        /\ Core(bus, live, pendings, open)
        /\ bus \in Seq(Message) /\ live \in [Ids -> Nat] /\ pendings \subseteq Ids
        /\ position \in Int /\ held \in Int
    BY Unfolded
  <1>2. /\ phase = "cancelling" /\ cancels = {}
        /\ live' = live /\ position' = position /\ open' = open /\ held' = held /\ style' = style
        /\ cancels' = cancels /\ late' = late /\ orders' = orders /\ cuts' = cuts
    BY DEF Close
  <1>3. /\ \A i \in Ids : Calm(i, bus, live)
        /\ late => open = {}
    BY <1>1, <1>2 DEF Phases, Cancelling
  <1>4. held = position
    <2>1. \A k \in DOMAIN bus : bus[k].id \in Ids
      BY <1>1, MessageFields
    <2>2. \A k \in DOMAIN bus : ~Trades(bus[k])
      BY <1>3, <2>1 DEF Calm
    <2>q. QED BY <1>1, <2>2, LeadsNowhere
  <1>5. CASE held = 0
    <2>1. phase' = "flat" /\ mine' = {} /\ tries' = 0 /\ bus' = bus /\ pendings' = pendings
      BY <1>5 DEF Close
    <2>2. TypeOK'
      <3>1. Cardinality({}) <= 1
        BY FS_EmptySet
      <3>q. QED BY <1>1, <1>2, <2>1, <3>1, TriesAssumption DEF TypeOK
    <2>3. Flat'
      BY <1>2, <1>3, <1>4, <1>5, <2>1 DEF Flat
    <2>q. QED BY <1>1, <1>2, <2>1, <2>2, <2>3 DEF IInv, Phases
  <1>6. CASE held # 0
    <2>1. PICK i \in Ids :
            /\ Fresh(i) /\ i \in (IF held > 0 THEN Sells ELSE Buys)
            /\ pendings' = pendings \cup {i}
            /\ bus' = Append(bus, Order(Kind, i, Volume))
            /\ mine' = {i} /\ phase' = "adding"
            /\ tries' = tries
      BY <1>6 DEF Close
    <2> DEFINE m == Order(Kind, i, Volume)
    <2>2. Kind \in {"add", "market"} /\ Volume \in Nat
      BY <1>1 DEF Kind, Volume
    <2>3. m \in Message /\ m.kind \in {"add", "market"} /\ m.id = i /\ m.volume = Volume
      BY <2>2, MessageMade
    <2>4. bus' = Append(bus, m)
      BY <2>1
    <2> HIDE DEF m
    <2>5. Places(m, i) /\ m.kind \in Orders
      BY <2>3 DEF Places, Orders
    <2>6. /\ i \notin pendings \cup open /\ live[i] = 0
          /\ \A k \in DOMAIN bus : bus[k].id # i /\ (bus[k].kind = "move" => bus[k].to # i)
      BY <2>1 DEF Fresh
    <2>7. Core(bus', live, pendings \cup {i}, open) /\ Leads(held, bus', position)
      BY <1>1, <2>3, <2>4, <2>5, <2>6, CoreSend, RequestJoins
    <2>8. position + Direction(i) * Volume = 0
      <3>1. CASE held > 0
        <4>1. i \notin Buys
          BY <2>1, <3>1, IdsAssumption
        <4>2. Direction(i) = -1 /\ Volume = held
          BY <3>1, <4>1 DEF Direction, Volume
        <4>q. QED BY <1>1, <1>4, <4>2
      <3>2. CASE held < 0
        <4>1. i \in Buys
          BY <1>1, <2>1, <3>2
        <4>2. Direction(i) = 1 /\ Volume = -held
          BY <1>1, <3>2, <4>1 DEF Direction, Volume
        <4>q. QED BY <1>1, <1>4, <4>2
      <3>q. QED BY <1>1, <1>6, <3>1, <3>2
    <2>9. ASSUME NEW j \in Ids \ {i}
          PROVE  Calm(j, bus', live)
      <3>1. Calm(j, bus, live)
        BY <1>3
      <3>2. live[j] = 0 /\ KeepsDead(bus, live, live)
        BY <3>1 DEF Calm, KeepsDead
      <3>q. QED BY <1>1, <2>3, <2>4, <3>1, <3>2, CalmJoin
    <2>10. Untouched(i, bus') /\ Opposite(i, bus', live, position)
      <3>1. /\ Len(bus) + 1 \in DOMAIN bus' /\ bus'[Len(bus) + 1] = m
            /\ \A k \in DOMAIN bus' : (k \in DOMAIN bus /\ bus'[k] = bus[k]) \/ bus'[k] = m
        BY <1>1, <2>3, <2>4, AppendCases
      <3>2. Untouched(i, bus')
        BY <2>5, <2>6, <3>1 DEF Untouched
      <3>3. Opposite(i, bus', live, position)
        BY <2>3, <2>5, <2>8, <3>1 DEF Opposite
      <3>q. QED BY <3>2, <3>3
    <2>11. Active'
      BY <1>2, <1>3, <2>1, <2>9, <2>10 DEF Active
    <2>12. TypeOK'
      <3>1. Cardinality({i}) = 1
        BY FS_Singleton
      <3>q. QED BY <1>1, <1>2, <2>1, <2>7, <3>1 DEF TypeOK, Core
    <2>q. QED BY <1>2, <2>1, <2>7, <2>11, <2>12 DEF IInv, Phases
  <1>q. QED BY <1>5, <1>6

LEMMA ClosedKeeps ==
  ASSUME IInv, Closed
  PROVE  IInv'
  <1>1. /\ TypeOK /\ Phases /\ Leads(held, bus, position)
        /\ Core(bus, live, pendings, open)
        /\ bus \in Seq(Message) /\ AllKnown(bus, live, pendings, open)
        /\ position \in Int
    BY Unfolded
  <1>2. /\ phase = "waiting" /\ mine \cap open = {}
        /\ phase' = "flat" /\ mine' = {} /\ tries' = 0
        /\ bus' = bus /\ live' = live /\ position' = position /\ pendings' = pendings
        /\ open' = open /\ held' = held /\ style' = style /\ cancels' = cancels /\ late' = late
        /\ orders' = orders /\ cuts' = cuts
    BY DEF Closed, exchange, view
  <1>3. Active
    BY <1>1, <1>2 DEF Phases
  <1>4. PICK i \in Ids : mine = {i}
    BY <1>3 DEF Active
  <1>5. live[i] = 0 /\ Unplaced(i, bus) /\ Unheard(i, bus)
    BY <1>1, <1>2, <1>3, <1>4 DEF Active, AllKnown
  <1>6. Calm(i, bus, live)
    BY <1>5, CalmUnplaced DEF Unheard
  <1>7. \A j \in Ids : Calm(j, bus, live)
    BY <1>3, <1>4, <1>6 DEF Active
  <1>8. position = 0
    <2>1. Opposite(i, bus, live, position)
      BY <1>3, <1>4 DEF Active
    <2>2. ~ \E k \in DOMAIN bus : bus[k].kind \in Orders /\ bus[k].id = i
      BY <1>5 DEF Unplaced, Places
    <2>3. position + Direction(i) * 0 = 0
      BY <1>5, <2>1, <2>2 DEF Opposite
    <2>q. QED BY <1>1, <2>3, DirectionType
  <1>9. held = position
    <2>1. \A k \in DOMAIN bus : bus[k].id \in Ids
      BY <1>1, MessageFields
    <2>2. \A k \in DOMAIN bus : ~Trades(bus[k])
      BY <1>7, <2>1 DEF Calm
    <2>q. QED BY <1>1, <2>2, LeadsNowhere
  <1>10. TypeOK'
    <2>1. Cardinality({}) <= 1
      BY FS_EmptySet
    <2>q. QED BY <1>1, <1>2, <2>1, TriesAssumption DEF TypeOK
  <1>11. Flat'
    BY <1>2, <1>3, <1>7, <1>8, <1>9 DEF Flat, Active
  <1>q. QED BY <1>1, <1>2, <1>10, <1>11 DEF IInv, Phases

LEMMA OpenKeeps ==
  ASSUME IInv, Open
  PROVE  IInv'
  <1>1. /\ phase = "flat" /\ phase' = "trading"
        /\ bus' = bus /\ live' = live /\ position' = position /\ pendings' = pendings
        /\ open' = open /\ held' = held /\ style' = style /\ cancels' = cancels /\ late' = late
        /\ orders' = orders /\ cuts' = cuts /\ mine' = mine /\ tries' = tries
    BY DEF Open, exchange, view, closing
  <1>2. mine = {}
    BY <1>1 DEF IInv, Phases, Flat
  <1>3. TypeOK'
    BY <1>1 DEF IInv, TypeOK
  <1>q. QED BY <1>1, <1>2, <1>3 DEF IInv, Phases

-----------------------------------------------------------------------------
(* The theorems *)

LEMMA Initially == Init => IInv
  <1> SUFFICES ASSUME Init
               PROVE  IInv
    OBVIOUS
  <1>1. /\ bus = <<>> /\ live = [i \in Ids |-> 0] /\ position = 0 /\ pendings = {} /\ open = {}
        /\ held = 0 /\ phase = "reset" /\ mine = {}
    BY DEF Init
  <1>2. TypeOK
    <2>1. Cardinality({}) <= 1
      BY FS_EmptySet
    <2>2. <<>> \in Seq(Message)
      OBVIOUS
    <2>3. bus \in Seq(Message)
      BY <1>1, <2>2
    <2>4. live \in [Ids -> Nat] /\ {position, held} \subseteq Int
      BY <1>1
    <2>5. /\ style \in {"two", "three"} /\ cancels = {} /\ tries = 0 /\ late = FALSE /\ orders = 0
          /\ cuts = 0
      BY DEF Init
    <2>6. tries \in 0..Tries /\ orders \in 0..MaxOrders /\ cuts \in 0..MaxCuts
      BY <2>5, TriesAssumption, BoundsAssumption
    <2>q. QED BY <1>1, <2>1, <2>3, <2>4, <2>5, <2>6 DEF TypeOK
  <1>3. Core(bus, live, pendings, open)
    BY <1>1 DEF Core, Moves, PlacedOnce, EndsLast, AllKnown, Unplaced, Unheard
  <1>4. Leads(0, <<>>, 0)
    <2> DEFINE f == [k \in 0..0 |-> 0]
    <2>1. Len(<<>>) = 0
      OBVIOUS
    <2>2. /\ f \in [0..Len(<<>>) -> Int] /\ f[0] = 0 /\ f[Len(<<>>)] = 0
          /\ 1..Len(<<>>) = {} /\ \A j \in 0..Len(<<>>) : f[j] = 0
      BY <2>1
    <2>3. \A k \in 1..Len(<<>>) : f[k] = f[k - 1] + Gain(<<>>[k])
      BY <2>2
    <2> HIDE DEF f
    <2>q. QED BY <2>2, <2>3 DEF Leads
  <1>5. Phases
    BY <1>1 DEF Phases
  <1>q. QED BY <1>1, <1>2, <1>3, <1>4, <1>5 DEF IInv

LEMMA Stepwise == IInv /\ [Next]_vars => IInv'
  <1> SUFFICES ASSUME IInv, [Next]_vars
               PROVE  IInv'
    OBVIOUS
  <1>0. Known1
    BY Unfolded
  <1>1. CASE AddArrives
    BY <1>0, <1>1, AddExchanges, ExchangeKeeps DEF AddArrives
  <1>2. CASE DelArrives
    <2>1. Exchanges
      BY <1>0, <1>2, DelExchanges
    <2>2. late' = FALSE /\ UNCHANGED <<view, style, phase, closing, orders, cuts>>
      BY <1>2 DEF DelArrives
    <2>q. QED BY <2>1, <2>2, ExchangeKeeps
  <1>3. CASE MoveArrives
    BY <1>0, <1>3, MoveExchanges, ExchangeKeeps DEF MoveArrives
  <1>4. CASE Deal
    BY <1>0, <1>4, DealExchanges, ExchangeKeeps DEF Deal
  <1>5. CASE EventArrives
    BY <1>5, EventKeeps
  <1>6. CASE Start
    BY <1>6, StartKeeps
  <1>7. CASE Close
    BY <1>7, CloseKeeps
  <1>8. CASE Closed
    BY <1>8, ClosedKeeps
  <1>9. CASE Trade
    BY <1>9, TradeKeeps
  <1>10. CASE TradeCancel
    BY <1>10, TradeCancelKeeps
  <1>11. CASE TradeMove
    BY <1>11, TradeMoveKeeps
  <1>12. CASE Interrupt
    BY <1>12, InterruptKeeps
  <1>13. CASE TimedOut
    BY <1>13, TimedOutKeeps
  <1>14. CASE Open
    BY <1>14, OpenKeeps
  <1>15. CASE UNCHANGED vars
    <2>1. /\ bus' = bus /\ live' = live /\ position' = position /\ pendings' = pendings
          /\ open' = open /\ held' = held /\ style' = style /\ cancels' = cancels /\ late' = late
          /\ orders' = orders /\ cuts' = cuts /\ mine' = mine /\ tries' = tries /\ phase' = phase
      BY <1>15 DEF vars, exchange, view, closing
    <2>2. TypeOK'
      BY <2>1 DEF IInv, TypeOK
    <2>3. Phases'
      BY <2>1 DEF IInv, Phases, Cancelling, Active, Flat
    <2>q. QED BY <2>1, <2>2, <2>3 DEF IInv
  <1>q. QED
    BY <1>1, <1>2, <1>3, <1>4, <1>5, <1>6, <1>7, <1>8, <1>9, <1>10, <1>11, <1>12, <1>13, <1>14,
       <1>15 DEF Next, Delivery, Coroutine

\* In every reachable state the news on the bus is true of the orders, every order
\* that can trade is known, and each phase of a session knows which can.
THEOREM InvariantCorrect == Spec => []IInv
  BY Initially, Stepwise, PTL DEF Spec

\* When a closing strategy ends (SimpleClosing2, SimpleClosing3), neither a position nor
\* an order is left, and nothing on the way to the exchange makes one; for any number
\* of orders, of tries and of closings that the guard cuts off.
THEOREM FlatCorrect == Spec => []FlatWhenClosed
  <1>1. IInv => FlatWhenClosed
    <2> SUFFICES ASSUME IInv, phase = "flat"
                 PROVE  /\ position = 0 /\ held = 0
                        /\ \A i \in Ids : live[i] = 0
                        /\ \A k \in DOMAIN bus : bus[k].kind \notin {"add", "market"}
      BY DEF FlatWhenClosed
    <2>1. Flat /\ bus \in Seq(Message)
      BY Unfolded DEF Phases
    <2>2. \A k \in DOMAIN bus : bus[k].id \in Ids
      BY <2>1, MessageFields
    <2>q. QED BY <2>1, <2>2 DEF Flat, Calm, Orders
  <1>q. QED BY <1>1, InvariantCorrect, PTL

\* The closing order is, on its way and at the exchange, exactly the opposite of the
\* position, whatever was filled while it was decided (Portfolio::closing_order), and
\* it is never refused, so that async_add_order does not throw.
THEOREM OrderCorrect == Spec => []OrderInv
  <1>1. IInv => TypeOK
    BY DEF IInv
  <1>2. IInv => ClosingExact
    <2> SUFFICES ASSUME IInv, NEW i \in mine, phase \in {"adding", "waiting"}
                 PROVE  LET sent == {k \in DOMAIN bus : bus[k].id = i /\ bus[k].kind \in {"add", "market"}}
                        IN  IF sent = {} THEN position + Direction(i) * live[i] = 0
                            ELSE \A k \in sent : position + Direction(i) * bus[k].volume = 0
      BY DEF ClosingExact
    <2> DEFINE sent == {k \in DOMAIN bus : bus[k].id = i /\ bus[k].kind \in {"add", "market"}}
    <2>1. /\ PlacedOnce(bus, live, pendings, open) /\ i \in Ids
          /\ Opposite(i, bus, live, position)
      BY Unfolded DEF Phases, Active, TypeOK
    <2>2. \A k \in sent : Places(bus[k], i)
      BY DEF Places, Orders
    <2>3. CASE Unplaced(i, bus) /\ position + Direction(i) * live[i] = 0
      <3>1. sent = {}
        BY <2>2, <2>3 DEF Unplaced
      <3>q. QED BY <2>3, <3>1
    <2>4. CASE \E k \in DOMAIN bus : /\ bus[k].kind \in Orders /\ bus[k].id = i
                                     /\ position + Direction(i) * bus[k].volume = 0
      <3>1. PICK k \in DOMAIN bus : /\ bus[k].kind \in Orders /\ bus[k].id = i
                                    /\ position + Direction(i) * bus[k].volume = 0
        BY <2>4
      <3>2. k \in sent
        BY <3>1 DEF Orders
      <3>3. \A n \in sent : n = k
        BY <2>1, <2>2, <3>2 DEF PlacedOnce
      <3>q. QED BY <3>1, <3>2, <3>3
    <2>q. QED BY <2>1, <2>3, <2>4 DEF Opposite
  <1>3. IInv => NeverRefused
    <2> SUFFICES ASSUME IInv, NEW i \in mine
                 PROVE  ~Contains(bus, Msg("add_error", i))
      BY DEF NeverRefused
    <2>1. bus \in Seq(Message) /\ Phases /\ TypeOK
      BY Unfolded
    <2>2. NoError(i, bus)
      <3>1. CASE phase = "cancelling"
        BY <2>1, <3>1 DEF Phases, Cancelling
      <3>2. CASE phase \in {"adding", "waiting"}
        <4>1. Untouched(i, bus)
          BY <2>1, <3>2 DEF Phases, Active
        <4>2. Msg("add_error", i).id = i /\ Msg("add_error", i).kind = "add_error"
          BY DEF Msg
        <4>q. QED BY <4>1, <4>2 DEF Untouched, NoError, Orders
      <3>3. CASE phase \in {"trading", "reset", "flat"}
        BY <2>1, <3>3 DEF Phases, Flat
      <3>q. QED BY <2>1, <3>1, <3>2, <3>3 DEF TypeOK
    <2>q. QED BY <2>1, <2>2 DEF NoError, Contains
  <1>q. QED BY <1>1, <1>2, <1>3, InvariantCorrect, PTL DEF OrderInv
=============================================================================
