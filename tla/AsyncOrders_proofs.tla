------------------------- MODULE AsyncOrders_proofs -------------------------
(****************************************************************************)
(* Proofs about AsyncOrders, for any ids, operations and volumes.  IInv     *)
(* says what is on the bus about an order and what the operations that wait *)
(* know of it; the properties of results, of waiting and of what a closing  *)
(* strategy can see follow from it.  ChainInv says that the events of an    *)
(* order, heard and on the bus, are one life of the order; that the view    *)
(* catches up, and is an exchange again, follows from it.                   *)
(****************************************************************************)
EXTENDS AsyncOrders, TLAPS, SequenceTheorems, WellFoundedInduction

-----------------------------------------------------------------------------
(* What is said about an order *)

Message == Request \cup Event \cup Error

\* The order is asked for, its deletion or replacement is, or news of it is sent.
Places(m, i) == (m.kind = "add" /\ m.id = i) \/ (m.kind = "move" /\ m.to = i)
Wants(m, i) == m.kind \in {"del", "move"} /\ m.id = i
Says(m, i) == m.kind = "order" /\ m.id = i
Cancels(m, i) == Says(m, i) /\ m.status = "Cancel"
Fails(m, i, of) == m.kind = "error" /\ m.id = i /\ m.of = of

\* The exchange took the order.
TakenIn(st) == st \in {"open", "filled", "cancelled"}

\* What an event says is so of an order in state st.
TrueOf(e, st) ==
    /\ TakenIn(st)
    /\ e.status = "Cancel" => st = "cancelled"
    /\ e.status # "Cancel" /\ e.rest = 0 => st = "filled"

Heard(i) == history[i] # <<>>
HeardCancel(i) == Heard(i) /\ Last(history[i]).status = "Cancel"

-----------------------------------------------------------------------------
(* The invariant *)

\* Messages are about ids that were given out, an order is asked for once, and
\* before anything else is asked about it.
Asked ==
    /\ \A k \in DOMAIN bus : /\ bus[k].id \in used
                             /\ bus[k].kind = "move" => bus[k].to \in used /\ bus[k].to # bus[k].id
    /\ \A i \in Ids : \A j, k \in DOMAIN bus : Places(bus[j], i) /\ Places(bus[k], i) => j = k
    /\ \A i \in Ids : \A j, k \in DOMAIN bus : j < k /\ Wants(bus[j], i) => ~Places(bus[k], i)

\* Before an order reaches the exchange nobody knows anything of it.
Untold(i) ==
    /\ state[i] = "unknown" /\ ~Heard(i) /\ errors[i] = {}
    /\ \A k \in DOMAIN bus : ~Says(bus[k], i) /\ (bus[k].kind = "error" => bus[k].id # i)
NewUntold ==
    /\ \A i \in Ids \ used : Untold(i)
    /\ \A i \in Ids : \A k \in DOMAIN bus : Places(bus[k], i) => Untold(i) /\ i \in pendings

\* What is on the bus, or was heard, is true.
NewsTrue ==
    \A i \in Ids :
        /\ \A k \in DOMAIN bus :
             /\ Says(bus[k], i) => TrueOf(bus[k], state[i])
             /\ Fails(bus[k], i, "Add") => state[i] = "refused"
             /\ Fails(bus[k], i, "Delete") => state[i] # "open"
        /\ Heard(i) => TrueOf(Last(history[i]), state[i])
        /\ "Add" \in errors[i] => state[i] = "refused"
        /\ "Delete" \in errors[i] => state[i] # "open"

\* What the exchange decided was heard, or is on the bus.
NewsComplete ==
    \A i \in Ids :
        /\ TakenIn(state[i]) => Heard(i) \/ \E k \in DOMAIN bus : Says(bus[k], i)
        /\ state[i] = "refused" => "Add" \in errors[i] \/ \E k \in DOMAIN bus : Fails(bus[k], i, "Add")
        /\ state[i] = "cancelled" => HeardCancel(i) \/ \E k \in DOMAIN bus : Cancels(bus[k], i)
        /\ state[i] = "open" /\ i \notin pendings => Heard(i)

\* Nothing is said of an order after its cancellation, and that an order taken
\* cannot be deleted is not said before anything else is.
NewsInOrder ==
    \A i \in Ids :
        /\ \A j, k \in DOMAIN bus : j < k /\ Cancels(bus[j], i) => ~Says(bus[k], i)
        /\ HeardCancel(i) => \A k \in DOMAIN bus : ~Says(bus[k], i)
        /\ \A k \in DOMAIN bus : Fails(bus[k], i, "Delete") /\ TakenIn(state[i]) =>
              Heard(i) \/ \E j \in DOMAIN bus : j < k /\ Says(bus[j], i)
        /\ "Delete" \in errors[i] /\ TakenIn(state[i]) => Heard(i)

\* Nothing is on its way that would place the order.
Settled(i) == \A k \in DOMAIN bus : ~Places(bus[k], i)

\* What waiting operations know
OpKnows(p) ==
    /\ p.stage # "done" => p.result = "none"
    /\ p.stage = "idle" => p.kind = "none"
    /\ p.stage = "order" =>
         /\ p.kind \in {"add", "wait_order", "move"}
         /\ p.on = IF p.kind = "move" THEN p.to ELSE p.about
         /\ p.on \in used /\ ~Heard(p.on) /\ errors[p.on] = {}
    /\ p.stage = "cancel" =>
         /\ p.kind \in {"cancel", "wait_cancel", "move"}
         /\ p.on = p.about /\ p.on \in used
         /\ p.kind = "move" => p.to \in used /\ ~HeardCancel(p.on)
    /\ p.stage = "resumed" => p.kind = "move" /\ p.to \in used
    /\ p.kind = "move" /\ p.stage \in {"order", "resumed"} =>
         p.about \in used /\ state[p.about] = "cancelled"

\* What their results say
OpTrue(p) ==
    /\ p.kind \in {"add", "wait_order"} =>
         /\ p.result = "success" => p.about \in used /\ TakenIn(state[p.about])
         /\ p.result = "rejected" => p.about \in used /\ ~TakenIn(state[p.about]) /\ Settled(p.about)
    /\ p.kind \in {"cancel", "wait_cancel", "move"} =>
         /\ p.result = "success" => p.about \in used /\ state[p.about] = "cancelled"
         /\ p.result = "error" => p.about \in used /\ state[p.about] # "open" /\ Settled(p.about)
    /\ p.kind = "move" /\ p.result = "success" => p.to \in used /\ TakenIn(state[p.to])

\* What ends the first wait of a cancellation or a move
OpAnswered(p) ==
    p.stage = "cancel" =>
        /\ p.kind = "cancel" => \E k \in DOMAIN bus :
              \/ bus[k].kind = "del" /\ bus[k].id = p.on
              \/ Cancels(bus[k], p.on) \/ Fails(bus[k], p.on, "Delete")
        /\ p.kind = "move" =>
              \/ \E k \in DOMAIN bus :
                    \/ bus[k].kind = "move" /\ bus[k].to = p.to /\ bus[k].id = p.on
                    \/ Cancels(bus[k], p.on) \/ Fails(bus[k], p.on, "Delete")
              \/ state[p.on] \notin {"open", "cancelled"} /\ Settled(p.on)

\* An event f may follow an event e of the same order.
Precedes(e, f) ==
    /\ e.status # "Cancel" /\ f.status # "Add"
    /\ f.rest <= e.rest /\ (f.status = "Fill" => f.rest < e.rest)
Opens(e) == e.status = "Add" /\ e.rest > 0

\* An event that leaves an order in state st with n of its volume
Tells(e, st, n) == e.rest = n /\ (e.status = "Cancel" <=> st = "cancelled")

\* The events of an order, heard and on the bus, are a life of the order: the
\* first opens it, each may follow those before, a cancellation leaves the rest
\* that an event before it told, and the exchange's own state was told.
EventsChain ==
    \A i \in Ids :
        /\ \A j, k \in DOMAIN bus : j < k /\ Says(bus[j], i) /\ Says(bus[k], i) =>
              Precedes(bus[j], bus[k])
        /\ \A k \in DOMAIN bus : Says(bus[k], i) =>
              /\ Heard(i) => Precedes(Last(history[i]), bus[k])
              /\ Heard(i) \/ Opens(bus[k]) \/ \E j \in DOMAIN bus : j < k /\ Says(bus[j], i)
              /\ bus[k].status = "Cancel" =>
                    \/ Heard(i) /\ Last(history[i]).rest = bus[k].rest
                    \/ \E j \in DOMAIN bus : j < k /\ Says(bus[j], i) /\ bus[j].rest = bus[k].rest

\* The exchange's own state is the one the last of them tells.
StateTold ==
    \A i \in Ids :
        /\ rest[i] > 0 <=> state[i] \in {"open", "cancelled"}
        /\ TakenIn(state[i]) =>
              \/ Heard(i) /\ Tells(Last(history[i]), state[i], rest[i])
              \/ \E k \in DOMAIN bus : Says(bus[k], i) /\ Tells(bus[k], state[i], rest[i])
        /\ \A k \in DOMAIN bus : Says(bus[k], i) => bus[k].rest >= rest[i]
        /\ Heard(i) => Last(history[i]).rest >= rest[i]

\* An order is refused once.
RefusedOnce ==
    \A i \in Ids :
        /\ \A j, k \in DOMAIN bus : Fails(bus[j], i, "Add") /\ Fails(bus[k], i, "Add") => j = k
        /\ "Add" \in errors[i] => \A k \in DOMAIN bus : ~Fails(bus[k], i, "Add")

ChainInv == EventsChain /\ StateTold /\ RefusedOnce /\ PendingsExact

OpsInv == \A o \in Ops : OpKnows(ops[o]) /\ OpTrue(ops[o]) /\ OpAnswered(ops[o])

IInv ==
    /\ TypeOK /\ Asked /\ NewUntold /\ NewsTrue /\ NewsComplete /\ NewsInOrder
    /\ OpsInv

-----------------------------------------------------------------------------
(* Messages and the bus *)

\* The first d messages leave the bus and r joins its end.
Took(d, r) ==
    /\ d \in {0, 1} /\ d <= Len(bus) /\ r \in Seq(Message)
    /\ bus' \in Seq(Message) /\ Len(bus') = Len(bus) - d + Len(r)
    /\ \A k \in DOMAIN bus' :
          bus'[k] = IF k <= Len(bus) - d THEN bus[k + d] ELSE r[k - (Len(bus) - d)]

LEMMA BusType == TypeOK => bus \in Seq(Message)
  BY DEF TypeOK, Message

LEMMA TookAppend ==
  ASSUME bus \in Seq(Message), NEW m \in Message, bus' = Append(bus, m)
  PROVE  Took(0, <<m>>)
  BY DEF Took

LEMMA TookQueued ==
  ASSUME bus \in Seq(Message), bus # <<>>, NEW r \in Seq(Message), bus' = Tail(bus) \o r
  PROVE  Took(1, r)
<1>1. /\ Tail(bus) \in Seq(Message) /\ Len(Tail(bus)) = Len(bus) - 1
      /\ \A k \in 1..Len(bus) - 1 : Tail(bus)[k] = bus[k + 1]
  OBVIOUS
<1>2. /\ bus' \in Seq(Message) /\ Len(bus') = Len(bus) - 1 + Len(r)
      /\ \A k \in 1..Len(bus') :
            bus'[k] = IF k <= Len(bus) - 1 THEN Tail(bus)[k] ELSE r[k - (Len(bus) - 1)]
  BY <1>1, ConcatProperties
<1> QED BY <1>1, <1>2 DEF Took

LEMMA TookTail ==
  ASSUME bus \in Seq(Message), bus # <<>>, bus' = Tail(bus)
  PROVE  Took(1, <<>>)
<1>1. <<>> \in Seq(Message)
  OBVIOUS
<1>2. bus' = Tail(bus) \o <<>>
  BY ConcatEmptySeq
<1> QED BY <1>1, <1>2, TookQueued

\* Where a message on the bus was before, and where those from before are now
LEMMA TookParts ==
  ASSUME bus \in Seq(Message), NEW d, NEW r, Took(d, r)
  PROVE  /\ \A k \in DOMAIN bus' :
              \/ k + d \in DOMAIN bus /\ bus'[k] = bus[k + d]
              \/ \E j \in DOMAIN r : k = Len(bus) - d + j /\ bus'[k] = r[j]
         /\ \A k \in DOMAIN bus : k > d => k - d \in DOMAIN bus' /\ bus'[k - d] = bus[k]
         /\ \A j \in DOMAIN r : /\ Len(bus) - d + j \in DOMAIN bus'
                                /\ bus'[Len(bus) - d + j] = r[j]
<1>1. /\ d \in {0, 1} /\ d <= Len(bus) /\ Len(bus) \in Nat /\ Len(r) \in Nat
      /\ DOMAIN bus = 1..Len(bus) /\ DOMAIN r = 1..Len(r)
      /\ DOMAIN bus' = 1..(Len(bus) - d + Len(r))
  BY DEF Took
<1>2. \A k \in DOMAIN bus' :
          bus'[k] = IF k <= Len(bus) - d THEN bus[k + d] ELSE r[k - (Len(bus) - d)]
  BY DEF Took
<1>3. ASSUME NEW k \in DOMAIN bus'
      PROVE  \/ k + d \in DOMAIN bus /\ bus'[k] = bus[k + d]
             \/ \E j \in DOMAIN r : k = Len(bus) - d + j /\ bus'[k] = r[j]
  <2>1. CASE k <= Len(bus) - d
    BY <1>1, <1>2, <2>1
  <2>2. CASE ~(k <= Len(bus) - d)
    <3>1. k - (Len(bus) - d) \in DOMAIN r
      BY <1>1, <2>2
    <3>2. k = Len(bus) - d + (k - (Len(bus) - d))
      BY <1>1
    <3> QED BY <1>2, <2>2, <3>1, <3>2
  <2> QED BY <2>1, <2>2
<1>4. ASSUME NEW k \in DOMAIN bus, k > d
      PROVE  k - d \in DOMAIN bus' /\ bus'[k - d] = bus[k]
  <2>1. k - d \in DOMAIN bus' /\ k - d <= Len(bus) - d /\ (k - d) + d = k
    BY <1>1, <1>4
  <2> QED BY <1>2, <2>1
<1>5. ASSUME NEW j \in DOMAIN r
      PROVE  /\ Len(bus) - d + j \in DOMAIN bus'
             /\ bus'[Len(bus) - d + j] = r[j]
  <2> DEFINE n == Len(bus) - d
  <2>1. n \in Nat /\ j \in Nat /\ n + j \in DOMAIN bus' /\ ~(n + j <= n) /\ n + j - n = j
    BY <1>1
  <2>2. bus'[n + j] = r[n + j - n]
    <3>1. \A k \in DOMAIN bus' : bus'[k] = IF k <= n THEN bus[k + d] ELSE r[k - n]
      BY <1>2
    <3> HIDE DEF n
    <3> QED BY <2>1, <3>1
  <2>3. bus'[n + j] = r[j]
    <3> HIDE DEF n
    <3> QED BY <2>1, <2>2
  <2> QED BY <2>1, <2>3
<1> QED BY <1>3, <1>4, <1>5

\* Requests are no news; an error says what failed.
LEMMA MessageKinds ==
  ASSUME NEW m \in Message
  PROVE  /\ m.kind \in {"add", "del", "move", "order", "error"}
         /\ m.kind = "order" => m \in Event
         /\ m.kind = "error" => m \in Error /\ m.of \in {"Add", "Delete"}
         /\ m.id \in Ids
         /\ m.kind = "move" => m.to \in Ids /\ m.volume \in 0..MaxVolume
         /\ m.kind = "add" => m.volume \in 0..MaxVolume
  BY DEF Message, Request, Event, Error

-----------------------------------------------------------------------------
(* What placing an order gives *)

LEMMA FillsFacts ==
  ASSUME NEW i \in Ids, NEW v \in 0..MaxVolume, NEW r \in 0..v, NEW f \in Fills(i, v, r)
  PROVE  /\ f \in Seq(Event)
         /\ \A k \in DOMAIN f : f[k].kind = "order" /\ f[k].id = i /\ f[k].status = "Fill"
                                /\ f[k].rest \in r..MaxVolume
<1> USE VolumeAssumption
<1>1. CASE r = v
  BY <1>1 DEF Fills
<1>2. CASE r # v
  <2>0. PICK n \in 1..(v - r) : \E s \in [1..n -> r..(v - 1)] :
          f = [k \in DOMAIN s |-> OrderEvent(i, "Fill", s[k])]
    BY <1>2 DEF Fills
  <2>1. PICK s \in [1..n -> r..(v - 1)] :
          f = [k \in DOMAIN s |-> OrderEvent(i, "Fill", s[k])]
    BY <2>0
  <2>2. n \in Nat /\ DOMAIN s = 1..n
    BY <2>1
  <2>3. \A k \in 1..n : /\ f[k] = [kind |-> "order", id |-> i, status |-> "Fill", rest |-> s[k]]
                        /\ s[k] \in r..MaxVolume /\ s[k] \in 0..MaxVolume
    BY <2>1 DEF OrderEvent
  <2>4. ASSUME NEW k \in 1..n PROVE f[k] \in Event
    <3>1. [kind |-> "order", id |-> i, status |-> "Fill", rest |-> s[k]] \in Event
      BY <2>3 DEF Event
    <3> QED BY <2>3, <3>1
  <2>5. f \in [1..n -> Event]
    BY <2>1, <2>2, <2>4
  <2> QED BY <2>2, <2>3, <2>5
<1> QED BY <1>1, <1>2

\* The exchange drops an order, refuses it, takes it and leaves it open or filled,
\* or takes it and cancels what it could not execute at once.
LEMMA PlacedCases ==
  ASSUME NEW i \in Ids, NEW v \in 0..MaxVolume, NEW a \in Placed(i, v), v > 0
  PROVE  \/ a = [state |-> "refused", rest |-> 0, events |-> <<OrderError(i, "Add")>>]
         \/ \E r \in 0..v, st \in {"open", "filled"} : \E f \in Fills(i, v, r) :
              /\ st = "filled" <=> r = 0
              /\ a = [state |-> st, rest |-> r, events |-> <<OrderEvent(i, "Add", v)>> \o f]
         \/ \E r \in 1..v : \E f \in Fills(i, v, r) :
              a = [state |-> "cancelled", rest |-> r,
                   events |-> Append(<<OrderEvent(i, "Add", v)>> \o f, OrderEvent(i, "Cancel", r))]
<1> USE VolumeAssumption
<1> DEFINE Add == OrderEvent(i, "Add", v)
           Taken(r, st) == {[state |-> st, rest |-> r, events |-> <<Add>> \o f] : f \in Fills(i, v, r)}
           Killed(r) == {[b EXCEPT !.events = Append(@, OrderEvent(i, "Cancel", r))] :
                           b \in Taken(r, "cancelled")}
<1>1. \/ a = [state |-> "refused", rest |-> 0, events |-> <<OrderError(i, "Add")>>]
      \/ a \in Taken(0, "filled")
      \/ \E r \in 1..v : a \in Taken(r, "open")
      \/ \E r \in 1..v : a \in Killed(r)
  <2> DEFINE Whole == {[state |-> "refused", rest |-> 0, events |-> <<OrderError(i, "Add")>>]}
                \cup Taken(0, "filled") \cup UNION {Taken(r, "open") \cup Killed(r) : r \in 1..v}
  <2>1. Placed(i, v) = IF v <= 0 THEN {[state |-> "dropped", rest |-> 0, events |-> <<>>]} ELSE Whole
    BY Zenon DEF Placed
  <2>2. a \in Whole
    <3> HIDE DEF Whole
    <3> QED BY <2>1
  <2> HIDE DEF Taken, Killed
  <2> QED BY <2>2
<1>2. ASSUME NEW r, a \in Killed(r)
      PROVE  \E f \in Fills(i, v, r) :
               a = [state |-> "cancelled", rest |-> r,
                    events |-> Append(<<Add>> \o f, OrderEvent(i, "Cancel", r))]
  <2>1. PICK b \in Taken(r, "cancelled") : a = [b EXCEPT !.events = Append(@, OrderEvent(i, "Cancel", r))]
    BY <1>2
  <2>2. PICK f \in Fills(i, v, r) : b = [state |-> "cancelled", rest |-> r, events |-> <<Add>> \o f]
    BY <2>1
  <2> QED BY <2>1, <2>2
<1>3. CASE a \in Taken(0, "filled")
  <2>1. 0 \in 0..v
    OBVIOUS
  <2> QED BY <1>3, <2>1
<1>4. ASSUME NEW r \in 1..v, a \in Taken(r, "open")
      PROVE  \E x \in 0..v, st \in {"open", "filled"} : \E f \in Fills(i, v, x) :
                /\ st = "filled" <=> x = 0
                /\ a = [state |-> st, rest |-> x, events |-> <<Add>> \o f]
  <2>1. r \in 0..v /\ r # 0
    OBVIOUS
  <2> QED BY <1>4, <2>1
<1> QED BY <1>1, <1>2, <1>3, <1>4

\* What an order placed with some end and some rest reports
Report(i, st, e) ==
    \/ /\ Says(e, i) /\ TakenIn(st)
       /\ e.status = "Cancel" => st = "cancelled"
       /\ e.status # "Cancel" /\ e.rest = 0 => st = "filled"
    \/ Fails(e, i, "Add") /\ st = "refused"

States == {"unknown", "dropped", "refused", "open", "filled", "cancelled"}

LEMMA PlacedFacts ==
  ASSUME NEW i \in Ids, NEW v \in 0..MaxVolume, NEW a \in Placed(i, v)
  PROVE  /\ a.state \in States \ {"unknown"} /\ a.rest \in 0..MaxVolume
         /\ a.events \in Seq(Event \cup Error)
         /\ \A k \in DOMAIN a.events : Report(i, a.state, a.events[k])
         /\ \A j, k \in DOMAIN a.events : j < k => ~Cancels(a.events[j], i)
         /\ TakenIn(a.state) => \E k \in DOMAIN a.events : Says(a.events[k], i)
         /\ a.state = "refused" => \E k \in DOMAIN a.events : Fails(a.events[k], i, "Add")
         /\ a.state = "cancelled" => \E k \in DOMAIN a.events : Cancels(a.events[k], i)
<1> USE VolumeAssumption
<1> DEFINE Add == OrderEvent(i, "Add", v)
<1>1. Add \in Event /\ Says(Add, i) /\ Add.status = "Add" /\ Add.rest = v
  BY DEF OrderEvent, Event, Says
<1> HIDE DEF Add
<1>2. ASSUME NEW r \in 0..v, NEW f \in Fills(i, v, r)
      PROVE  /\ <<Add>> \o f \in Seq(Event) /\ Len(<<Add>> \o f) = 1 + Len(f) /\ Len(f) \in Nat
             /\ (<<Add>> \o f)[1] = Add
             /\ \A k \in 1..1 + Len(f) : LET e == (<<Add>> \o f)[k] IN
                   Says(e, i) /\ e.status # "Cancel" /\ (v > 0 => e.rest \in r..MaxVolume)
  <2>1. /\ f \in Seq(Event)
        /\ \A k \in DOMAIN f : f[k].kind = "order" /\ f[k].id = i /\ f[k].status = "Fill"
                               /\ f[k].rest \in r..MaxVolume
    BY <1>2, FillsFacts
  <2>2. <<Add>> \in Seq(Event) /\ Len(<<Add>>) = 1
    BY <1>1
  <2>3. /\ <<Add>> \o f \in Seq(Event) /\ Len(<<Add>> \o f) = 1 + Len(f) /\ Len(f) \in Nat
        /\ \A k \in 1..1 + Len(f) : (<<Add>> \o f)[k] = IF k <= 1 THEN <<Add>>[k] ELSE f[k - 1]
    BY <2>1, <2>2, ConcatProperties
  <2>4. ASSUME NEW k \in 1..1 + Len(f)
        PROVE  LET e == (<<Add>> \o f)[k] IN
                   Says(e, i) /\ e.status # "Cancel" /\ (v > 0 => e.rest \in r..MaxVolume)
    <3>1. CASE k = 1
      BY <1>1, <2>3, <3>1
    <3>2. CASE k # 1
      <4>1. k - 1 \in DOMAIN f /\ (<<Add>> \o f)[k] = f[k - 1]
        BY <2>1, <2>3, <3>2
      <4> QED BY <2>1, <4>1 DEF Says
    <3> QED BY <3>1, <3>2
  <2> QED BY <2>3, <2>4
<1> DEFINE Facts(b) ==
         /\ b.state \in States \ {"unknown"} /\ b.rest \in 0..MaxVolume
         /\ b.events \in Seq(Event \cup Error)
         /\ \A k \in DOMAIN b.events : Report(i, b.state, b.events[k])
         /\ \A j, k \in DOMAIN b.events : j < k => ~Cancels(b.events[j], i)
         /\ TakenIn(b.state) => \E k \in DOMAIN b.events : Says(b.events[k], i)
         /\ b.state = "refused" => \E k \in DOMAIN b.events : Fails(b.events[k], i, "Add")
         /\ b.state = "cancelled" => \E k \in DOMAIN b.events : Cancels(b.events[k], i)
<1>3. CASE v <= 0
  <2>1. a = [state |-> "dropped", rest |-> 0, events |-> <<>>]
    BY <1>3 DEF Placed
  <2> QED BY <2>1 DEF TakenIn, States
<1>4. ASSUME a = [state |-> "refused", rest |-> 0, events |-> <<OrderError(i, "Add")>>]
      PROVE  Facts(a)
  <2>1. OrderError(i, "Add") \in Error /\ Fails(OrderError(i, "Add"), i, "Add")
    BY DEF OrderError, Error, Fails
  <2>2. a.events \in Seq(Event \cup Error) /\ DOMAIN a.events = {1} /\ a.events[1] = OrderError(i, "Add")
    BY <1>4, <2>1
  <2>3. \A k \in DOMAIN a.events : Report(i, a.state, a.events[k])
    BY <1>4, <2>1, <2>2 DEF Report
  <2>4. \A j, k \in DOMAIN a.events : ~(j < k)
    BY <2>2
  <2> QED BY <1>4, <2>1, <2>2, <2>3, <2>4 DEF TakenIn, States
<1>5. ASSUME NEW r \in 0..v, NEW f \in Fills(i, v, r), v > 0,
             NEW st \in {"open", "filled"}, st = "filled" <=> r = 0,
             a = [state |-> st, rest |-> r, events |-> <<Add>> \o f]
      PROVE  Facts(a)
  <2> DEFINE s == <<Add>> \o f
  <2>1. /\ s \in Seq(Event) /\ s \in Seq(Event \cup Error) /\ DOMAIN s = 1..1 + Len(f) /\ Len(f) \in Nat /\ s[1] = Add
        /\ \A k \in DOMAIN s : Says(s[k], i) /\ s[k].status # "Cancel" /\ s[k].rest \in r..MaxVolume
    BY <1>2, <1>5
  <2> HIDE DEF s
  <2>2. a.events = s /\ a.state = st /\ a.rest = r
    BY <1>5 DEF s
  <2>3. ASSUME NEW k \in DOMAIN s PROVE Report(i, st, s[k]) /\ ~Cancels(s[k], i)
    BY <1>5, <2>1 DEF Report, Cancels, TakenIn
  <2>4. \E k \in DOMAIN s : Says(s[k], i)
    <3>1. 1 \in DOMAIN s
      BY <2>1
    <3> QED BY <1>1, <2>1, <3>1
  <2>5. a.state \in States \ {"unknown"} /\ a.state # "refused" /\ a.state # "cancelled"
    BY <1>5, <2>2 DEF States
  <2>6. a.rest \in 0..MaxVolume /\ a.events \in Seq(Event \cup Error)
    BY <2>1, <2>2
  <2>7. /\ \A k \in DOMAIN a.events : Report(i, a.state, a.events[k])
        /\ \A j, k \in DOMAIN a.events : j < k => ~Cancels(a.events[j], i)
        /\ \E k \in DOMAIN a.events : Says(a.events[k], i)
    BY <2>2, <2>3, <2>4
  <2> QED BY <2>5, <2>6, <2>7
<1>6. ASSUME NEW r \in 1..v, NEW f \in Fills(i, v, r), v > 0,
             a = [state |-> "cancelled", rest |-> r,
                  events |-> Append(<<Add>> \o f, OrderEvent(i, "Cancel", r))]
      PROVE  Facts(a)
  <2> DEFINE s == <<Add>> \o f
             c == OrderEvent(i, "Cancel", r)
  <2>1. /\ s \in Seq(Event) /\ Len(s) = 1 + Len(f) /\ Len(f) \in Nat
        /\ \A k \in 1..Len(s) : Says(s[k], i) /\ s[k].status # "Cancel" /\ s[k].rest \in r..MaxVolume
    BY <1>2, <1>6
  <2>2. c \in Event /\ Says(c, i) /\ Cancels(c, i) /\ c.status = "Cancel"
    BY DEF OrderEvent, Event, Says, Cancels
  <2> HIDE DEF s, c
  <2>3. a.events = Append(s, c) /\ a.state = "cancelled" /\ a.rest = r
    BY <1>6 DEF s, c
  <2>4. /\ Append(s, c) \in Seq(Event) /\ Append(s, c) \in Seq(Event \cup Error)
        /\ DOMAIN Append(s, c) = 1..Len(s) + 1
        /\ \A k \in 1..Len(s) : Append(s, c)[k] = s[k]
        /\ Append(s, c)[Len(s) + 1] = c
    BY <2>1, <2>2, AppendProperties
  <2>5. ASSUME NEW k \in DOMAIN a.events
        PROVE  /\ Report(i, "cancelled", a.events[k])
               /\ k # Len(s) + 1 => ~Cancels(a.events[k], i)
    <3>1. CASE k = Len(s) + 1
      BY <2>2, <2>3, <2>4, <3>1 DEF Report, TakenIn
    <3>2. CASE k # Len(s) + 1
      <4>1. k \in 1..Len(s) /\ a.events[k] = s[k]
        BY <2>1, <2>3, <2>4, <3>2
      <4> QED BY <2>1, <4>1 DEF Report, TakenIn, Cancels
    <3> QED BY <3>1, <3>2
  <2>6. \A j, k \in DOMAIN a.events : j < k => ~Cancels(a.events[j], i)
    BY <2>1, <2>3, <2>4, <2>5
  <2>7. Len(s) + 1 \in DOMAIN a.events /\ a.events[Len(s) + 1] = c
    BY <2>1, <2>3, <2>4
  <2>8. a.rest \in 0..MaxVolume
    BY <2>3
  <2> QED BY <2>2, <2>3, <2>4, <2>5, <2>6, <2>7, <2>8 DEF States
<1>7. CASE v > 0
  <2> SUFFICES Facts(a)
    OBVIOUS
  <2> HIDE DEF Facts
  <2>1. CASE a = [state |-> "refused", rest |-> 0, events |-> <<OrderError(i, "Add")>>]
    BY <1>4, <2>1
  <2>2. CASE \E r \in 0..v, st \in {"open", "filled"} : \E f \in Fills(i, v, r) :
               (st = "filled" <=> r = 0) /\ a = [state |-> st, rest |-> r, events |-> <<Add>> \o f]
    BY <1>5, <1>7, <2>2
  <2>3. CASE \E r \in 1..v : \E f \in Fills(i, v, r) :
               a = [state |-> "cancelled", rest |-> r,
                    events |-> Append(<<Add>> \o f, OrderEvent(i, "Cancel", r))]
    BY <1>6, <1>7, <2>3
  <2> QED BY <1>7, <2>1, <2>2, <2>3, PlacedCases DEF Add
<1> QED BY <1>3, <1>7

-----------------------------------------------------------------------------
(* Steps of the exchange *)

\* Order i is the one the request just taken from the bus places.
PlacedNow(d, i) == d = 1 /\ Places(bus[1], i)

\* What the exchange's steps have in common: a request leaves the bus or none,
\* reports join it; an order is taken or refused when it is placed, and ends
\* when it was open; the reports say just that.
ExchangeStep(d, r) ==
    /\ Took(d, r)
    /\ UNCHANGED <<used, history, errors, pendings, closed, ops>>
    /\ d = 1 => bus[1].kind \in {"add", "del", "move"}
    /\ state' \in [Ids -> States] /\ rest' \in [Ids -> 0..MaxVolume]
    /\ \A k \in DOMAIN r : r[k].id \in used /\ r[k].kind \in {"order", "error"}
    /\ \A i \in Ids :
         /\ state'[i] # state[i] =>
              \/ state[i] = "open" /\ state'[i] \in {"filled", "cancelled"}
              \/ PlacedNow(d, i)
         /\ \A k \in DOMAIN r :
              /\ Says(r[k], i) => TrueOf(r[k], state'[i]) /\ (state[i] = "open" \/ PlacedNow(d, i))
              /\ Fails(r[k], i, "Add") => state'[i] = "refused" /\ PlacedNow(d, i)
              /\ Fails(r[k], i, "Delete") =>
                    state'[i] = state[i] /\ state[i] # "open" /\ d = 1 /\ Wants(bus[1], i)
         /\ PlacedNow(d, i) /\ TakenIn(state'[i]) => \E k \in DOMAIN r : Says(r[k], i)
         /\ PlacedNow(d, i) /\ state'[i] = "refused" => \E k \in DOMAIN r : Fails(r[k], i, "Add")
         /\ state'[i] = "cancelled" /\ state[i] # "cancelled" => \E k \in DOMAIN r : Cancels(r[k], i)
         /\ \A j, k \in DOMAIN r : j < k /\ Cancels(r[j], i) => ~Says(r[k], i)
         /\ d = 1 /\ bus[1].id = i /\ bus[1].kind = "del" =>
              \E k \in DOMAIN r : Cancels(r[k], i) \/ Fails(r[k], i, "Delete")
         /\ d = 1 /\ bus[1].id = i /\ bus[1].kind = "move" =>
              \/ \E k \in DOMAIN r : Cancels(r[k], i)
              \/ state[i] # "open" /\ state'[i] = state[i]

\* Where the messages are after a step
LEMMA ExchangeBus ==
  ASSUME IInv, NEW d, NEW r, ExchangeStep(d, r)
  PROVE  /\ \A k \in DOMAIN bus' :
              \/ k + d \in DOMAIN bus /\ bus'[k] = bus[k + d]
              \/ \E j \in DOMAIN r : k = Len(bus) - d + j /\ bus'[k] = r[j]
         /\ \A k \in DOMAIN bus : k > d => k - d \in DOMAIN bus' /\ bus'[k - d] = bus[k]
         /\ \A j \in DOMAIN r : Len(bus) - d + j \in DOMAIN bus' /\ bus'[Len(bus) - d + j] = r[j]
         /\ \A k \in DOMAIN bus : ~(k > d) => k = 1 /\ d = 1
         /\ d \in {0, 1} /\ DOMAIN bus = 1..Len(bus) /\ Len(bus) \in Nat
         /\ \A j \in DOMAIN r : j \in Nat \ {0}
         /\ DOMAIN bus' \subseteq Nat \ {0}
<1>1. bus \in Seq(Message) /\ Took(d, r)
  BY BusType DEF IInv, ExchangeStep
<1>2. /\ d \in {0, 1} /\ d <= Len(bus) /\ Len(bus) \in Nat /\ Len(r) \in Nat
      /\ DOMAIN bus = 1..Len(bus) /\ DOMAIN r = 1..Len(r)
      /\ DOMAIN bus' = 1..(Len(bus) - d + Len(r))
  BY <1>1 DEF Took
<1>3. /\ \A k \in DOMAIN bus : ~(k > d) => k = 1 /\ d = 1
      /\ \A j \in DOMAIN r : j \in Nat \ {0}
      /\ DOMAIN bus' \subseteq Nat \ {0}
  BY <1>2
<1>4. /\ \A k \in DOMAIN bus' :
              \/ k + d \in DOMAIN bus /\ bus'[k] = bus[k + d]
              \/ \E j \in DOMAIN r : k = Len(bus) - d + j /\ bus'[k] = r[j]
      /\ \A k \in DOMAIN bus : k > d => k - d \in DOMAIN bus' /\ bus'[k - d] = bus[k]
      /\ \A j \in DOMAIN r : Len(bus) - d + j \in DOMAIN bus' /\ bus'[Len(bus) - d + j] = r[j]
  BY <1>1, TookParts, Zenon
<1> QED BY <1>2, <1>3, <1>4, Zenon

\* News on the bus was there before, or is the exchange's; requests were there.
LEMMA ExchangeNews ==
  ASSUME IInv, NEW d, NEW r, ExchangeStep(d, r), NEW i \in Ids
  PROVE  /\ \A k \in DOMAIN bus' : Places(bus'[k], i) \/ Wants(bus'[k], i) =>
                k + d \in DOMAIN bus /\ bus'[k] = bus[k + d]
         /\ \A k \in DOMAIN bus : bus[k].kind \in {"order", "error"} =>
                k > d /\ k - d \in DOMAIN bus' /\ bus'[k - d] = bus[k]
<1>1. ASSUME NEW k \in DOMAIN bus', Places(bus'[k], i) \/ Wants(bus'[k], i)
      PROVE  k + d \in DOMAIN bus /\ bus'[k] = bus[k + d]
  <2>1. bus'[k].kind \notin {"order", "error"}
    BY <1>1 DEF Places, Wants
  <2>2. \A j \in DOMAIN r : r[j].kind \in {"order", "error"}
    BY DEF ExchangeStep
  <2> QED BY <2>1, <2>2, ExchangeBus
<1>2. ASSUME NEW k \in DOMAIN bus, bus[k].kind \in {"order", "error"}
      PROVE  k > d
  <2>1. ~(k > d) => bus[k].kind \in {"add", "del", "move"}
    BY ExchangeBus DEF ExchangeStep
  <2> QED BY <1>2, <2>1
<1> QED BY <1>1, <1>2, ExchangeBus

LEMMA ExchangeAsked ==
  ASSUME IInv, NEW d, NEW r, ExchangeStep(d, r)
  PROVE  Asked'
<1> USE DEF IInv
<1>0. used' = used
  BY DEF ExchangeStep
<1>1. ASSUME NEW k \in DOMAIN bus'
      PROVE  /\ bus'[k].id \in used
             /\ bus'[k].kind = "move" => bus'[k].to \in used /\ bus'[k].to # bus'[k].id
  <2>1. CASE k + d \in DOMAIN bus /\ bus'[k] = bus[k + d]
    BY <2>1 DEF Asked
  <2>2. CASE \E j \in DOMAIN r : bus'[k] = r[j]
    BY <2>2 DEF ExchangeStep
  <2> QED BY <2>1, <2>2, ExchangeBus
<1>2. ASSUME NEW i \in Ids, NEW j \in DOMAIN bus', NEW k \in DOMAIN bus',
             Places(bus'[j], i), Places(bus'[k], i)
      PROVE  j = k
  <2>1. /\ j + d \in DOMAIN bus /\ bus'[j] = bus[j + d]
        /\ k + d \in DOMAIN bus /\ bus'[k] = bus[k + d]
    BY <1>2, ExchangeNews
  <2>2. j + d = k + d
    BY <1>2, <2>1 DEF Asked
  <2> QED BY <2>2, ExchangeBus
<1>3. ASSUME NEW i \in Ids, NEW j \in DOMAIN bus', NEW k \in DOMAIN bus',
             j < k, Wants(bus'[j], i), Places(bus'[k], i)
      PROVE  FALSE
  <2>1. /\ j + d \in DOMAIN bus /\ bus'[j] = bus[j + d]
        /\ k + d \in DOMAIN bus /\ bus'[k] = bus[k + d]
    BY <1>3, ExchangeNews
  <2>2. j + d < k + d
    BY <1>3, ExchangeBus
  <2> QED BY <1>3, <2>1, <2>2 DEF Asked
<1> QED BY <1>0, <1>1, <1>2, <1>3 DEF Asked

\* Somebody asks for an order: it is not the one placed in this step, and what
\* is asked of that one comes later.
LEMMA ExchangePlaces ==
  ASSUME IInv, NEW d, NEW r, ExchangeStep(d, r), NEW i \in Ids
  PROVE  /\ PlacedNow(d, i) => Untold(i) /\ i \in pendings /\ i \in used
         /\ \A k \in DOMAIN bus' : Places(bus'[k], i) =>
               /\ Untold(i) /\ i \in pendings /\ ~PlacedNow(d, i)
               /\ ~(d = 1 /\ Wants(bus[1], i))
<1> USE DEF IInv
<1>0. d = 1 => 1 \in DOMAIN bus
  BY ExchangeBus DEF ExchangeStep, Took
<1>1. PlacedNow(d, i) => Untold(i) /\ i \in pendings /\ i \in used
  BY <1>0 DEF PlacedNow, NewUntold, TypeOK
<1>2. ASSUME NEW k \in DOMAIN bus', Places(bus'[k], i)
      PROVE  /\ Untold(i) /\ i \in pendings /\ ~PlacedNow(d, i)
             /\ ~(d = 1 /\ Wants(bus[1], i))
  <2>1. k + d \in DOMAIN bus /\ Places(bus[k + d], i)
    BY <1>2, ExchangeNews
  <2>2. d = 1 => 1 < k + d /\ 1 # k + d
    BY ExchangeBus
  <2>3. ~PlacedNow(d, i)
    BY <1>0, <2>1, <2>2 DEF Asked, PlacedNow
  <2>4. ~(d = 1 /\ Wants(bus[1], i))
    BY <1>0, <2>1, <2>2 DEF Asked
  <2> QED BY <2>1, <2>3, <2>4 DEF NewUntold
<1> QED BY <1>1, <1>2

\* An order nobody can have heard of, and that is not placed now, stays so.
LEMMA ExchangeStaysUntold ==
  ASSUME IInv, NEW d, NEW r, ExchangeStep(d, r), NEW i \in Ids,
         Untold(i), ~PlacedNow(d, i), ~(d = 1 /\ Wants(bus[1], i))
  PROVE  Untold(i)'
<1>1. state'[i] = "unknown" /\ ~Heard(i)' /\ errors'[i] = {}
  BY DEF Untold, ExchangeStep, Heard
<1>2. ASSUME NEW k \in DOMAIN bus'
      PROVE  ~Says(bus'[k], i) /\ (bus'[k].kind = "error" => bus'[k].id # i)
  <2>1. CASE k + d \in DOMAIN bus /\ bus'[k] = bus[k + d]
    BY <2>1 DEF Untold
  <2>2. ASSUME NEW j \in DOMAIN r, bus'[k] = r[j]
        PROVE  ~Says(bus'[k], i) /\ (bus'[k].kind = "error" => bus'[k].id # i)
    <3>1. ~Says(r[j], i) /\ ~Fails(r[j], i, "Add") /\ ~Fails(r[j], i, "Delete")
      BY DEF ExchangeStep, Untold
    <3>2. r[j] \in Message
      BY DEF ExchangeStep, Took
    <3>3. r[j].kind = "error" => r[j].of \in {"Add", "Delete"}
      BY <3>2, MessageKinds
    <3> QED BY <2>2, <3>1, <3>3 DEF Fails
  <2> QED BY <2>1, <2>2, ExchangeBus
<1> QED BY <1>1, <1>2 DEF Untold

LEMMA ExchangeUntold ==
  ASSUME IInv, NEW d, NEW r, ExchangeStep(d, r)
  PROVE  NewUntold'
<1> USE DEF IInv
<1>0. used' = used /\ pendings' = pendings
  BY DEF ExchangeStep
<1>1. ASSUME NEW i \in Ids \ used PROVE Untold(i)'
  <2>1. d = 1 => 1 \in DOMAIN bus
    BY ExchangeBus DEF ExchangeStep, Took
  <2>2. ~PlacedNow(d, i) /\ ~(d = 1 /\ Wants(bus[1], i))
    BY <2>1, ExchangePlaces DEF Asked, Wants
  <2> QED BY <2>2, ExchangeStaysUntold DEF NewUntold
<1>2. ASSUME NEW i \in Ids, NEW k \in DOMAIN bus', Places(bus'[k], i)
      PROVE  Untold(i)' /\ i \in pendings
  BY <1>2, ExchangePlaces, ExchangeStaysUntold
<1> QED BY <1>0, <1>1, <1>2 DEF NewUntold

\* What may happen to an order in a step of the exchange
LEMMA ExchangeOrder ==
  ASSUME IInv, NEW d, NEW r, ExchangeStep(d, r), NEW i \in Ids
  PROVE  /\ state[i] \in States /\ state'[i] \in States
         /\ PlacedNow(d, i) => state[i] = "unknown"
         /\ TakenIn(state[i]) => TakenIn(state'[i])
         /\ state[i] \in {"filled", "cancelled", "refused"} => state'[i] = state[i]
         /\ ~PlacedNow(d, i) /\ state[i] # "open" => state'[i] = state[i]
         /\ state'[i] = "open" => state[i] = "open" \/ PlacedNow(d, i)
<1>1. state[i] \in States /\ state'[i] \in States
  BY DEF IInv, TypeOK, States, ExchangeStep
<1>2. PlacedNow(d, i) => state[i] = "unknown"
  BY ExchangePlaces DEF Untold
<1>3. state'[i] # state[i] =>
              \/ state[i] = "open" /\ state'[i] \in {"filled", "cancelled"}
              \/ PlacedNow(d, i)
  BY DEF ExchangeStep
<1> QED BY <1>1, <1>2, <1>3 DEF TakenIn

LEMMA ExchangeTrue ==
  ASSUME IInv, NEW d, NEW r, ExchangeStep(d, r)
  PROVE  NewsTrue'
<1> USE DEF IInv
<1>1. SUFFICES ASSUME NEW i \in Ids
      PROVE  /\ \A k \in DOMAIN bus' :
                  /\ Says(bus'[k], i) => TrueOf(bus'[k], state'[i])
                  /\ Fails(bus'[k], i, "Add") => state'[i] = "refused"
                  /\ Fails(bus'[k], i, "Delete") => state'[i] # "open"
             /\ Heard(i)' => TrueOf(Last(history'[i]), state'[i])
             /\ "Add" \in errors'[i] => state'[i] = "refused"
             /\ "Delete" \in errors'[i] => state'[i] # "open"
  BY DEF NewsTrue, Says, Fails
<1>2. ASSUME NEW e, TrueOf(e, state[i]) PROVE TrueOf(e, state'[i])
  BY <1>2, ExchangeOrder DEF TrueOf, TakenIn
<1>3. PlacedNow(d, i) => Untold(i)
  BY ExchangePlaces
<1>4. history' = history /\ errors' = errors
  BY DEF ExchangeStep
<1>5. Heard(i)' => TrueOf(Last(history'[i]), state'[i])
  BY <1>2, <1>4 DEF NewsTrue, Heard
<1>6. "Add" \in errors'[i] => state'[i] = "refused"
  BY <1>4, ExchangeOrder DEF NewsTrue
<1>7. "Delete" \in errors'[i] => state'[i] # "open"
  <2>1. "Delete" \in errors[i] => state[i] # "open" /\ ~PlacedNow(d, i)
    BY <1>3 DEF NewsTrue, Untold
  <2> QED BY <1>4, <2>1, ExchangeOrder
<1>8. ASSUME NEW k \in DOMAIN bus'
      PROVE  /\ Says(bus'[k], i) => TrueOf(bus'[k], state'[i])
             /\ Fails(bus'[k], i, "Add") => state'[i] = "refused"
             /\ Fails(bus'[k], i, "Delete") => state'[i] # "open"
  <2>1. CASE k + d \in DOMAIN bus /\ bus'[k] = bus[k + d]
    <3>1. /\ Says(bus'[k], i) => TrueOf(bus'[k], state[i])
          /\ Fails(bus'[k], i, "Add") => state[i] = "refused"
          /\ Fails(bus'[k], i, "Delete") => state[i] # "open" /\ ~Untold(i)
      BY <2>1 DEF NewsTrue, Untold, Fails
    <3> QED BY <1>2, <1>3, <3>1, ExchangeOrder
  <2>2. ASSUME NEW j \in DOMAIN r, bus'[k] = r[j]
        PROVE  /\ Says(bus'[k], i) => TrueOf(bus'[k], state'[i])
               /\ Fails(bus'[k], i, "Add") => state'[i] = "refused"
               /\ Fails(bus'[k], i, "Delete") => state'[i] # "open"
    <3>1. /\ Says(r[j], i) => TrueOf(r[j], state'[i])
          /\ Fails(r[j], i, "Add") => state'[i] = "refused"
          /\ Fails(r[j], i, "Delete") => state'[i] = state[i] /\ state[i] # "open"
      BY DEF ExchangeStep
    <3> QED BY <2>2, <3>1 DEF TrueOf
  <2> QED BY <2>1, <2>2, ExchangeBus
<1> QED BY <1>5, <1>6, <1>7, <1>8

LEMMA ExchangeComplete ==
  ASSUME IInv, NEW d, NEW r, ExchangeStep(d, r)
  PROVE  NewsComplete'
<1> USE DEF IInv
<1>1. SUFFICES ASSUME NEW i \in Ids
      PROVE  /\ TakenIn(state'[i]) => Heard(i) \/ \E k \in DOMAIN bus' : Says(bus'[k], i)
             /\ state'[i] = "refused" =>
                  "Add" \in errors[i] \/ \E k \in DOMAIN bus' : Fails(bus'[k], i, "Add")
             /\ state'[i] = "cancelled" =>
                  HeardCancel(i) \/ \E k \in DOMAIN bus' : Cancels(bus'[k], i)
             /\ state'[i] = "open" /\ i \notin pendings => Heard(i)
  BY DEF NewsComplete, Says, Fails, Cancels, Heard, HeardCancel, ExchangeStep
<1>2. \A k \in DOMAIN bus : bus[k].kind \in {"order", "error"} =>
          k - d \in DOMAIN bus' /\ bus'[k - d] = bus[k]
  BY ExchangeNews
<1>3. \A j \in DOMAIN r : \E k \in DOMAIN bus' : bus'[k] = r[j]
  BY ExchangeBus
<1>4. TakenIn(state'[i]) => Heard(i) \/ \E k \in DOMAIN bus' : Says(bus'[k], i)
  <2>1. CASE TakenIn(state[i])
    <3>1. Heard(i) \/ \E k \in DOMAIN bus : Says(bus[k], i)
      BY <2>1 DEF NewsComplete
    <3>2. \A k \in DOMAIN bus : Says(bus[k], i) => bus[k].kind \in {"order", "error"}
      BY DEF Says
    <3> QED BY <1>2, <3>1, <3>2
  <2>2. CASE ~TakenIn(state[i]) /\ TakenIn(state'[i])
    <3>1. PlacedNow(d, i)
      BY <2>2, ExchangeOrder DEF TakenIn
    <3>2. \E k \in DOMAIN r : Says(r[k], i)
      BY <2>2, <3>1 DEF ExchangeStep
    <3> QED BY <1>3, <3>2
  <2> QED BY <2>1, <2>2
<1>5. state'[i] = "refused" => "Add" \in errors[i] \/ \E k \in DOMAIN bus' : Fails(bus'[k], i, "Add")
  <2>1. CASE state[i] = "refused"
    <3>1. "Add" \in errors[i] \/ \E k \in DOMAIN bus : Fails(bus[k], i, "Add")
      BY <2>1 DEF NewsComplete
    <3>2. \A k \in DOMAIN bus : Fails(bus[k], i, "Add") => bus[k].kind \in {"order", "error"}
      BY DEF Fails
    <3> QED BY <1>2, <3>1, <3>2
  <2>2. CASE state[i] # "refused" /\ state'[i] = "refused"
    <3>1. PlacedNow(d, i)
      BY <2>2 DEF ExchangeStep
    <3>2. \E k \in DOMAIN r : Fails(r[k], i, "Add")
      BY <2>2, <3>1 DEF ExchangeStep
    <3> QED BY <1>3, <3>2
  <2> QED BY <2>1, <2>2
<1>6. state'[i] = "cancelled" => HeardCancel(i) \/ \E k \in DOMAIN bus' : Cancels(bus'[k], i)
  <2>1. CASE state[i] = "cancelled"
    <3>1. HeardCancel(i) \/ \E k \in DOMAIN bus : Cancels(bus[k], i)
      BY <2>1 DEF NewsComplete
    <3>2. \A k \in DOMAIN bus : Cancels(bus[k], i) => bus[k].kind \in {"order", "error"}
      BY DEF Cancels, Says
    <3> QED BY <1>2, <3>1, <3>2
  <2>2. CASE state[i] # "cancelled" /\ state'[i] = "cancelled"
    <3>1. \E k \in DOMAIN r : Cancels(r[k], i)
      BY <2>2 DEF ExchangeStep
    <3> QED BY <1>3, <3>1
  <2> QED BY <2>1, <2>2
<1>7. state'[i] = "open" /\ i \notin pendings => Heard(i)
  BY ExchangeOrder, ExchangePlaces DEF NewsComplete
<1> QED BY <1>4, <1>5, <1>6, <1>7

LEMMA ExchangeInOrder ==
  ASSUME IInv, NEW d, NEW r, ExchangeStep(d, r)
  PROVE  NewsInOrder'
<1> USE DEF IInv
<1>1. SUFFICES ASSUME NEW i \in Ids
      PROVE  /\ \A j, k \in DOMAIN bus' : j < k /\ Cancels(bus'[j], i) => ~Says(bus'[k], i)
             /\ HeardCancel(i) => \A k \in DOMAIN bus' : ~Says(bus'[k], i)
             /\ \A k \in DOMAIN bus' : Fails(bus'[k], i, "Delete") /\ TakenIn(state'[i]) =>
                   Heard(i) \/ \E j \in DOMAIN bus' : j < k /\ Says(bus'[j], i)
             /\ "Delete" \in errors[i] /\ TakenIn(state'[i]) => Heard(i)
  BY DEF NewsInOrder, Says, Fails, Cancels, Heard, HeardCancel, ExchangeStep
\* A step says nothing of an order that is cancelled.
<1>2. ASSUME NEW j \in DOMAIN r, Says(r[j], i) PROVE state[i] \in {"open", "unknown"}
  BY <1>2, ExchangePlaces DEF ExchangeStep, Untold
<1>3. ASSUME NEW j \in DOMAIN bus', NEW k \in DOMAIN bus', j < k,
             Cancels(bus'[j], i), Says(bus'[k], i)
      PROVE  FALSE
  <2>1. CASE j + d \in DOMAIN bus /\ bus'[j] = bus[j + d]
    <3>1. state[i] = "cancelled"
      BY <1>3, <2>1 DEF NewsTrue, TrueOf, Cancels
    <3>2. CASE k + d \in DOMAIN bus /\ bus'[k] = bus[k + d]
      <4>1. j + d < k + d
        BY <1>3, ExchangeBus
      <4> QED BY <1>3, <2>1, <3>2, <4>1 DEF NewsInOrder
    <3>3. CASE \E n \in DOMAIN r : bus'[k] = r[n]
      BY <1>2, <1>3, <3>1, <3>3
    <3> QED BY <3>2, <3>3, ExchangeBus
  <2>2. ASSUME NEW n \in DOMAIN r, j = Len(bus) - d + n, bus'[j] = r[n]
        PROVE  FALSE
    <3>1. CASE k + d \in DOMAIN bus /\ bus'[k] = bus[k + d]
      BY <1>3, <2>2, <3>1, ExchangeBus
    <3>2. ASSUME NEW l \in DOMAIN r, k = Len(bus) - d + l, bus'[k] = r[l]
          PROVE  FALSE
      <4>1. n < l
        BY <1>3, <2>2, <3>2, ExchangeBus
      <4> QED BY <1>3, <2>2, <3>2, <4>1 DEF ExchangeStep
    <3> QED BY <3>1, <3>2, ExchangeBus
  <2> QED BY <2>1, <2>2, ExchangeBus
<1>4. ASSUME HeardCancel(i), NEW k \in DOMAIN bus' PROVE ~Says(bus'[k], i)
  <2>1. state[i] = "cancelled"
    BY <1>4 DEF NewsTrue, TrueOf, HeardCancel
  <2>2. CASE k + d \in DOMAIN bus /\ bus'[k] = bus[k + d]
    BY <1>4, <2>2 DEF NewsInOrder
  <2>3. CASE \E n \in DOMAIN r : bus'[k] = r[n]
    BY <1>2, <2>1, <2>3
  <2> QED BY <2>2, <2>3, ExchangeBus
\* An order taken before: heard of, or spoken of on the bus
<1>5. ASSUME NEW k \in DOMAIN bus', Fails(bus'[k], i, "Delete"), TakenIn(state'[i]), ~Heard(i)
      PROVE  \E j \in DOMAIN bus' : j < k /\ Says(bus'[j], i)
  <2>1. CASE k + d \in DOMAIN bus /\ bus'[k] = bus[k + d]
    <3>1. ~Untold(i)
      BY <1>5, <2>1 DEF Untold, Fails
    <3>2. TakenIn(state[i])
      BY <1>5, <3>1, ExchangePlaces, ExchangeOrder DEF TakenIn
    <3>3. PICK j \in DOMAIN bus : j < k + d /\ Says(bus[j], i)
      BY <1>5, <2>1, <3>2 DEF NewsInOrder
    <3>4. j > d /\ j - d \in DOMAIN bus' /\ bus'[j - d] = bus[j]
      BY <3>3, ExchangeNews DEF Says
    <3>5. j - d < k
      BY <3>3, ExchangeBus
    <3> QED BY <3>3, <3>4, <3>5
  <2>2. ASSUME NEW n \in DOMAIN r, k = Len(bus) - d + n, bus'[k] = r[n]
        PROVE  \E j \in DOMAIN bus' : j < k /\ Says(bus'[j], i)
    <3>1. TakenIn(state[i])
      BY <1>5, <2>2 DEF ExchangeStep
    <3>2. PICK j \in DOMAIN bus : Says(bus[j], i)
      BY <1>5, <3>1 DEF NewsComplete
    <3>3. j > d /\ j - d \in DOMAIN bus' /\ bus'[j - d] = bus[j]
      BY <3>2, ExchangeNews DEF Says
    <3>4. j - d < k
      BY <2>2, ExchangeBus
    <3> QED BY <3>2, <3>3, <3>4
  <2> QED BY <2>1, <2>2, ExchangeBus
<1>6. "Delete" \in errors[i] /\ TakenIn(state'[i]) => Heard(i)
  <2>1. "Delete" \in errors[i] => ~PlacedNow(d, i)
    BY ExchangePlaces DEF Untold
  <2>2. "Delete" \in errors[i] /\ TakenIn(state'[i]) => TakenIn(state[i])
    BY <2>1, ExchangeOrder DEF TakenIn
  <2> QED BY <2>2 DEF NewsInOrder
<1> QED BY <1>3, <1>4, <1>5, <1>6

LEMMA ExchangeSettled ==
  ASSUME IInv, NEW d, NEW r, ExchangeStep(d, r), NEW i \in Ids, Settled(i)
  PROVE  Settled(i)' /\ ~PlacedNow(d, i)
<1>1. d = 1 => 1 \in DOMAIN bus
  BY ExchangeBus DEF ExchangeStep, Took
<1> QED BY <1>1, ExchangeNews DEF Settled, PlacedNow

LEMMA ExchangeOp ==
  ASSUME IInv, NEW d, NEW r, ExchangeStep(d, r), NEW p, OpKnows(p), OpTrue(p), OpAnswered(p)
  PROVE  OpKnows(p)' /\ OpTrue(p)' /\ OpAnswered(p)'
<1> USE DEF IInv
<1>1. history' = history /\ errors' = errors /\ used' = used /\ used \subseteq Ids
  BY DEF ExchangeStep, TypeOK
<1>2. \A i \in used : /\ TakenIn(state[i]) => TakenIn(state'[i])
                      /\ state[i] = "cancelled" => state'[i] = "cancelled"
                      /\ Settled(i) => Settled(i)' /\ ~PlacedNow(d, i)
                      /\ state[i] # "open" /\ ~PlacedNow(d, i) => state'[i] = state[i]
                      /\ ~TakenIn(state[i]) /\ ~PlacedNow(d, i) => state'[i] = state[i]
  BY <1>1, ExchangeOrder, ExchangeSettled DEF TakenIn
<1>3. OpKnows(p)'
  BY <1>1, <1>2 DEF OpKnows, Heard, HeardCancel
<1>4. OpTrue(p)'
  BY <1>1, <1>2 DEF OpTrue
<1>5. OpAnswered(p)'
  <2>1. SUFFICES ASSUME p.stage = "cancel"
        PROVE  /\ p.kind = "cancel" => \E k \in DOMAIN bus' :
                    \/ bus'[k].kind = "del" /\ bus'[k].id = p.on
                    \/ Cancels(bus'[k], p.on) \/ Fails(bus'[k], p.on, "Delete")
               /\ p.kind = "move" =>
                    \/ \E k \in DOMAIN bus' :
                         \/ bus'[k].kind = "move" /\ bus'[k].to = p.to /\ bus'[k].id = p.on
                         \/ Cancels(bus'[k], p.on) \/ Fails(bus'[k], p.on, "Delete")
                    \/ state'[p.on] \notin {"open", "cancelled"} /\ Settled(p.on)'
    BY <1>1 DEF OpAnswered, Cancels, Says, Fails
  <2>2. /\ p.on \in used /\ p.on \in Ids
        /\ p.kind = "move" => ~HeardCancel(p.on)
    BY <1>1, <2>1 DEF OpKnows
  <2>3. \A k \in DOMAIN bus : k > d \/ (k = 1 /\ d = 1)
    BY ExchangeBus
  <2>4. \A k \in DOMAIN bus : k > d => k - d \in DOMAIN bus' /\ bus'[k - d] = bus[k]
    BY ExchangeBus
  <2>5. \A j \in DOMAIN r : \E k \in DOMAIN bus' : bus'[k] = r[j]
    BY ExchangeBus
  <2>6. ASSUME NEW k \in DOMAIN bus, Cancels(bus[k], p.on) \/ Fails(bus[k], p.on, "Delete")
        PROVE  \E j \in DOMAIN bus' : Cancels(bus'[j], p.on) \/ Fails(bus'[j], p.on, "Delete")
    <3>1. bus[k].kind \in {"order", "error"}
      BY <2>6 DEF Cancels, Says, Fails
    <3> QED BY <2>2, <2>6, <3>1, ExchangeNews
  <2>7. CASE p.kind = "cancel"
    <3>1. PICK k \in DOMAIN bus : \/ bus[k].kind = "del" /\ bus[k].id = p.on
                                  \/ Cancels(bus[k], p.on) \/ Fails(bus[k], p.on, "Delete")
      BY <1>1, <2>1, <2>7 DEF OpAnswered
    <3>2. CASE bus[k].kind = "del" /\ bus[k].id = p.on /\ ~(k > d)
      <4>1. \E j \in DOMAIN r : Cancels(r[j], p.on) \/ Fails(r[j], p.on, "Delete")
        BY <2>2, <2>3, <3>2 DEF ExchangeStep
      <4> QED BY <2>5, <2>7, <4>1
    <3>3. CASE bus[k].kind = "del" /\ bus[k].id = p.on /\ k > d
      BY <2>4, <2>7, <3>3
    <3> QED BY <2>6, <2>7, <3>1, <3>2, <3>3
  <2>8. CASE p.kind = "move"
    <3>1. CASE state[p.on] \notin {"open", "cancelled"} /\ Settled(p.on)
      BY <1>2, <2>2, <2>8, <3>1
    <3>2. ASSUME NEW k \in DOMAIN bus, bus[k].kind = "move", bus[k].to = p.to, bus[k].id = p.on, k > d
          PROVE  \E j \in DOMAIN bus' : bus'[j].kind = "move" /\ bus'[j].to = p.to /\ bus'[j].id = p.on
      BY <2>4, <3>2
    <3>3. CASE d = 1 /\ bus[1].kind = "move" /\ bus[1].to = p.to /\ bus[1].id = p.on
      <4>1. CASE \E j \in DOMAIN r : Cancels(r[j], p.on)
        BY <2>5, <2>8, <4>1
      <4>2. CASE state[p.on] = "cancelled"
        <5>1. \E k \in DOMAIN bus : Cancels(bus[k], p.on)
          BY <2>2, <2>8, <4>2 DEF NewsComplete
        <5> QED BY <2>6, <2>8, <5>1
      <4>3. CASE state[p.on] \notin {"open", "cancelled"} /\ state'[p.on] = state[p.on]
        <5>1. Settled(p.on)'
          BY <2>2, <3>3, ExchangePlaces DEF Settled, Wants
        <5> QED BY <2>8, <4>3, <5>1
      <4> QED BY <2>2, <3>3, <4>1, <4>2, <4>3 DEF ExchangeStep
    <3> QED BY <1>1, <2>1, <2>3, <2>6, <2>8, <3>1, <3>2, <3>3 DEF OpAnswered
  <2> QED BY <2>7, <2>8
<1> QED BY <1>3, <1>4, <1>5

\* The operations do not change, nor does what is known of them.
LEMMA ExchangeOps ==
  ASSUME IInv, NEW d, NEW r, ExchangeStep(d, r)
  PROVE  OpsInv'
<1>1. SUFFICES ASSUME NEW o \in Ops
               PROVE  OpKnows(ops[o])' /\ OpTrue(ops[o])' /\ OpAnswered(ops[o])'
  BY DEF OpsInv
<1>2. PICK p : p = ops[o]
  OBVIOUS
<1>3. ops'[o] = p
  BY <1>2 DEF ExchangeStep
<1>4. OpKnows(p) /\ OpTrue(p) /\ OpAnswered(p)
  BY <1>2 DEF IInv, OpsInv
<1>5. OpKnows(p)' /\ OpTrue(p)' /\ OpAnswered(p)'
  BY <1>4, ExchangeOp
<1>6. OpKnows(ops[o])'
  BY <1>3, <1>5 DEF OpKnows
<1>7. OpTrue(ops[o])'
  BY <1>3, <1>5 DEF OpTrue
<1>8. OpAnswered(ops[o])'
  BY <1>3, <1>5 DEF OpAnswered
<1> QED BY <1>6, <1>7, <1>8

LEMMA ExchangeType ==
  ASSUME IInv, NEW d, NEW r, ExchangeStep(d, r)
  PROVE  TypeOK'
<1>1. bus' \in Seq(Request \cup Event \cup Error)
  BY DEF ExchangeStep, Took, Message
<1> QED BY <1>1 DEF IInv, TypeOK, ExchangeStep, States

LEMMA ExchangeInv ==
  ASSUME IInv, NEW d, NEW r, ExchangeStep(d, r)
  PROVE  IInv'
  BY ExchangeType, ExchangeAsked, ExchangeUntold, ExchangeTrue, ExchangeComplete, ExchangeInOrder,
     ExchangeOps DEF IInv

-----------------------------------------------------------------------------
(* The exchange's actions are such steps *)

\* The request at the head
LEMMA HeadOfBus ==
  ASSUME IInv, bus # <<>>
  PROVE  /\ Head(bus) = bus[1] /\ 1 \in DOMAIN bus /\ bus \in Seq(Message)
         /\ bus[1] \in Message /\ bus[1].id \in used /\ bus[1].id \in Ids
         /\ bus[1].kind = "move" => bus[1].to \in used /\ bus[1].to # bus[1].id
<1>1. bus \in Seq(Message)
  BY BusType DEF IInv
<1>2. Head(bus) = bus[1] /\ 1 \in DOMAIN bus /\ bus[1] \in Message
  BY <1>1
<1> QED BY <1>1, <1>2, MessageKinds DEF IInv, Asked

LEMMA AddArrivesStep ==
  ASSUME IInv, AddArrives
  PROVE  \E v \in 0..MaxVolume : \E a \in Placed(bus[1].id, v) :
            /\ bus[1].kind = "add" /\ bus[1].id \in Ids
            /\ state' = [state EXCEPT ![bus[1].id] = a.state]
            /\ rest' = [rest EXCEPT ![bus[1].id] = a.rest]
            /\ ExchangeStep(1, a.events)
<1> DEFINE q == bus[1]
           i == bus[1].id
<1>1. /\ bus # <<>> /\ q.kind = "add" /\ q \in Message /\ i \in Ids /\ i \in used
      /\ Head(bus) = q /\ 1 \in DOMAIN bus /\ bus \in Seq(Message)
  BY HeadOfBus DEF AddArrives, Arrives
<1>2. q.volume \in 0..MaxVolume
  BY <1>1, MessageKinds
<1>3. PICK a \in Placed(i, q.volume) :
        /\ state' = [state EXCEPT ![i] = a.state]
        /\ rest' = [rest EXCEPT ![i] = a.rest]
        /\ bus' = Tail(bus) \o a.events
  BY <1>1 DEF AddArrives, Queued
<1>4. /\ a.state \in States \ {"unknown"} /\ a.rest \in 0..MaxVolume
      /\ a.events \in Seq(Event \cup Error)
      /\ \A k \in DOMAIN a.events : Report(i, a.state, a.events[k])
      /\ \A j, k \in DOMAIN a.events : j < k => ~Cancels(a.events[j], i)
      /\ TakenIn(a.state) => \E k \in DOMAIN a.events : Says(a.events[k], i)
      /\ a.state = "refused" => \E k \in DOMAIN a.events : Fails(a.events[k], i, "Add")
      /\ a.state = "cancelled" => \E k \in DOMAIN a.events : Cancels(a.events[k], i)
  BY <1>1, <1>2, <1>3, PlacedFacts
<1>5. a.events \in Seq(Message)
  <2>1. Event \cup Error \subseteq Message
    BY DEF Message
  <2> QED BY <1>4, <2>1, SeqMonotonic
<1>6. Took(1, a.events)
  BY <1>1, <1>3, <1>5, TookQueued
<1>7. state[i] = "unknown"
  BY <1>1 DEF IInv, NewUntold, Untold, Places
<1>8. /\ state \in [Ids -> States] /\ rest \in [Ids -> 0..MaxVolume]
      /\ state' \in [Ids -> States] /\ rest' \in [Ids -> 0..MaxVolume]
      /\ state'[i] = a.state /\ \A n \in Ids : n # i => state'[n] = state[n]
  BY <1>1, <1>3, <1>4 DEF IInv, TypeOK, States
<1> HIDE DEF q, i
<1>9. \A k \in DOMAIN a.events : /\ a.events[k].id = i /\ a.events[k].kind \in {"order", "error"}
                                 /\ a.events[k].kind = "error" => a.events[k].of = "Add"
  BY <1>4 DEF Report, Says, Fails
<1>10. \A n \in Ids : PlacedNow(1, n) <=> n = i
  BY <1>1 DEF PlacedNow, Places, q, i
<1>11. \A k \in DOMAIN a.events : /\ Says(a.events[k], i) => TrueOf(a.events[k], a.state)
                                  /\ Fails(a.events[k], i, "Add") => a.state = "refused"
  BY <1>4 DEF Report, Says, Fails, TrueOf
<1>12. ASSUME NEW n \in Ids
       PROVE
         /\ state'[n] # state[n] =>
              \/ state[n] = "open" /\ state'[n] \in {"filled", "cancelled"}
              \/ PlacedNow(1, n)
         /\ \A k \in DOMAIN a.events :
              /\ Says(a.events[k], n) => TrueOf(a.events[k], state'[n]) /\ (state[n] = "open" \/ PlacedNow(1, n))
              /\ Fails(a.events[k], n, "Add") => state'[n] = "refused" /\ PlacedNow(1, n)
              /\ Fails(a.events[k], n, "Delete") =>
                    state'[n] = state[n] /\ state[n] # "open" /\ 1 = 1 /\ Wants(bus[1], n)
         /\ PlacedNow(1, n) /\ TakenIn(state'[n]) => \E k \in DOMAIN a.events : Says(a.events[k], n)
         /\ PlacedNow(1, n) /\ state'[n] = "refused" => \E k \in DOMAIN a.events : Fails(a.events[k], n, "Add")
         /\ state'[n] = "cancelled" /\ state[n] # "cancelled" => \E k \in DOMAIN a.events : Cancels(a.events[k], n)
         /\ \A j, k \in DOMAIN a.events : j < k /\ Cancels(a.events[j], n) => ~Says(a.events[k], n)
  <2>1. CASE n = i
    BY <1>4, <1>8, <1>9, <1>10, <1>11, <2>1 DEF Fails
  <2>2. CASE n # i
    BY <1>8, <1>9, <1>10, <2>2 DEF Says, Fails, Cancels
  <2> QED BY <2>1, <2>2
<1>13. ExchangeStep(1, a.events)
  <2>1. bus[1].kind = "add" /\ i \in used
    BY <1>1 DEF q
  <2>2. UNCHANGED <<used, history, errors, pendings, closed, ops>>
    BY DEF AddArrives, Kept
  <2> QED BY <1>6, <1>8, <1>9, <1>12, <2>1, <2>2 DEF ExchangeStep
<1> QED BY <1>1, <1>2, <1>3, <1>13 DEF q, i

LEMMA DelArrivesStep ==
  ASSUME IInv, DelArrives
  PROVE  \E m \in Message : LET i == bus[1].id IN
            /\ bus[1].kind = "del" /\ i \in Ids /\ rest' = rest
            /\ \/ /\ state[i] = "open" /\ state' = [state EXCEPT ![i] = "cancelled"]
                  /\ m = OrderEvent(i, "Cancel", rest[i])
               \/ /\ state[i] # "open" /\ state' = state
                  /\ m = OrderError(i, "Delete")
            /\ ExchangeStep(1, <<m>>)
<1> DEFINE i == bus[1].id
<1>1. /\ bus # <<>> /\ bus[1].kind = "del" /\ bus[1] \in Message /\ i \in Ids /\ i \in used
      /\ Head(bus) = bus[1] /\ 1 \in DOMAIN bus /\ bus \in Seq(Message)
  BY HeadOfBus DEF DelArrives, Arrives
<1>2. PICK m : /\ bus' = Tail(bus) \o <<m>>
               /\ \/ /\ state[i] = "open" /\ state' = [state EXCEPT ![i] = "cancelled"]
                     /\ m = OrderEvent(i, "Cancel", rest[i])
                  \/ /\ state[i] # "open" /\ state' = state
                     /\ m = OrderError(i, "Delete")
  BY <1>1 DEF DelArrives, Queued
<1>3. state \in [Ids -> States] /\ rest \in [Ids -> 0..MaxVolume] /\ rest' = rest
  BY DEF IInv, TypeOK, States, DelArrives
<1> HIDE DEF i
<1>4. /\ m \in Message /\ m.id = i
      /\ state[i] = "open" => m.kind = "order" /\ m.status = "Cancel"
      /\ state[i] # "open" => m.kind = "error" /\ m.of = "Delete"
  BY <1>1, <1>2, <1>3 DEF OrderEvent, OrderError, Message, Event, Error
<1>5. Took(1, <<m>>)
  <2>1. <<m>> \in Seq(Message)
    BY <1>4
  <2> QED BY <1>1, <1>2, <2>1, TookQueued
<1>6. /\ state' \in [Ids -> States] /\ \A n \in Ids : n # i => state'[n] = state[n]
      /\ state[i] = "open" => state'[i] = "cancelled"
      /\ state[i] # "open" => state'[i] = state[i]
  BY <1>1, <1>2, <1>3 DEF States
<1>7. \A n \in Ids : ~PlacedNow(1, n) /\ (Wants(bus[1], n) <=> n = i)
  BY <1>1 DEF PlacedNow, Places, Wants, i
<1>8. DOMAIN <<m>> = {1} /\ <<m>>[1] = m
  OBVIOUS
<1>9. ASSUME NEW n \in Ids
      PROVE
         /\ state'[n] # state[n] =>
              \/ state[n] = "open" /\ state'[n] \in {"filled", "cancelled"}
              \/ PlacedNow(1, n)
         /\ Says(m, n) => TrueOf(m, state'[n]) /\ (state[n] = "open" \/ PlacedNow(1, n))
         /\ ~Fails(m, n, "Add")
         /\ Fails(m, n, "Delete") => state'[n] = state[n] /\ state[n] # "open" /\ Wants(bus[1], n)
         /\ state'[n] = "cancelled" /\ state[n] # "cancelled" => Cancels(m, n)
         /\ bus[1].id = n => Cancels(m, n) \/ Fails(m, n, "Delete")
  <2>1. CASE n = i
    BY <1>4, <1>6, <1>7, <2>1 DEF Says, Fails, Cancels, TrueOf, TakenIn
  <2>2. CASE n # i
    BY <1>4, <1>6, <2>2 DEF Says, Fails, Cancels, i
  <2> QED BY <2>1, <2>2
<1>10. ExchangeStep(1, <<m>>)
  <2>1. UNCHANGED <<used, history, errors, pendings, closed, ops>>
    BY DEF DelArrives, Kept
  <2>2. m.kind \in {"order", "error"} /\ m.id \in used
    BY <1>1, <1>4
  <2> QED BY <1>1, <1>3, <1>5, <1>6, <1>7, <1>8, <1>9, <2>1, <2>2 DEF ExchangeStep
<1> QED BY <1>1, <1>2, <1>3, <1>4, <1>10 DEF i

LEMMA DealStep ==
  ASSUME IInv, Deal
  PROVE  \E i \in Ids : \E x \in 0..(rest[i] - 1) :
            /\ state[i] = "open"
            /\ rest' = [rest EXCEPT ![i] = x]
            /\ state' = [state EXCEPT ![i] = IF x = 0 THEN "filled" ELSE "open"]
            /\ ExchangeStep(0, <<Executed(i, x)>>)
<1>1. PICK i \in Ids : \E x \in 0..(rest[i] - 1) :
         /\ state[i] = "open"
         /\ rest' = [rest EXCEPT ![i] = x]
         /\ state' = [state EXCEPT ![i] = IF x = 0 THEN "filled" ELSE "open"]
         /\ bus' = Append(bus, Executed(i, x))
  BY DEF Deal
<1>2. PICK x \in 0..(rest[i] - 1) :
         /\ state[i] = "open"
         /\ rest' = [rest EXCEPT ![i] = x]
         /\ state' = [state EXCEPT ![i] = IF x = 0 THEN "filled" ELSE "open"]
         /\ bus' = Append(bus, Executed(i, x))
  BY <1>1
<1> DEFINE m == Executed(i, x)
<1>3. state \in [Ids -> States] /\ rest \in [Ids -> 0..MaxVolume] /\ bus \in Seq(Message)
  BY BusType DEF IInv, TypeOK, States
<1>4. x \in 0..MaxVolume /\ x \in Nat
  BY <1>2, <1>3, VolumeAssumption
<1>5. /\ state' \in [Ids -> States] /\ rest' \in [Ids -> 0..MaxVolume]
      /\ \A n \in Ids : n # i => state'[n] = state[n]
      /\ state'[i] = IF x = 0 THEN "filled" ELSE "open"
  BY <1>2, <1>3, <1>4 DEF States
<1>6. m \in Message /\ m.id = i /\ m.kind = "order" /\ m.status = "Fill" /\ m.rest = x
  BY <1>4 DEF Executed, OrderEvent, Message, Event
<1>7. i \in used
  BY <1>2 DEF IInv, NewUntold, Untold
<1> HIDE DEF m
<1>8. Took(0, <<m>>)
  BY <1>2, <1>3, <1>6, TookAppend DEF m
<1>9. DOMAIN <<m>> = {1} /\ <<m>>[1] = m
  OBVIOUS
<1>10. ASSUME NEW n \in Ids
       PROVE
         /\ state'[n] # state[n] => state[n] = "open" /\ state'[n] \in {"filled", "cancelled"}
         /\ Says(m, n) => TrueOf(m, state'[n]) /\ state[n] = "open"
         /\ ~Fails(m, n, "Add") /\ ~Fails(m, n, "Delete")
         /\ state'[n] = "cancelled" => state[n] = "cancelled"
  <2>1. CASE n = i
    BY <1>2, <1>5, <1>6, <2>1 DEF Says, Fails, TrueOf, TakenIn
  <2>2. CASE n # i
    BY <1>5, <1>6, <2>2 DEF Says, Fails
  <2> QED BY <2>1, <2>2
<1>11. ExchangeStep(0, <<m>>)
  <2>1. UNCHANGED <<used, history, errors, pendings, closed, ops>>
    BY DEF Deal, Kept
  <2> QED BY <1>5, <1>6, <1>7, <1>8, <1>9, <1>10, <2>1 DEF ExchangeStep, PlacedNow
<1> QED BY <1>2, <1>11 DEF m

\* The old order's cancellation is reported before what becomes of the new one.
LEMMA MoveArrivesStep ==
  ASSUME IInv, MoveArrives
  PROVE  LET i == bus[1].id
             n == bus[1].to
         IN  /\ bus[1].kind = "move" /\ i \in Ids /\ n \in Ids /\ i # n
             /\ \/ /\ state[i] = "open"
                   /\ \E v \in 0..MaxVolume : \E a \in Placed(n, v) :
                        /\ state' = [state EXCEPT ![i] = "cancelled", ![n] = a.state]
                        /\ rest' = [rest EXCEPT ![n] = a.rest]
                        /\ ExchangeStep(1, <<OrderEvent(i, "Cancel", rest[i])>> \o a.events)
                \/ /\ state[i] # "open" /\ UNCHANGED <<state, rest>>
                   /\ ExchangeStep(1, <<>>)
<1> DEFINE q == bus[1]
           i == bus[1].id
           n == bus[1].to
<1>1. /\ bus # <<>> /\ q.kind = "move" /\ q \in Message /\ i \in Ids /\ i \in used
      /\ Head(bus) = q /\ 1 \in DOMAIN bus /\ bus \in Seq(Message)
      /\ n \in used /\ n # i
  BY HeadOfBus DEF MoveArrives, Arrives
<1>2. n \in Ids /\ q.volume \in 0..MaxVolume
  BY <1>1, MessageKinds
<1>3. state \in [Ids -> States] /\ rest \in [Ids -> 0..MaxVolume]
  BY DEF IInv, TypeOK, States
<1>4. UNCHANGED <<used, history, errors, pendings, closed, ops>>
  BY DEF MoveArrives, Kept
<1>5. state[n] = "unknown"
  BY <1>1, <1>2 DEF IInv, NewUntold, Untold, Places
<1>6. \A m \in Ids : (PlacedNow(1, m) <=> m = n) /\ (Wants(bus[1], m) <=> m = i)
  BY <1>1 DEF PlacedNow, Places, Wants
<1>7. CASE state[i] = "open"
  <2>1. PICK v \in 0..MaxVolume : \E a \in Placed(n, v) :
          /\ state' = [state EXCEPT ![i] = "cancelled", ![n] = a.state]
          /\ rest' = [rest EXCEPT ![n] = a.rest]
          /\ bus' = Tail(bus) \o (<<OrderEvent(i, "Cancel", rest[i])>> \o a.events)
    <3> DEFINE v == IF q.volume # 0 THEN q.volume ELSE rest[i]
    <3>1. v \in 0..MaxVolume
      BY <1>1, <1>2, <1>3
    <3>2. \E a \in Placed(n, v) :
            /\ state' = [state EXCEPT ![i] = "cancelled", ![n] = a.state]
            /\ rest' = [rest EXCEPT ![n] = a.rest]
            /\ bus' = Tail(bus) \o (<<OrderEvent(i, "Cancel", rest[i])>> \o a.events)
      BY <1>1, <1>7 DEF MoveArrives, Queued, MoveReported
    <3> HIDE DEF v
    <3> QED BY <3>1, <3>2
  <2>2. PICK a \in Placed(n, v) :
          /\ state' = [state EXCEPT ![i] = "cancelled", ![n] = a.state]
          /\ rest' = [rest EXCEPT ![n] = a.rest]
          /\ bus' = Tail(bus) \o (<<OrderEvent(i, "Cancel", rest[i])>> \o a.events)
    BY <2>1
  <2> DEFINE c == OrderEvent(i, "Cancel", rest[i])
             r == <<c>> \o a.events
  <2>3. /\ a.state \in States \ {"unknown"} /\ a.rest \in 0..MaxVolume
        /\ a.events \in Seq(Event \cup Error)
        /\ \A k \in DOMAIN a.events : Report(n, a.state, a.events[k])
        /\ \A j, k \in DOMAIN a.events : j < k => ~Cancels(a.events[j], n)
        /\ TakenIn(a.state) => \E k \in DOMAIN a.events : Says(a.events[k], n)
        /\ a.state = "refused" => \E k \in DOMAIN a.events : Fails(a.events[k], n, "Add")
        /\ a.state = "cancelled" => \E k \in DOMAIN a.events : Cancels(a.events[k], n)
    BY <1>2, <2>1, <2>2, PlacedFacts
  <2>4. /\ c \in Event /\ c.id = i /\ Says(c, i) /\ Cancels(c, i) /\ TrueOf(c, "cancelled")
    BY <1>1, <1>3 DEF OrderEvent, Event, Says, Cancels, TrueOf, TakenIn
  <2>5. a.events \in Seq(Message) /\ <<c>> \in Seq(Message) /\ Len(<<c>>) = 1 /\ <<c>>[1] = c
    <3>1. Event \cup Error \subseteq Message /\ c \in Message
      BY <2>4 DEF Message
    <3> QED BY <2>3, <3>1, SeqMonotonic
  <2> HIDE DEF c
  <2>6. /\ r \in Seq(Message) /\ Len(a.events) \in Nat /\ DOMAIN a.events = 1..Len(a.events)
        /\ DOMAIN r = 1..1 + Len(a.events) /\ r[1] = c
        /\ \A k \in 2..1 + Len(a.events) : k - 1 \in DOMAIN a.events /\ r[k] = a.events[k - 1]
    BY <2>5, ConcatProperties
  <2>7. \A k \in DOMAIN a.events : k + 1 \in DOMAIN r /\ r[k + 1] = a.events[k]
    BY <2>6
  <2>8. Took(1, r)
    BY <1>1, <2>2, <2>6, TookQueued DEF c
  <2> HIDE DEF r, q, i, n
  <2>9. /\ state' \in [Ids -> States] /\ rest' \in [Ids -> 0..MaxVolume]
        /\ state'[i] = "cancelled" /\ state'[n] = a.state
        /\ \A m \in Ids : m # i /\ m # n => state'[m] = state[m]
    BY <1>1, <1>2, <1>3, <2>2, <2>3 DEF States
  <2>10. \A k \in DOMAIN a.events : /\ a.events[k].id = n /\ a.events[k].kind \in {"order", "error"}
                                    /\ a.events[k].kind = "error" => a.events[k].of = "Add"
    BY <2>3 DEF Report, Says, Fails
  <2>11. \A k \in DOMAIN a.events : /\ Says(a.events[k], n) => TrueOf(a.events[k], a.state)
                                    /\ Fails(a.events[k], n, "Add") => a.state = "refused"
    BY <2>3 DEF Report, Says, Fails, TrueOf
  \* A report is the cancellation or one of the new order's.
  <2>12. \A k \in DOMAIN r : \/ k = 1 /\ r[k] = c
                             \/ k > 1 /\ k - 1 \in DOMAIN a.events /\ r[k] = a.events[k - 1]
    BY <2>6
  <2>13. ASSUME NEW m \in Ids
         PROVE
           /\ state'[m] # state[m] =>
                \/ state[m] = "open" /\ state'[m] \in {"filled", "cancelled"}
                \/ PlacedNow(1, m)
           /\ \A k \in DOMAIN r :
                /\ Says(r[k], m) => TrueOf(r[k], state'[m]) /\ (state[m] = "open" \/ PlacedNow(1, m))
                /\ Fails(r[k], m, "Add") => state'[m] = "refused" /\ PlacedNow(1, m)
                /\ ~Fails(r[k], m, "Delete")
           /\ PlacedNow(1, m) /\ TakenIn(state'[m]) => \E k \in DOMAIN r : Says(r[k], m)
           /\ PlacedNow(1, m) /\ state'[m] = "refused" => \E k \in DOMAIN r : Fails(r[k], m, "Add")
           /\ state'[m] = "cancelled" /\ state[m] # "cancelled" => \E k \in DOMAIN r : Cancels(r[k], m)
           /\ \A j, k \in DOMAIN r : j < k /\ Cancels(r[j], m) => ~Says(r[k], m)
           /\ m = i => \E k \in DOMAIN r : Cancels(r[k], m)
    <3>0. 1 \in DOMAIN r /\ r[1] = c
      BY <2>6
    <3>1. CASE m = i
      <4>1. \A k \in DOMAIN r : k # 1 => ~Says(r[k], m) /\ ~Fails(r[k], m, "Add") /\ ~Fails(r[k], m, "Delete")
        BY <1>1, <2>10, <2>12, <3>1 DEF Says, Fails
      <4>2. ~Fails(c, m, "Add") /\ ~Fails(c, m, "Delete")
        BY <2>4 DEF Says, Fails
      <4>3. \A j, k \in DOMAIN r : j < k => ~Says(r[k], m)
        BY <2>6, <4>1
      <4>4. /\ ~PlacedNow(1, m) /\ state[m] = "open" /\ state'[m] = "cancelled"
        BY <1>1, <1>2, <1>6, <1>7, <2>9, <3>1
      <4> QED BY <2>4, <3>0, <3>1, <4>1, <4>2, <4>3, <4>4
    <3>2. CASE m = n
      <4>1. ~Says(c, m) /\ ~Fails(c, m, "Add") /\ ~Fails(c, m, "Delete") /\ ~Cancels(c, m)
        BY <1>1, <2>4, <3>2 DEF Says, Fails, Cancels
      <4>2. PlacedNow(1, m) /\ state'[m] = a.state /\ m # i
        BY <1>1, <1>2, <1>6, <2>9, <3>2
      <4>3. \A k \in DOMAIN r :
                /\ Says(r[k], m) => TrueOf(r[k], state'[m])
                /\ Fails(r[k], m, "Add") => state'[m] = "refused"
                /\ ~Fails(r[k], m, "Delete")
        BY <2>10, <2>11, <2>12, <3>2, <4>1, <4>2 DEF Fails
      <4>4. \A j, k \in DOMAIN r : j < k /\ Cancels(r[j], m) => ~Says(r[k], m)
        <5>1. ASSUME NEW j \in DOMAIN r, NEW k \in DOMAIN r, j < k, Cancels(r[j], m)
              PROVE  FALSE
          <6>1. /\ j - 1 \in DOMAIN a.events /\ r[j] = a.events[j - 1]
                /\ k - 1 \in DOMAIN a.events /\ r[k] = a.events[k - 1] /\ j - 1 < k - 1
            BY <2>6, <2>12, <4>1, <5>1
          <6> QED BY <2>3, <3>2, <5>1, <6>1
        <5> QED BY <5>1
      <4>5. /\ TakenIn(state'[m]) => \E k \in DOMAIN r : Says(r[k], m)
            /\ state'[m] = "refused" => \E k \in DOMAIN r : Fails(r[k], m, "Add")
            /\ state'[m] = "cancelled" => \E k \in DOMAIN r : Cancels(r[k], m)
        BY <2>3, <2>7, <3>2, <4>2
      <4> QED BY <4>2, <4>3, <4>4, <4>5
    <3>3. CASE m # i /\ m # n
      <4>1. \A k \in DOMAIN r : /\ ~Says(r[k], m) /\ ~Cancels(r[k], m)
                                /\ ~Fails(r[k], m, "Add") /\ ~Fails(r[k], m, "Delete")
        BY <2>4, <2>10, <2>12, <3>3 DEF Says, Fails, Cancels
      <4> QED BY <1>6, <2>9, <3>3, <4>1
    <3> QED BY <3>1, <3>2, <3>3
  <2>14. \A k \in DOMAIN r : r[k].id \in used /\ r[k].kind \in {"order", "error"}
    BY <1>1, <2>4, <2>10, <2>12 DEF Says
  <2>15. ExchangeStep(1, r)
    <3>1. bus[1].kind = "move" /\ bus[1].id = i
      BY <1>1 DEF q, i
    <3> QED BY <1>4, <2>8, <2>9, <2>13, <2>14, <3>1 DEF ExchangeStep
  <2> QED BY <1>1, <1>2, <1>7, <2>1, <2>2, <2>15 DEF c, r, q, i, n
<1>8. CASE state[i] # "open"
  <2>1. bus' = Tail(bus) /\ state' = state /\ rest' = rest
    BY <1>1, <1>8 DEF MoveArrives
  <2>2. Took(1, <<>>)
    BY <1>1, <2>1, TookTail
  <2> HIDE DEF q, i, n
  <2>3. bus[1].kind = "move" /\ bus[1].id = i
    BY <1>1 DEF q, i
  \* The new order's request is gone and nothing was said: it is not taken.
  <2>4. \A m \in Ids : PlacedNow(1, m) => ~TakenIn(state'[m]) /\ state'[m] # "refused"
    BY <1>5, <1>6, <2>1 DEF TakenIn
  <2>5. DOMAIN <<>> = {}
    OBVIOUS
  <2>6. ExchangeStep(1, <<>>)
    BY <1>3, <1>4, <1>8, <2>1, <2>2, <2>3, <2>4, <2>5 DEF ExchangeStep
  <2> QED BY <1>1, <1>2, <1>8, <2>1, <2>6 DEF q, i, n
<1> QED BY <1>7, <1>8

-----------------------------------------------------------------------------
(* Deliveries *)

\* The message at the head leaves the bus, the others move up.
LEMMA MovesUp ==
  ASSUME bus \in Seq(Message), bus # <<>>, bus' = Tail(bus)
  PROVE  /\ bus' \in Seq(Message) /\ 1 \in DOMAIN bus
         /\ \A k \in DOMAIN bus' :
              k \in Nat /\ k >= 1 /\ k + 1 \in DOMAIN bus /\ bus'[k] = bus[k + 1]
         /\ \A k \in DOMAIN bus : k \in Nat /\ k >= 1
         /\ \A k \in DOMAIN bus : k # 1 => k - 1 \in DOMAIN bus' /\ bus'[k - 1] = bus[k]
<1>1. Took(1, <<>>)
  BY TookTail
<1>2. bus' \in Seq(Message) /\ 1 \in DOMAIN bus /\ DOMAIN bus = 1..Len(bus) /\ Len(bus) \in Nat
  BY <1>1 DEF Took
<1>3. DOMAIN bus' = 1..Len(bus')
  BY <1>2
<1>4. \A k \in DOMAIN bus' : k + 1 \in DOMAIN bus /\ bus'[k] = bus[k + 1]
  BY <1>1, TookParts
<1>5. \A k \in DOMAIN bus : k > 1 => k - 1 \in DOMAIN bus' /\ bus'[k - 1] = bus[k]
  BY <1>1, TookParts
<1> QED BY <1>2, <1>3, <1>4, <1>5

LEMMA OperationKinds ==
  ASSUME NEW p \in Operation
  PROVE  /\ \A res \in {"success", "rejected", "error", "timeout", "closed"} : Done(p, res) \in Operation
         /\ Freed(p) \in Operation
         /\ \A service \in {"order", "cancel"}, i \in Ids : Waits(p, service, i) \in Operation
  BY DEF Operation, Done, Freed, Waits

\* What the message at the head of the bus, news of some order, tells.
Delivered ==
    /\ bus # <<>> /\ bus' = Tail(bus)
    /\ bus[1].kind \in {"order", "error"}
    /\ UNCHANGED <<state, used>>

LEMMA DeliveredAsked ==
  ASSUME IInv, Delivered
  PROVE  Asked'
<1>1. bus \in Seq(Message) /\ used' = used
  BY BusType DEF IInv, Delivered
<1>2. \A k \in DOMAIN bus' : k \in Nat /\ k >= 1 /\ k + 1 \in DOMAIN bus /\ bus'[k] = bus[k + 1]
  BY <1>1, MovesUp DEF Delivered
<1>3. ASSUME NEW k \in DOMAIN bus'
      PROVE  /\ bus'[k].id \in used
             /\ bus'[k].kind = "move" => bus'[k].to \in used /\ bus'[k].to # bus'[k].id
  BY <1>2 DEF IInv, Asked
<1>4. ASSUME NEW i \in Ids, NEW j \in DOMAIN bus', NEW k \in DOMAIN bus',
             Places(bus'[j], i), Places(bus'[k], i)
      PROVE  j = k
  <2>1. j + 1 = k + 1
    BY <1>2, <1>4 DEF IInv, Asked
  <2> QED BY <1>2, <2>1
<1>5. ASSUME NEW i \in Ids, NEW j \in DOMAIN bus', NEW k \in DOMAIN bus',
             j < k, Wants(bus'[j], i), Places(bus'[k], i)
      PROVE  FALSE
  <2>1. j + 1 < k + 1
    BY <1>2, <1>5
  <2> QED BY <1>2, <1>5, <2>1 DEF IInv, Asked
<1> QED BY <1>1, <1>3, <1>4, <1>5 DEF Asked

\* Nothing that would place an order joins the bus, and the order the news is
\* about was placed before.
LEMMA DeliveredSettled ==
  ASSUME IInv, Delivered, NEW i \in Ids, Settled(i) \/ i = bus[1].id
  PROVE  Settled(i)'
<1>1. bus \in Seq(Message)
  BY BusType DEF IInv
<1>2. \A k \in DOMAIN bus' : k + 1 \in DOMAIN bus /\ bus'[k] = bus[k + 1]
  BY <1>1, MovesUp DEF Delivered
<1>3. 1 \in DOMAIN bus
  BY <1>1, HeadOfBus DEF Delivered
<1>4. i = bus[1].id => ~Untold(i)
  BY <1>3 DEF Untold, Delivered, Says
<1>5. Settled(i)
  BY <1>4 DEF IInv, NewUntold, Settled
<1> QED BY <1>2, <1>5 DEF Settled

\* An event about order i
LEMMA OrderArrivesFacts ==
  ASSUME IInv, OrderArrives
  PROVE  /\ Delivered /\ bus[1] \in Event /\ bus[1].id \in used /\ bus[1].id \in Ids
         /\ Says(bus[1], bus[1].id) /\ TrueOf(bus[1], state[bus[1].id])
         /\ history' = [history EXCEPT ![bus[1].id] = Append(@, bus[1])]
         /\ pendings' \subseteq pendings /\ pendings \subseteq pendings' \cup {bus[1].id}
         /\ ops' = [o \in Ops |->
                      IF ops[o].stage = "order" /\ ops[o].on = bus[1].id THEN Done(ops[o], "success")
                      ELSE IF EndsCancel(ops[o], bus[1]) THEN Freed(ops[o])
                      ELSE ops[o]]
         /\ errors' = errors /\ closed' = closed /\ rest' = rest
         /\ \A n \in Ids : IF n = bus[1].id THEN Heard(n)' /\ Last(history'[n]) = bus[1]
                           ELSE history'[n] = history[n]
<1>1. /\ bus # <<>> /\ Head(bus) = bus[1] /\ 1 \in DOMAIN bus /\ bus[1] \in Message
      /\ bus[1].id \in used /\ bus[1].id \in Ids /\ bus[1].kind = "order"
  BY HeadOfBus DEF OrderArrives, Arrives
<1>2. bus[1] \in Event
  BY <1>1, MessageKinds
<1>3. TrueOf(bus[1], state[bus[1].id])
  BY <1>1 DEF IInv, NewsTrue, Says
<1>4. history' = [history EXCEPT ![bus[1].id] = Append(@, bus[1])]
  BY <1>1 DEF OrderArrives
<1>5. ASSUME NEW n \in Ids
      PROVE  IF n = bus[1].id THEN Heard(n)' /\ Last(history'[n]) = bus[1]
                              ELSE history'[n] = history[n]
  <2>1. history \in [Ids -> Seq(Event)]
    BY DEF IInv, TypeOK
  <2>2. CASE n = bus[1].id
    <3>1. /\ history'[n] = Append(history[n], bus[1]) /\ history[n] \in Seq(Event)
      BY <1>4, <2>1, <2>2
    <3>2. /\ Append(history[n], bus[1]) \in Seq(Event)
          /\ Len(Append(history[n], bus[1])) = Len(history[n]) + 1
          /\ Append(history[n], bus[1])[Len(history[n]) + 1] = bus[1]
      BY <1>2, <3>1, AppendProperties
    <3>3. Last(history'[n]) = bus[1]
      BY <3>1, <3>2 DEF Last
    <3>4. history'[n] # <<>>
      BY <3>1, <3>2
    <3> QED BY <2>2, <3>3, <3>4 DEF Heard
  <2>3. CASE n # bus[1].id
    BY <1>4, <2>1, <2>3
  <2> QED BY <2>2, <2>3
<1>6. /\ pendings' \subseteq pendings /\ pendings \subseteq pendings' \cup {bus[1].id}
  BY <1>1 DEF OrderArrives
<1>7. ops' = [o \in Ops |->
                      IF ops[o].stage = "order" /\ ops[o].on = bus[1].id THEN Done(ops[o], "success")
                      ELSE IF EndsCancel(ops[o], bus[1]) THEN Freed(ops[o])
                      ELSE ops[o]]
  BY <1>1 DEF OrderArrives
<1>8. Delivered /\ errors' = errors /\ closed' = closed /\ rest' = rest
  BY <1>1 DEF Delivered, OrderArrives
<1> QED BY <1>1, <1>2, <1>3, <1>4, <1>5, <1>6, <1>7, <1>8 DEF Says

LEMMA OrderArrivesType ==
  ASSUME IInv, OrderArrives
  PROVE  TypeOK'
<1>1. bus' \in Seq(Message)
  BY BusType, MovesUp, OrderArrivesFacts DEF IInv, Delivered
<1>2. history' \in [Ids -> Seq(Event)]
  <2>1. history \in [Ids -> Seq(Event)]
    BY DEF IInv, TypeOK
  <2>2. Append(history[bus[1].id], bus[1]) \in Seq(Event)
    BY <2>1, OrderArrivesFacts, AppendProperties
  <2> QED BY <2>1, <2>2, OrderArrivesFacts
<1>3. ops' \in [Ops -> Operation]
  <2>1. ops \in [Ops -> Operation]
    BY DEF IInv, TypeOK
  <2> QED BY <2>1, OrderArrivesFacts, OperationKinds
<1>4. pendings' \subseteq used'
  BY OrderArrivesFacts DEF IInv, TypeOK, Delivered
<1> QED BY <1>1, <1>2, <1>3, <1>4, OrderArrivesFacts DEF IInv, TypeOK, Delivered, Message

LEMMA OrderArrivesNews ==
  ASSUME IInv, OrderArrives
  PROVE  NewUntold' /\ NewsTrue' /\ NewsComplete' /\ NewsInOrder'
<1> USE DEF IInv
<1>1. /\ \A k \in DOMAIN bus' :
           k \in Nat /\ k >= 1 /\ k + 1 \in DOMAIN bus /\ bus'[k] = bus[k + 1]
      /\ \A k \in DOMAIN bus : k \in Nat /\ k >= 1
      /\ \A k \in DOMAIN bus : k # 1 => k - 1 \in DOMAIN bus' /\ bus'[k - 1] = bus[k]
      /\ 1 \in DOMAIN bus
  BY BusType, MovesUp, OrderArrivesFacts DEF Delivered
<1>2. PICK i \in Ids : i = bus[1].id
  BY OrderArrivesFacts
<1>3. /\ Says(bus[1], i) /\ TrueOf(bus[1], state[i]) /\ i \in used
      /\ Heard(i)' /\ Last(history'[i]) = bus[1]
      /\ \A n \in Ids : n # i => history'[n] = history[n] /\ (Heard(n)' <=> Heard(n))
      /\ pendings' \subseteq pendings /\ pendings \subseteq pendings' \cup {i}
      /\ errors' = errors /\ state' = state /\ used' = used
  BY <1>2, OrderArrivesFacts DEF Delivered, Heard
<1>4. \A n \in Ids : n # i => ~Says(bus[1], n) /\ ~Cancels(bus[1], n)
  BY <1>2 DEF Says, Cancels
<1>5. \A n \in Ids : ~Fails(bus[1], n, "Add") /\ ~Fails(bus[1], n, "Delete")
  BY <1>3 DEF Says, Fails
<1>6. ~Untold(i)
  BY <1>1, <1>3 DEF Untold
<1>7. NewUntold'
  <2>1. ASSUME NEW n \in Ids, Untold(n) PROVE Untold(n)' /\ n # i
    <3>1. n # i
      BY <1>6, <2>1
    <3>2. state'[n] = "unknown" /\ ~Heard(n)' /\ errors'[n] = {}
      BY <1>3, <2>1, <3>1 DEF Untold
    <3>3. \A k \in DOMAIN bus' : ~Says(bus'[k], n) /\ (bus'[k].kind = "error" => bus'[k].id # n)
      BY <1>1, <2>1 DEF Untold
    <3> QED BY <3>1, <3>2, <3>3 DEF Untold
  <2>2. ASSUME NEW n \in Ids, NEW k \in DOMAIN bus', Places(bus'[k], n)
        PROVE  Untold(n)' /\ n \in pendings'
    BY <1>1, <1>3, <2>1, <2>2 DEF NewUntold
  <2> QED BY <1>3, <2>1, <2>2 DEF NewUntold
<1>8. NewsTrue'
  <2>1. SUFFICES ASSUME NEW n \in Ids
        PROVE  /\ \A k \in DOMAIN bus' :
                    /\ Says(bus'[k], n) => TrueOf(bus'[k], state'[n])
                    /\ Fails(bus'[k], n, "Add") => state'[n] = "refused"
                    /\ Fails(bus'[k], n, "Delete") => state'[n] # "open"
               /\ Heard(n)' => TrueOf(Last(history'[n]), state'[n])
               /\ "Add" \in errors'[n] => state'[n] = "refused"
               /\ "Delete" \in errors'[n] => state'[n] # "open"
    BY DEF NewsTrue, Says, Fails
  <2>2. Heard(n)' => TrueOf(Last(history'[n]), state'[n])
    BY <1>3 DEF NewsTrue
  <2> QED BY <1>1, <1>3, <2>2 DEF NewsTrue
<1>9. ASSUME NEW n \in Ids
      PROVE  HeardCancel(n)' <=> IF n = i THEN Cancels(bus[1], i) ELSE HeardCancel(n)
  BY <1>3 DEF HeardCancel, Cancels
<1>10. NewsComplete'
  <2>1. SUFFICES ASSUME NEW n \in Ids
        PROVE  /\ TakenIn(state[n]) => Heard(n)' \/ \E k \in DOMAIN bus' : Says(bus'[k], n)
               /\ state[n] = "refused" => "Add" \in errors[n] \/ \E k \in DOMAIN bus' : Fails(bus'[k], n, "Add")
               /\ state[n] = "cancelled" => HeardCancel(n)' \/ \E k \in DOMAIN bus' : Cancels(bus'[k], n)
               /\ state[n] = "open" /\ n \notin pendings' => Heard(n)'
    BY <1>3 DEF NewsComplete, Says, Fails, Cancels
  <2>2. TakenIn(state[n]) => Heard(n)' \/ \E k \in DOMAIN bus' : Says(bus'[k], n)
    BY <1>1, <1>3, <1>4 DEF NewsComplete
  <2>3. state[n] = "refused" => "Add" \in errors[n] \/ \E k \in DOMAIN bus' : Fails(bus'[k], n, "Add")
    BY <1>1, <1>5 DEF NewsComplete
  <2>4. state[n] = "cancelled" => HeardCancel(n)' \/ \E k \in DOMAIN bus' : Cancels(bus'[k], n)
    <3>1. CASE HeardCancel(n)
      <4>1. n # i
        BY <1>1, <1>3, <3>1 DEF NewsInOrder
      <4> QED BY <1>9, <3>1, <4>1
    <3>2. ASSUME NEW k \in DOMAIN bus, Cancels(bus[k], n)
          PROVE  HeardCancel(n)' \/ \E j \in DOMAIN bus' : Cancels(bus'[j], n)
      BY <1>1, <1>4, <1>9, <3>2
    <3> QED BY <3>1, <3>2 DEF NewsComplete
  <2>5. state[n] = "open" /\ n \notin pendings' => Heard(n)'
    BY <1>3 DEF NewsComplete
  <2> QED BY <2>2, <2>3, <2>4, <2>5
<1>11. NewsInOrder'
  <2>1. SUFFICES ASSUME NEW n \in Ids
        PROVE  /\ \A j, k \in DOMAIN bus' : j < k /\ Cancels(bus'[j], n) => ~Says(bus'[k], n)
               /\ HeardCancel(n)' => \A k \in DOMAIN bus' : ~Says(bus'[k], n)
               /\ \A k \in DOMAIN bus' : Fails(bus'[k], n, "Delete") /\ TakenIn(state[n]) =>
                     Heard(n)' \/ \E j \in DOMAIN bus' : j < k /\ Says(bus'[j], n)
               /\ "Delete" \in errors[n] /\ TakenIn(state[n]) => Heard(n)'
    BY <1>3 DEF NewsInOrder, Says, Fails, Cancels
  <2>2. ASSUME NEW j \in DOMAIN bus', NEW k \in DOMAIN bus', j < k, Cancels(bus'[j], n)
        PROVE  ~Says(bus'[k], n)
    <3>1. j + 1 < k + 1
      BY <1>1, <2>2
    <3> QED BY <1>1, <2>2, <3>1 DEF NewsInOrder
  <2>3. ASSUME HeardCancel(n)', NEW k \in DOMAIN bus' PROVE ~Says(bus'[k], n)
    <3>1. CASE n = i
      <4>1. Cancels(bus[1], i) /\ 1 < k + 1
        BY <1>1, <1>9, <2>3, <3>1
      <4> QED BY <1>1, <3>1, <4>1 DEF NewsInOrder
    <3>2. CASE n # i
      BY <1>1, <1>9, <2>3, <3>2 DEF NewsInOrder
    <3> QED BY <3>1, <3>2
  <2>4. ASSUME NEW k \in DOMAIN bus', Fails(bus'[k], n, "Delete"), TakenIn(state[n]), ~Heard(n)'
        PROVE  \E j \in DOMAIN bus' : j < k /\ Says(bus'[j], n)
    <3>1. n # i /\ ~Heard(n)
      BY <1>3, <2>4
    <3>2. PICK j \in DOMAIN bus : j < k + 1 /\ Says(bus[j], n)
      BY <1>1, <2>4, <3>1 DEF NewsInOrder
    <3>3. j # 1
      BY <1>4, <3>1, <3>2
    <3>4. j - 1 \in DOMAIN bus' /\ bus'[j - 1] = bus[j] /\ j - 1 < k
      BY <1>1, <3>2, <3>3
    <3> QED BY <3>2, <3>4
  <2>5. "Delete" \in errors[n] /\ TakenIn(state[n]) => Heard(n)'
    BY <1>3 DEF NewsInOrder
  <2> QED BY <2>2, <2>3, <2>4, <2>5
<1> QED BY <1>7, <1>8, <1>10, <1>11

LEMMA OperationFields ==
  ASSUME NEW p \in Operation
  PROVE  /\ \A res : LET q == Done(p, res) IN
               /\ q.stage = "done" /\ q.result = res
               /\ q.kind = p.kind /\ q.about = p.about /\ q.to = p.to /\ q.on = p.on
         /\ p.kind = "move" => LET q == Freed(p) IN
               /\ q.stage = "resumed" /\ q.result = p.result
               /\ q.kind = p.kind /\ q.about = p.about /\ q.to = p.to /\ q.on = p.on
         /\ p.kind # "move" => Freed(p) = Done(p, "success")
         /\ \A service, i : LET q == Waits(p, service, i) IN
               /\ q.stage = service /\ q.result = p.result
               /\ q.kind = p.kind /\ q.about = p.about /\ q.to = p.to /\ q.on = i
  BY DEF Operation, Done, Freed, Waits

\* What holds of an operation, whatever its place
Good(p) == OpKnows(p) /\ OpTrue(p) /\ OpAnswered(p)

LEMMA OpsFrom ==
  ASSUME OpsInv, NEW o \in Ops
  PROVE  Good(ops[o])
  BY DEF OpsInv, Good

LEMMA OpsTo ==
  ASSUME \A o \in Ops : \E p : ops'[o] = p /\ Good(p)'
  PROVE  OpsInv'
<1>1. SUFFICES ASSUME NEW o \in Ops
               PROVE  OpKnows(ops[o])' /\ OpTrue(ops[o])' /\ OpAnswered(ops[o])'
  BY DEF OpsInv
<1>2. PICK p : ops'[o] = p /\ Good(p)'
  OBVIOUS
<1>3. OpKnows(p)' /\ OpTrue(p)' /\ OpAnswered(p)'
  BY <1>2 DEF Good
<1>4. OpKnows(ops[o])'
  BY <1>2, <1>3 DEF OpKnows
<1>5. OpTrue(ops[o])'
  BY <1>2, <1>3 DEF OpTrue
<1>6. OpAnswered(ops[o])'
  BY <1>2, <1>3 DEF OpAnswered
<1> QED BY <1>4, <1>5, <1>6

\* An event completes the operations that wait for its order, and those that
\* wait for the order's cancellation if it is one; the others know no less.
LEMMA OrderArrivesOp ==
  ASSUME IInv, OrderArrives, NEW p \in Operation, Good(p), NEW i \in Ids, i = bus[1].id
  PROVE  /\ p.stage = "order" /\ p.on = i => Good(Done(p, "success"))'
         /\ EndsCancel(p, bus[1]) => Good(Freed(p))'
         /\ ~(p.stage = "order" /\ p.on = i) /\ ~EndsCancel(p, bus[1]) => Good(p)'
<1> USE DEF Good
<1>1. /\ Says(bus[1], i) /\ TrueOf(bus[1], state[i]) /\ i \in used
      /\ Heard(i)' /\ Last(history'[i]) = bus[1]
      /\ \A n \in Ids : n # i => history'[n] = history[n]
      /\ errors' = errors /\ state' = state /\ used' = used
  BY OrderArrivesFacts DEF Delivered
<1>2. /\ \A k \in DOMAIN bus : k # 1 => k - 1 \in DOMAIN bus' /\ bus'[k - 1] = bus[k]
      /\ \A n \in Ids : Settled(n) => Settled(n)'
      /\ used \subseteq Ids
  <2>1. Delivered
    BY OrderArrivesFacts
  <2> QED BY <2>1, BusType, MovesUp, DeliveredSettled DEF IInv, Delivered, TypeOK
<1>3. ASSUME p.stage = "order", p.on = i
      PROVE  Good(Done(p, "success"))'
  <2> DEFINE q == Done(p, "success")
  <2>1. /\ q.stage = "done" /\ q.result = "success" /\ q.kind = p.kind
        /\ q.about = p.about /\ q.to = p.to /\ q.on = p.on
    BY OperationFields
  <2> HIDE DEF q
  <2>2. /\ p.kind \in {"add", "wait_order", "move"}
        /\ i = IF p.kind = "move" THEN p.to ELSE p.about
        /\ p.kind = "move" => p.about \in used /\ state[p.about] = "cancelled"
    BY <1>3 DEF OpKnows
  <2>3. TakenIn(state'[i])
    BY <1>1 DEF TrueOf
  <2>4. OpKnows(q)'
    BY <2>1, <2>2 DEF OpKnows
  <2>5. OpTrue(q)'
    BY <1>1, <2>1, <2>2, <2>3 DEF OpTrue
  <2>6. OpAnswered(q)'
    BY <2>1 DEF OpAnswered
  <2> QED BY <2>4, <2>5, <2>6 DEF q
<1>4. ASSUME EndsCancel(p, bus[1])
      PROVE  Good(Freed(p))'
  <2>1. /\ p.stage = "cancel" /\ p.on = i /\ p.about = i /\ state'[i] = "cancelled"
        /\ p.kind \in {"cancel", "wait_cancel", "move"} /\ p.result = "none"
        /\ p.kind = "move" => p.to \in used
    BY <1>1, <1>4 DEF EndsCancel, OpKnows, TrueOf
  <2>2. CASE p.kind = "move"
    <3> DEFINE q == Freed(p)
    <3>1. /\ q.stage = "resumed" /\ q.result = "none" /\ q.kind = "move"
          /\ q.about = i /\ q.to = p.to
      BY <2>1, <2>2, OperationFields
    <3> HIDE DEF q
    <3>2. OpKnows(q)'
      BY <1>1, <2>1, <2>2, <3>1 DEF OpKnows
    <3>3. OpTrue(q)' /\ OpAnswered(q)'
      BY <3>1 DEF OpTrue, OpAnswered
    <3> QED BY <3>2, <3>3 DEF q
  <2>3. CASE p.kind # "move"
    <3> DEFINE q == Done(p, "success")
    <3>1. /\ q.stage = "done" /\ q.result = "success" /\ q.kind = p.kind /\ q.about = i
          /\ Freed(p) = q
      BY <2>1, <2>3, OperationFields
    <3> HIDE DEF q
    <3>2. OpKnows(q)' /\ OpAnswered(q)'
      BY <2>3, <3>1 DEF OpKnows, OpAnswered
    <3>3. OpTrue(q)'
      BY <1>1, <2>1, <2>3, <3>1 DEF OpTrue
    <3> QED BY <3>1, <3>2, <3>3
  <2> QED BY <2>2, <2>3
<1>5. ASSUME ~(p.stage = "order" /\ p.on = i), ~EndsCancel(p, bus[1])
      PROVE  Good(p)'
  <2>1. OpKnows(p)'
    <3>1. ASSUME p.stage = "order" PROVE p.on \in used /\ ~Heard(p.on)'
      BY <1>1, <1>2, <1>5, <3>1 DEF OpKnows, Heard
    <3>2. ASSUME p.stage = "cancel", p.kind = "move" PROVE ~HeardCancel(p.on)'
      <4>1. p.on \in Ids /\ ~HeardCancel(p.on)
        BY <1>2, <3>2 DEF OpKnows
      <4>2. p.on = i => bus[1].status # "Cancel"
        BY <1>5, <3>2 DEF EndsCancel
      <4> QED BY <1>1, <4>1, <4>2 DEF HeardCancel, Heard
    <3> QED BY <1>1, <3>1, <3>2 DEF OpKnows
  <2>2. OpTrue(p)'
    BY <1>1, <1>2 DEF OpTrue
  <2>3. OpAnswered(p)'
    <3>1. bus[1].kind = "order" /\ (p.stage = "cancel" => ~Cancels(bus[1], p.on))
      BY <1>1, <1>5 DEF Says, Cancels, EndsCancel
    <3>2. \A k \in DOMAIN bus : bus[k] # bus[1] => \E j \in DOMAIN bus' : bus'[j] = bus[k]
      BY <1>2
    <3>3. p.stage = "cancel" => p.on \in used
      BY DEF OpKnows
    <3>4. ASSUME p.stage = "cancel", p.kind = "cancel"
          PROVE  \E k \in DOMAIN bus' :
                   \/ bus'[k].kind = "del" /\ bus'[k].id = p.on
                   \/ Cancels(bus'[k], p.on) \/ Fails(bus'[k], p.on, "Delete")
      BY <3>1, <3>2, <3>4 DEF OpAnswered, Fails
    <3>5. ASSUME p.stage = "cancel", p.kind = "move",
                 ~(state[p.on] \notin {"open", "cancelled"} /\ Settled(p.on))
          PROVE  \E k \in DOMAIN bus' :
                   \/ bus'[k].kind = "move" /\ bus'[k].to = p.to /\ bus'[k].id = p.on
                   \/ Cancels(bus'[k], p.on) \/ Fails(bus'[k], p.on, "Delete")
      BY <3>1, <3>2, <3>5 DEF OpAnswered, Fails
    <3>6. p.stage = "cancel" /\ Settled(p.on) => Settled(p.on)'
      BY <1>2, <3>3
    <3> QED BY <1>1, <3>4, <3>5, <3>6 DEF OpAnswered, Cancels, Says, Fails
  <2> QED BY <2>1, <2>2, <2>3
<1> QED BY <1>3, <1>4, <1>5

LEMMA OrderArrivesInv ==
  ASSUME IInv, OrderArrives
  PROVE  IInv'
<1>1. OpsInv'
  <2>1. ASSUME NEW o \in Ops PROVE \E p : ops'[o] = p /\ Good(p)'
    <3>1. PICK p : p = ops[o]
      OBVIOUS
    <3>2. p \in Operation /\ Good(p)
      BY <3>1, OpsFrom DEF IInv, TypeOK
    <3>3. PICK i \in Ids : i = bus[1].id
      BY OrderArrivesFacts
    <3>4. ops'[o] = IF p.stage = "order" /\ p.on = i THEN Done(p, "success")
                    ELSE IF EndsCancel(p, bus[1]) THEN Freed(p) ELSE p
      BY <3>1, <3>3, OrderArrivesFacts
    <3>5. /\ p.stage = "order" /\ p.on = i => Good(Done(p, "success"))'
          /\ EndsCancel(p, bus[1]) => Good(Freed(p))'
          /\ ~(p.stage = "order" /\ p.on = i) /\ ~EndsCancel(p, bus[1]) => Good(p)'
      BY <3>2, <3>3, OrderArrivesOp
    <3>6. CASE p.stage = "order" /\ p.on = i
      BY <3>4, <3>5, <3>6
    <3>7. CASE ~(p.stage = "order" /\ p.on = i) /\ EndsCancel(p, bus[1])
      BY <3>4, <3>5, <3>7
    <3>8. CASE ~(p.stage = "order" /\ p.on = i) /\ ~EndsCancel(p, bus[1])
      BY <3>4, <3>5, <3>8
    <3> QED BY <3>6, <3>7, <3>8
  <2> QED BY <2>1, OpsTo
<1>2. Asked'
  BY DeliveredAsked, OrderArrivesFacts
<1> QED BY <1>1, <1>2, OrderArrivesType, OrderArrivesNews DEF IInv

\* An error about order i
LEMMA ErrorArrivesFacts ==
  ASSUME IInv, ErrorArrives
  PROVE  /\ Delivered /\ bus[1].id \in used /\ bus[1].id \in Ids
         /\ Fails(bus[1], bus[1].id, bus[1].of) /\ bus[1].of \in {"Add", "Delete"}
         /\ \A n \in Ids : errors'[n] = IF n = bus[1].id THEN errors[n] \cup {bus[1].of} ELSE errors[n]
         /\ errors' \in [Ids -> SUBSET {"Add", "Delete"}]
         /\ pendings' \subseteq pendings
         /\ \A n \in Ids : n \in pendings /\ n \notin pendings' => Fails(bus[1], n, "Add")
         /\ ops' = [o \in Ops |->
                      IF ops[o].stage = "order" /\ ops[o].on = bus[1].id THEN Done(ops[o], "rejected")
                      ELSE IF FailsCancel(ops[o], bus[1]) THEN Done(ops[o], "error")
                      ELSE ops[o]]
         /\ history' = history /\ closed' = closed /\ rest' = rest
<1>1. /\ bus # <<>> /\ Head(bus) = bus[1] /\ 1 \in DOMAIN bus /\ bus[1] \in Message
      /\ bus[1].id \in used /\ bus[1].id \in Ids /\ bus[1].kind = "error"
  BY HeadOfBus DEF ErrorArrives, Arrives
<1>2. bus[1].of \in {"Add", "Delete"}
  BY <1>1, MessageKinds
<1>3. errors' = [errors EXCEPT ![bus[1].id] = @ \cup {bus[1].of}]
  BY <1>1 DEF ErrorArrives
<1>4. errors \in [Ids -> SUBSET {"Add", "Delete"}]
  BY DEF IInv, TypeOK
<1>5. pendings' = IF bus[1].of = "Add" THEN pendings \ {bus[1].id} ELSE pendings
  BY <1>1 DEF ErrorArrives, PendingsAfter
<1>6. ops' = [o \in Ops |->
                IF ops[o].stage = "order" /\ ops[o].on = bus[1].id THEN Done(ops[o], "rejected")
                ELSE IF FailsCancel(ops[o], bus[1]) THEN Done(ops[o], "error")
                ELSE ops[o]]
  BY <1>1 DEF ErrorArrives
<1>7. Delivered /\ history' = history /\ closed' = closed /\ rest' = rest
  BY <1>1 DEF Delivered, ErrorArrives
<1>8. /\ \A n \in Ids : errors'[n] = IF n = bus[1].id THEN errors[n] \cup {bus[1].of} ELSE errors[n]
      /\ errors' \in [Ids -> SUBSET {"Add", "Delete"}]
  BY <1>1, <1>2, <1>3, <1>4
<1>9. /\ pendings' \subseteq pendings
      /\ \A n \in Ids : n \in pendings /\ n \notin pendings' => Fails(bus[1], n, "Add")
  BY <1>1, <1>5 DEF Fails
<1> QED BY <1>1, <1>2, <1>6, <1>7, <1>8, <1>9 DEF Fails

LEMMA ErrorArrivesType ==
  ASSUME IInv, ErrorArrives
  PROVE  TypeOK'
<1>1. bus' \in Seq(Message)
  BY BusType, MovesUp, ErrorArrivesFacts DEF IInv, Delivered
<1>2. ops' \in [Ops -> Operation]
  <2>1. ops \in [Ops -> Operation]
    BY DEF IInv, TypeOK
  <2> QED BY <2>1, ErrorArrivesFacts, OperationKinds
<1>3. pendings' \subseteq used'
  BY ErrorArrivesFacts DEF IInv, TypeOK, Delivered
<1> QED BY <1>1, <1>2, <1>3, ErrorArrivesFacts DEF IInv, TypeOK, Delivered, Message

LEMMA ErrorArrivesNews ==
  ASSUME IInv, ErrorArrives
  PROVE  NewUntold' /\ NewsTrue' /\ NewsComplete' /\ NewsInOrder'
<1> USE DEF IInv
<1>1. /\ \A k \in DOMAIN bus' :
           k \in Nat /\ k >= 1 /\ k + 1 \in DOMAIN bus /\ bus'[k] = bus[k + 1]
      /\ \A k \in DOMAIN bus : k \in Nat /\ k >= 1
      /\ \A k \in DOMAIN bus : k # 1 => k - 1 \in DOMAIN bus' /\ bus'[k - 1] = bus[k]
      /\ 1 \in DOMAIN bus
  BY BusType, MovesUp, ErrorArrivesFacts DEF Delivered
<1>2. PICK i \in Ids : i = bus[1].id
  BY ErrorArrivesFacts
<1>3. PICK of \in {"Add", "Delete"} : Fails(bus[1], i, of) /\ of = bus[1].of
  BY <1>2, ErrorArrivesFacts
<1>4. /\ i \in used /\ history' = history /\ state' = state /\ used' = used
      /\ \A n \in Ids : errors'[n] = IF n = i THEN errors[n] \cup {of} ELSE errors[n]
      /\ pendings' \subseteq pendings
      /\ \A n \in Ids : n \in pendings /\ n \notin pendings' => Fails(bus[1], n, "Add")
  BY <1>2, <1>3, ErrorArrivesFacts DEF Delivered
<1>5. \A n \in Ids : ~Says(bus[1], n) /\ ~Cancels(bus[1], n)
  BY <1>3 DEF Fails, Says, Cancels
<1>6. \A n \in Ids : \A w \in {"Add", "Delete"} : Fails(bus[1], n, w) => n = i /\ w = of
  BY <1>3 DEF Fails
<1>7. ~Untold(i)
  BY <1>1, <1>3 DEF Untold, Fails
<1>8. \A n \in Ids : (Heard(n)' <=> Heard(n)) /\ (HeardCancel(n)' <=> HeardCancel(n))
  BY <1>4 DEF Heard, HeardCancel
<1>9. NewUntold'
  <2>1. ASSUME NEW n \in Ids, Untold(n) PROVE Untold(n)' /\ n # i
    <3>1. n # i
      BY <1>7, <2>1
    <3>2. state'[n] = "unknown" /\ ~Heard(n)' /\ errors'[n] = {}
      BY <1>4, <1>8, <2>1, <3>1 DEF Untold
    <3>3. \A k \in DOMAIN bus' : ~Says(bus'[k], n) /\ (bus'[k].kind = "error" => bus'[k].id # n)
      BY <1>1, <2>1 DEF Untold
    <3> QED BY <3>1, <3>2, <3>3 DEF Untold
  <2>2. ASSUME NEW n \in Ids, NEW k \in DOMAIN bus', Places(bus'[k], n)
        PROVE  Untold(n)' /\ n \in pendings'
    BY <1>1, <1>4, <1>6, <2>1, <2>2 DEF NewUntold
  <2> QED BY <1>4, <2>1, <2>2 DEF NewUntold
<1>10. NewsTrue'
  <2>1. SUFFICES ASSUME NEW n \in Ids
        PROVE  /\ \A k \in DOMAIN bus' :
                    /\ Says(bus'[k], n) => TrueOf(bus'[k], state'[n])
                    /\ Fails(bus'[k], n, "Add") => state'[n] = "refused"
                    /\ Fails(bus'[k], n, "Delete") => state'[n] # "open"
               /\ Heard(n)' => TrueOf(Last(history'[n]), state'[n])
               /\ "Add" \in errors'[n] => state'[n] = "refused"
               /\ "Delete" \in errors'[n] => state'[n] # "open"
    BY DEF NewsTrue, Says, Fails
  <2>2. Heard(n)' => TrueOf(Last(history'[n]), state'[n])
    BY <1>4, <1>8 DEF NewsTrue
  <2>3. /\ "Add" \in errors'[n] => state'[n] = "refused"
        /\ "Delete" \in errors'[n] => state'[n] # "open"
    BY <1>1, <1>3, <1>4 DEF NewsTrue
  <2>4. \A k \in DOMAIN bus' :
          /\ Says(bus'[k], n) => TrueOf(bus'[k], state'[n])
          /\ Fails(bus'[k], n, "Add") => state'[n] = "refused"
          /\ Fails(bus'[k], n, "Delete") => state'[n] # "open"
    BY <1>1, <1>4 DEF NewsTrue
  <2> QED BY <2>2, <2>3, <2>4
<1>11. NewsComplete'
  <2>1. SUFFICES ASSUME NEW n \in Ids
        PROVE  /\ TakenIn(state[n]) => Heard(n) \/ \E k \in DOMAIN bus' : Says(bus'[k], n)
               /\ state[n] = "refused" => "Add" \in errors'[n] \/ \E k \in DOMAIN bus' : Fails(bus'[k], n, "Add")
               /\ state[n] = "cancelled" => HeardCancel(n) \/ \E k \in DOMAIN bus' : Cancels(bus'[k], n)
               /\ state[n] = "open" /\ n \notin pendings' => Heard(n)
    BY <1>4, <1>8 DEF NewsComplete, Says, Fails, Cancels
  <2>2. TakenIn(state[n]) => Heard(n) \/ \E k \in DOMAIN bus' : Says(bus'[k], n)
    BY <1>1, <1>5 DEF NewsComplete
  <2>3. state[n] = "refused" => "Add" \in errors'[n] \/ \E k \in DOMAIN bus' : Fails(bus'[k], n, "Add")
    <3>1. ASSUME NEW k \in DOMAIN bus, Fails(bus[k], n, "Add")
          PROVE  "Add" \in errors'[n] \/ \E j \in DOMAIN bus' : Fails(bus'[j], n, "Add")
      BY <1>1, <1>4, <1>6, <3>1
    <3> QED BY <1>4, <3>1 DEF NewsComplete
  <2>4. state[n] = "cancelled" => HeardCancel(n) \/ \E k \in DOMAIN bus' : Cancels(bus'[k], n)
    BY <1>1, <1>5 DEF NewsComplete
  <2>5. state[n] = "open" /\ n \notin pendings' => Heard(n)
    <3>1. Fails(bus[1], n, "Add") => state[n] = "refused"
      BY <1>1 DEF NewsTrue
    <3> QED BY <1>4, <3>1 DEF NewsComplete
  <2> QED BY <2>2, <2>3, <2>4, <2>5
<1>12. NewsInOrder'
  <2>1. SUFFICES ASSUME NEW n \in Ids
        PROVE  /\ \A j, k \in DOMAIN bus' : j < k /\ Cancels(bus'[j], n) => ~Says(bus'[k], n)
               /\ HeardCancel(n) => \A k \in DOMAIN bus' : ~Says(bus'[k], n)
               /\ \A k \in DOMAIN bus' : Fails(bus'[k], n, "Delete") /\ TakenIn(state[n]) =>
                     Heard(n) \/ \E j \in DOMAIN bus' : j < k /\ Says(bus'[j], n)
               /\ "Delete" \in errors'[n] /\ TakenIn(state[n]) => Heard(n)
    BY <1>4, <1>8 DEF NewsInOrder, Says, Fails, Cancels
  <2>2. ASSUME NEW j \in DOMAIN bus', NEW k \in DOMAIN bus', j < k, Cancels(bus'[j], n)
        PROVE  ~Says(bus'[k], n)
    <3>1. j + 1 < k + 1
      BY <1>1, <2>2
    <3> QED BY <1>1, <2>2, <3>1 DEF NewsInOrder
  <2>3. HeardCancel(n) => \A k \in DOMAIN bus' : ~Says(bus'[k], n)
    BY <1>1 DEF NewsInOrder
  <2>4. ASSUME NEW k \in DOMAIN bus', Fails(bus'[k], n, "Delete"), TakenIn(state[n]), ~Heard(n)
        PROVE  \E j \in DOMAIN bus' : j < k /\ Says(bus'[j], n)
    <3>1. PICK j \in DOMAIN bus : j < k + 1 /\ Says(bus[j], n)
      BY <1>1, <2>4 DEF NewsInOrder
    <3>2. j # 1
      BY <1>5, <3>1
    <3>3. j - 1 \in DOMAIN bus' /\ bus'[j - 1] = bus[j] /\ j - 1 < k
      BY <1>1, <3>1, <3>2
    <3> QED BY <3>1, <3>3
  \* Nothing precedes the error: what the exchange took was heard of.
  <2>5. "Delete" \in errors'[n] /\ TakenIn(state[n]) => Heard(n)
    <3>1. Fails(bus[1], n, "Delete") /\ TakenIn(state[n]) =>
            Heard(n) \/ \E j \in DOMAIN bus : j < 1 /\ Says(bus[j], n)
      BY <1>1 DEF NewsInOrder
    <3>2. \A j \in DOMAIN bus : ~(j < 1)
      BY <1>1
    <3> QED BY <1>3, <1>4, <3>1, <3>2 DEF NewsInOrder
  <2> QED BY <2>2, <2>3, <2>4, <2>5
<1> QED BY <1>9, <1>10, <1>11, <1>12

\* An error ends the operations that wait for its order, and those that wait
\* for the order's cancellation if that is what failed.
LEMMA ErrorArrivesOp ==
  ASSUME IInv, ErrorArrives, NEW p \in Operation, Good(p), NEW i \in Ids, i = bus[1].id
  PROVE  /\ p.stage = "order" /\ p.on = i => Good(Done(p, "rejected"))'
         /\ FailsCancel(p, bus[1]) => Good(Done(p, "error"))'
         /\ ~(p.stage = "order" /\ p.on = i) /\ ~FailsCancel(p, bus[1]) => Good(p)'
<1> USE DEF Good
<1>1. /\ Fails(bus[1], i, bus[1].of) /\ bus[1].of \in {"Add", "Delete"} /\ i \in used
      /\ \A n \in Ids : n # i => errors'[n] = errors[n]
      /\ history' = history /\ state' = state /\ used' = used
  BY ErrorArrivesFacts DEF Delivered
<1>2. /\ \A k \in DOMAIN bus : k # 1 => k - 1 \in DOMAIN bus' /\ bus'[k - 1] = bus[k]
      /\ 1 \in DOMAIN bus /\ \A k \in DOMAIN bus : k \in Nat /\ k >= 1
      /\ \A n \in Ids : Settled(n) => Settled(n)'
      /\ Settled(i)'
      /\ used \subseteq Ids
  <2>1. Delivered
    BY ErrorArrivesFacts
  <2> QED BY <2>1, BusType, MovesUp, DeliveredSettled DEF IInv, Delivered, TypeOK
<1>3. ASSUME p.stage = "order", p.on = i
      PROVE  Good(Done(p, "rejected"))'
  <2> DEFINE q == Done(p, "rejected")
  <2>1. /\ q.stage = "done" /\ q.result = "rejected" /\ q.kind = p.kind
        /\ q.about = p.about /\ q.to = p.to /\ q.on = p.on
    BY OperationFields
  <2> HIDE DEF q
  <2>2. /\ p.kind \in {"add", "wait_order", "move"}
        /\ p.kind # "move" => i = p.about
        /\ ~Heard(i)
    BY <1>3 DEF OpKnows
  <2>3. ~TakenIn(state[i])
    <3>1. CASE Fails(bus[1], i, "Add")
      BY <1>2, <3>1 DEF IInv, NewsTrue, TakenIn
    <3>2. CASE Fails(bus[1], i, "Delete")
      BY <1>2, <2>2, <3>2 DEF IInv, NewsInOrder
    <3> QED BY <1>1, <3>1, <3>2
  <2>4. OpKnows(q)' /\ OpAnswered(q)'
    BY <2>1, <2>2 DEF OpKnows, OpAnswered
  <2>5. OpTrue(q)'
    BY <1>1, <1>2, <2>1, <2>2, <2>3 DEF OpTrue
  <2> QED BY <2>4, <2>5 DEF q
<1>4. ASSUME FailsCancel(p, bus[1])
      PROVE  Good(Done(p, "error"))'
  <2> DEFINE q == Done(p, "error")
  <2>1. /\ q.stage = "done" /\ q.result = "error" /\ q.kind = p.kind
        /\ q.about = p.about /\ q.to = p.to /\ q.on = p.on
    BY OperationFields
  <2> HIDE DEF q
  <2>2. /\ p.stage = "cancel" /\ p.on = i /\ p.about = i
        /\ p.kind \in {"cancel", "wait_cancel", "move"}
        /\ Fails(bus[1], i, "Delete")
    BY <1>1, <1>4 DEF FailsCancel, OpKnows
  <2>3. state[i] # "open"
    BY <1>2, <2>2 DEF IInv, NewsTrue
  <2>4. OpKnows(q)' /\ OpAnswered(q)'
    BY <2>1, <2>2 DEF OpKnows, OpAnswered
  <2>5. OpTrue(q)'
    BY <1>1, <1>2, <2>1, <2>2, <2>3 DEF OpTrue
  <2> QED BY <2>4, <2>5 DEF q
<1>5. ASSUME ~(p.stage = "order" /\ p.on = i), ~FailsCancel(p, bus[1])
      PROVE  Good(p)'
  <2>1. OpKnows(p)'
    <3>1. ASSUME p.stage = "order" PROVE p.on \in used /\ errors'[p.on] = {}
      BY <1>1, <1>2, <1>5, <3>1 DEF OpKnows
    <3> QED BY <1>1, <3>1 DEF OpKnows, Heard, HeardCancel
  <2>2. OpTrue(p)'
    BY <1>1, <1>2 DEF OpTrue
  <2>3. OpAnswered(p)'
    <3>1. bus[1].kind = "error" /\ (p.stage = "cancel" => ~Fails(bus[1], p.on, "Delete"))
      BY <1>1, <1>5 DEF Fails, FailsCancel
    <3>2. \A k \in DOMAIN bus : bus[k] # bus[1] => \E j \in DOMAIN bus' : bus'[j] = bus[k]
      BY <1>2
    <3>3. p.stage = "cancel" => p.on \in used
      BY DEF OpKnows
    <3>4. ASSUME p.stage = "cancel", p.kind = "cancel"
          PROVE  \E k \in DOMAIN bus' :
                   \/ bus'[k].kind = "del" /\ bus'[k].id = p.on
                   \/ Cancels(bus'[k], p.on) \/ Fails(bus'[k], p.on, "Delete")
      BY <3>1, <3>2, <3>4 DEF OpAnswered, Cancels, Says
    <3>5. ASSUME p.stage = "cancel", p.kind = "move",
                 ~(state[p.on] \notin {"open", "cancelled"} /\ Settled(p.on))
          PROVE  \E k \in DOMAIN bus' :
                   \/ bus'[k].kind = "move" /\ bus'[k].to = p.to /\ bus'[k].id = p.on
                   \/ Cancels(bus'[k], p.on) \/ Fails(bus'[k], p.on, "Delete")
      BY <3>1, <3>2, <3>5 DEF OpAnswered, Cancels, Says
    <3>6. p.stage = "cancel" /\ Settled(p.on) => Settled(p.on)'
      BY <1>2, <3>3
    <3> QED BY <1>1, <3>4, <3>5, <3>6 DEF OpAnswered, Cancels, Says, Fails
  <2> QED BY <2>1, <2>2, <2>3
<1> QED BY <1>3, <1>4, <1>5

LEMMA ErrorArrivesInv ==
  ASSUME IInv, ErrorArrives
  PROVE  IInv'
<1>1. OpsInv'
  <2>1. ASSUME NEW o \in Ops PROVE \E p : ops'[o] = p /\ Good(p)'
    <3>1. PICK p : p = ops[o]
      OBVIOUS
    <3>2. p \in Operation /\ Good(p)
      BY <3>1, OpsFrom DEF IInv, TypeOK
    <3>3. PICK i \in Ids : i = bus[1].id
      BY ErrorArrivesFacts
    <3>4. ops'[o] = IF p.stage = "order" /\ p.on = i THEN Done(p, "rejected")
                    ELSE IF FailsCancel(p, bus[1]) THEN Done(p, "error") ELSE p
      BY <3>1, <3>3, ErrorArrivesFacts
    <3>5. /\ p.stage = "order" /\ p.on = i => Good(Done(p, "rejected"))'
          /\ FailsCancel(p, bus[1]) => Good(Done(p, "error"))'
          /\ ~(p.stage = "order" /\ p.on = i) /\ ~FailsCancel(p, bus[1]) => Good(p)'
      BY <3>2, <3>3, ErrorArrivesOp
    <3>6. CASE p.stage = "order" /\ p.on = i
      BY <3>4, <3>5, <3>6
    <3>7. CASE ~(p.stage = "order" /\ p.on = i) /\ FailsCancel(p, bus[1])
      BY <3>4, <3>5, <3>7
    <3>8. CASE ~(p.stage = "order" /\ p.on = i) /\ ~FailsCancel(p, bus[1])
      BY <3>4, <3>5, <3>8
    <3> QED BY <3>6, <3>7, <3>8
  <2> QED BY <2>1, OpsTo
<1>2. Asked'
  BY DeliveredAsked, ErrorArrivesFacts
<1> QED BY <1>1, <1>2, ErrorArrivesType, ErrorArrivesNews DEF IInv

-----------------------------------------------------------------------------
(* Operations *)

\* A request joins the bus; the order it asks for is new and becomes pending.
Requested(m) ==
    /\ bus' = Append(bus, m) /\ m \in Request
    /\ used \subseteq used' /\ used' \subseteq Ids
    /\ pendings \subseteq pendings' /\ pendings' \subseteq used'
    /\ m.id \in used' /\ (m.kind = "move" => m.to \in used' /\ m.to # m.id)
    /\ \A i \in Ids : Places(m, i) => i \notin used /\ i \in pendings'
    /\ UNCHANGED <<state, rest, history, errors, closed>>

LEMMA RequestedBus ==
  ASSUME IInv, NEW m, Requested(m)
  PROVE  /\ bus' \in Seq(Message)
         /\ \A k \in DOMAIN bus : k \in DOMAIN bus' /\ bus'[k] = bus[k] /\ k < Len(bus) + 1
         /\ Len(bus) + 1 \in DOMAIN bus' /\ bus'[Len(bus) + 1] = m
         /\ \A k \in DOMAIN bus' : k \in DOMAIN bus \/ k = Len(bus) + 1
         /\ \A k \in DOMAIN bus : k \in Nat
         /\ Len(bus) \in Nat
         /\ m.kind \in {"add", "del", "move"}
<1>1. bus \in Seq(Message) /\ m \in Message /\ bus' = Append(bus, m)
  BY BusType DEF IInv, Requested, Message
<1>2. m.kind \in {"add", "del", "move"}
  BY DEF Requested, Request
<1>3. /\ bus' \in Seq(Message) /\ Len(bus') = Len(bus) + 1 /\ Len(bus) \in Nat
      /\ \A k \in 1..Len(bus) : bus'[k] = bus[k]
      /\ bus'[Len(bus) + 1] = m
      /\ DOMAIN bus = 1..Len(bus) /\ DOMAIN bus' = 1..Len(bus) + 1
  BY <1>1, AppendProperties
<1> QED BY <1>2, <1>3

LEMMA RequestedNews ==
  ASSUME IInv, NEW m, Requested(m)
  PROVE  Asked' /\ NewUntold' /\ NewsTrue' /\ NewsComplete' /\ NewsInOrder'
<1> USE DEF IInv
<1>1. /\ \A k \in DOMAIN bus : k \in DOMAIN bus' /\ bus'[k] = bus[k] /\ k < Len(bus) + 1
      /\ \A k \in DOMAIN bus' : k \in DOMAIN bus \/ (k = Len(bus) + 1 /\ bus'[k] = m)
      /\ \A k \in DOMAIN bus : k \in Nat
      /\ Len(bus) \in Nat
  BY RequestedBus
<1>2. /\ m.kind \in {"add", "del", "move"}
      /\ \A n : ~Says(m, n) /\ ~Cancels(m, n) /\ ~Fails(m, n, "Add") /\ ~Fails(m, n, "Delete")
  BY RequestedBus DEF Says, Cancels, Fails
<1>3. /\ used \subseteq used' /\ used \subseteq Ids /\ pendings \subseteq pendings'
      /\ m.id \in used' /\ (m.kind = "move" => m.to \in used' /\ m.to # m.id)
      /\ \A i \in Ids : Places(m, i) => i \notin used /\ i \in pendings'
      /\ state' = state /\ history' = history /\ errors' = errors
  BY DEF Requested, TypeOK
<1>4. Asked'
  <2>1. ASSUME NEW k \in DOMAIN bus'
        PROVE  /\ bus'[k].id \in used'
               /\ bus'[k].kind = "move" => bus'[k].to \in used' /\ bus'[k].to # bus'[k].id
    BY <1>1, <1>3 DEF Asked
  <2>2. \A i \in Ids : \A k \in DOMAIN bus : Places(bus[k], i) \/ Wants(bus[k], i) => i \in used
    BY DEF Asked, Places, Wants
  <2>3. ASSUME NEW i \in Ids, NEW j \in DOMAIN bus', NEW k \in DOMAIN bus',
               Places(bus'[j], i), Places(bus'[k], i)
        PROVE  j = k
    BY <1>1, <1>3, <2>2, <2>3 DEF Asked
  <2>4. ASSUME NEW i \in Ids, NEW j \in DOMAIN bus', NEW k \in DOMAIN bus',
               j < k, Wants(bus'[j], i), Places(bus'[k], i)
        PROVE  FALSE
    <3>1. j \in DOMAIN bus
      BY <1>1, <2>4
    <3> QED BY <1>1, <1>3, <2>2, <2>4, <3>1 DEF Asked
  <2> QED BY <2>1, <2>3, <2>4 DEF Asked
<1>5. ASSUME NEW n \in Ids, Untold(n) PROVE Untold(n)'
  <2>1. state'[n] = "unknown" /\ ~Heard(n)' /\ errors'[n] = {}
    BY <1>3, <1>5 DEF Untold, Heard
  <2>2. \A k \in DOMAIN bus' : ~Says(bus'[k], n) /\ (bus'[k].kind = "error" => bus'[k].id # n)
    BY <1>1, <1>2, <1>5 DEF Untold
  <2> QED BY <2>1, <2>2 DEF Untold
<1>6. NewUntold'
  <2>1. ASSUME NEW n \in Ids, NEW k \in DOMAIN bus', Places(bus'[k], n)
        PROVE  Untold(n) /\ n \in pendings'
    <3>1. CASE k \in DOMAIN bus
      BY <1>1, <1>3, <2>1, <3>1 DEF NewUntold
    <3>2. CASE bus'[k] = m
      BY <1>3, <2>1, <3>2 DEF NewUntold
    <3> QED BY <1>1, <3>1, <3>2
  <2> QED BY <1>3, <1>5, <2>1 DEF NewUntold
<1>7. \A n \in Ids : (Heard(n)' <=> Heard(n)) /\ (HeardCancel(n)' <=> HeardCancel(n))
  BY <1>3 DEF Heard, HeardCancel
<1>8. NewsTrue'
  <2>1. SUFFICES ASSUME NEW n \in Ids
        PROVE  /\ \A k \in DOMAIN bus' :
                    /\ Says(bus'[k], n) => TrueOf(bus'[k], state'[n])
                    /\ Fails(bus'[k], n, "Add") => state'[n] = "refused"
                    /\ Fails(bus'[k], n, "Delete") => state'[n] # "open"
               /\ Heard(n)' => TrueOf(Last(history'[n]), state'[n])
               /\ "Add" \in errors'[n] => state'[n] = "refused"
               /\ "Delete" \in errors'[n] => state'[n] # "open"
    BY DEF NewsTrue, Says, Fails
  <2>2. /\ Heard(n)' => TrueOf(Last(history'[n]), state'[n])
        /\ "Add" \in errors'[n] => state'[n] = "refused"
        /\ "Delete" \in errors'[n] => state'[n] # "open"
    BY <1>3, <1>7 DEF NewsTrue
  <2> QED BY <1>1, <1>2, <1>3, <2>2 DEF NewsTrue
<1>9. NewsComplete'
  <2>1. SUFFICES ASSUME NEW n \in Ids
        PROVE  /\ TakenIn(state[n]) => Heard(n) \/ \E k \in DOMAIN bus' : Says(bus'[k], n)
               /\ state[n] = "refused" => "Add" \in errors[n] \/ \E k \in DOMAIN bus' : Fails(bus'[k], n, "Add")
               /\ state[n] = "cancelled" => HeardCancel(n) \/ \E k \in DOMAIN bus' : Cancels(bus'[k], n)
               /\ state[n] = "open" /\ n \notin pendings' => Heard(n)
    BY <1>3, <1>7 DEF NewsComplete, Says, Fails, Cancels
  <2> QED BY <1>1, <1>3 DEF NewsComplete
<1>10. NewsInOrder'
  <2>1. SUFFICES ASSUME NEW n \in Ids
        PROVE  /\ \A j, k \in DOMAIN bus' : j < k /\ Cancels(bus'[j], n) => ~Says(bus'[k], n)
               /\ HeardCancel(n) => \A k \in DOMAIN bus' : ~Says(bus'[k], n)
               /\ \A k \in DOMAIN bus' : Fails(bus'[k], n, "Delete") /\ TakenIn(state[n]) =>
                     Heard(n) \/ \E j \in DOMAIN bus' : j < k /\ Says(bus'[j], n)
               /\ "Delete" \in errors[n] /\ TakenIn(state[n]) => Heard(n)
    BY <1>3, <1>7 DEF NewsInOrder, Says, Fails, Cancels
  <2>2. \A j, k \in DOMAIN bus' : j < k /\ Cancels(bus'[j], n) => ~Says(bus'[k], n)
    BY <1>1, <1>2 DEF NewsInOrder
  <2>3. HeardCancel(n) => \A k \in DOMAIN bus' : ~Says(bus'[k], n)
    BY <1>1, <1>2 DEF NewsInOrder
  <2>4. \A k \in DOMAIN bus' : Fails(bus'[k], n, "Delete") /\ TakenIn(state[n]) =>
                     Heard(n) \/ \E j \in DOMAIN bus' : j < k /\ Says(bus'[j], n)
    BY <1>1, <1>2 DEF NewsInOrder
  <2> QED BY <2>2, <2>3, <2>4 DEF NewsInOrder
<1> QED BY <1>4, <1>6, <1>8, <1>9, <1>10

\* An operation under way knows no less.
LEMMA RequestedOp ==
  ASSUME IInv, NEW m, Requested(m), NEW p, Good(p)
  PROVE  Good(p)'
<1> USE DEF Good
<1>1. /\ \A k \in DOMAIN bus : k \in DOMAIN bus' /\ bus'[k] = bus[k]
      /\ \A k \in DOMAIN bus' : (k \in DOMAIN bus /\ bus'[k] = bus[k]) \/ bus'[k] = m
  BY RequestedBus
<1>2. /\ used \subseteq used' /\ used \subseteq Ids
      /\ \A i \in used : ~Places(m, i)
      /\ state' = state /\ history' = history /\ errors' = errors
  BY DEF IInv, TypeOK, Requested
<1>3. \A n \in used : Settled(n) => Settled(n)'
  BY <1>1, <1>2 DEF Settled
<1>4. OpKnows(p)'
  BY <1>2 DEF OpKnows, Heard, HeardCancel
<1>5. OpTrue(p)'
  BY <1>2, <1>3 DEF OpTrue
<1>6. OpAnswered(p)'
  <2>1. p.stage = "cancel" => p.on \in used
    BY DEF OpKnows
  <2>2. p.stage = "cancel" /\ Settled(p.on) => Settled(p.on)'
    BY <1>3, <2>1
  <2> QED BY <1>1, <1>2, <2>2 DEF OpAnswered, Cancels, Says, Fails
<1> QED BY <1>4, <1>5, <1>6

\* One operation starts with a request.
LEMMA RequestedInv ==
  ASSUME IInv, NEW m, Requested(m), NEW o \in Ops, NEW q \in Operation,
         ops' = [ops EXCEPT ![o] = q], Good(q)'
  PROVE  IInv'
<1>1. ops \in [Ops -> Operation]
  BY DEF IInv, TypeOK
<1>2. OpsInv'
  <2>1. ASSUME NEW x \in Ops PROVE \E p : ops'[x] = p /\ Good(p)'
    <3>1. CASE x = o
      BY <1>1, <3>1
    <3>2. CASE x # o
      <4>1. PICK p : p = ops[x] /\ Good(p)
        BY OpsFrom DEF IInv
      <4>2. ops'[x] = p
        BY <1>1, <3>2, <4>1
      <4> QED BY <4>1, <4>2, RequestedOp
    <3> QED BY <3>1, <3>2
  <2> QED BY <2>1, OpsTo
<1>3. TypeOK'
  <2>1. bus' \in Seq(Message)
    BY RequestedBus
  <2>2. ops' \in [Ops -> Operation]
    BY <1>1
  <2> QED BY <2>1, <2>2 DEF IInv, TypeOK, Requested, Message
<1> QED BY <1>2, <1>3, RequestedNews DEF IInv

\* Only operations change.
LEMMA OpsOnly ==
  ASSUME IInv, UNCHANGED <<bus, state, rest, used, history, errors, pendings>>,
         closed' \in BOOLEAN, ops' \in [Ops -> Operation],
         \A o \in Ops : \E p : ops'[o] = p /\ Good(p)
  PROVE  IInv'
<1>1. OpsInv'
  <2>1. ASSUME NEW p, Good(p) PROVE Good(p)'
    BY <2>1 DEF Good, OpKnows, OpTrue, OpAnswered, Heard, HeardCancel, Settled
  <2>2. \A o \in Ops : \E p : ops'[o] = p /\ Good(p)'
    BY <2>1
  <2> QED BY <2>2, OpsTo
<1>2. TypeOK'
  BY DEF IInv, TypeOK
<1>3. Asked' /\ NewUntold'
  BY DEF IInv, Asked, NewUntold, Untold, Heard
<1>4. NewsTrue' /\ NewsComplete' /\ NewsInOrder'
  BY DEF IInv, NewsTrue, NewsComplete, NewsInOrder, Heard, HeardCancel
<1> QED BY <1>1, <1>2, <1>3, <1>4 DEF IInv

LEMMA FreshFields ==
  ASSUME NEW kind \in {"none", "add", "wait_order", "cancel", "wait_cancel", "move"},
         NEW i \in Ids \cup {NoId}, NEW j \in Ids \cup {NoId}
  PROVE  /\ Fresh(kind, i, j) \in Operation
         /\ LET p == Fresh(kind, i, j) IN
              p.kind = kind /\ p.stage = "idle" /\ p.about = i /\ p.to = j /\ p.result = "none"
  BY DEF Fresh, Operation

\* An operation that ends in a time-out or with its context says nothing.
LEMMA SilentEnd ==
  ASSUME NEW p \in Operation, NEW res \in {"timeout", "closed"}
  PROVE  Done(p, res) \in Operation /\ Good(Done(p, res)) /\ Good(Done(p, res))'
<1> DEFINE q == Done(p, res)
<1>1. q \in Operation /\ q.stage = "done" /\ q.result = res
  BY OperationKinds, OperationFields
<1> HIDE DEF q
<1>2. OpKnows(q) /\ OpTrue(q) /\ OpAnswered(q)
  BY <1>1 DEF OpKnows, OpTrue, OpAnswered
<1>3. OpKnows(q)' /\ OpTrue(q)' /\ OpAnswered(q)'
  BY <1>1 DEF OpKnows, OpTrue, OpAnswered
<1> QED BY <1>1, <1>2, <1>3 DEF Good, q

\* async_wait_order answers at once with what is so, or waits for an order
\* nothing was heard of.
LEMMA AwaitOrderGood ==
  ASSUME IInv, NEW p \in Operation, p.result = "none", NEW i \in used,
         \/ p.kind = "wait_order" /\ p.about = i
         \/ p.kind = "move" /\ p.to = i /\ p.about \in used /\ state[p.about] = "cancelled"
  PROVE  AwaitOrder(p, i) \in Operation /\ Good(AwaitOrder(p, i))
<1> USE DEF IInv
<1>1. i \in Ids /\ errors[i] \subseteq {"Add", "Delete"}
  BY DEF TypeOK
<1>2. CASE closed
  BY <1>2, SilentEnd DEF AwaitOrder
<1>3. CASE ~closed /\ Heard(i)
  <2> DEFINE q == Done(p, "success")
  <2>1. /\ q \in Operation /\ q.stage = "done" /\ q.result = "success" /\ q.kind = p.kind
        /\ q.about = p.about /\ q.to = p.to
    BY OperationKinds, OperationFields
  <2>2. AwaitOrder(p, i) = q
    BY <1>3 DEF AwaitOrder, Heard
  <2> HIDE DEF q
  <2>3. TakenIn(state[i])
    BY <1>1, <1>3 DEF NewsTrue, TrueOf
  <2> QED BY <2>1, <2>2, <2>3 DEF Good, OpKnows, OpTrue, OpAnswered
<1>4. CASE ~closed /\ ~Heard(i) /\ errors[i] # {}
  <2> DEFINE q == Done(p, "rejected")
  <2>1. /\ q \in Operation /\ q.stage = "done" /\ q.result = "rejected" /\ q.kind = p.kind
        /\ q.about = p.about /\ q.to = p.to
    BY OperationKinds, OperationFields
  <2>2. AwaitOrder(p, i) = q
    BY <1>4 DEF AwaitOrder, Heard
  <2> HIDE DEF q
  <2>3. ~TakenIn(state[i])
    BY <1>1, <1>4 DEF NewsTrue, NewsInOrder, TakenIn
  <2>4. Settled(i)
    BY <1>1, <1>4 DEF NewUntold, Untold, Settled
  <2> QED BY <2>1, <2>2, <2>3, <2>4 DEF Good, OpKnows, OpTrue, OpAnswered
<1>5. CASE ~closed /\ ~Heard(i) /\ errors[i] = {}
  <2> DEFINE q == Waits(p, "order", i)
  <2>1. /\ q \in Operation /\ q.stage = "order" /\ q.result = "none" /\ q.kind = p.kind
        /\ q.about = p.about /\ q.to = p.to /\ q.on = i
    BY <1>1, OperationKinds, OperationFields
  <2>2. AwaitOrder(p, i) = q
    BY <1>5 DEF AwaitOrder, Heard
  <2> HIDE DEF q
  <2> QED BY <1>5, <2>1, <2>2 DEF Good, OpKnows, OpTrue, OpAnswered
<1> QED BY <1>2, <1>3, <1>4, <1>5

\* async_wait_cancel likewise
LEMMA WaitCancelGood ==
  ASSUME IInv, NEW i \in used
  PROVE  LET p == AwaitCancel(Fresh("wait_cancel", i, NoId), i) IN p \in Operation /\ Good(p)
<1> USE DEF IInv
<1> DEFINE p == Fresh("wait_cancel", i, NoId)
<1>1. /\ i \in Ids /\ p \in Operation /\ p.kind = "wait_cancel" /\ p.about = i /\ p.result = "none"
  BY FreshFields DEF TypeOK
<1> HIDE DEF p
<1>2. CASE closed
  BY <1>1, <1>2, SilentEnd DEF AwaitCancel, p
<1>3. CASE ~closed /\ HeardCancel(i)
  <2> DEFINE q == Done(p, "success")
  <2>1. /\ q \in Operation /\ q.stage = "done" /\ q.result = "success" /\ q.kind = "wait_cancel"
        /\ q.about = i
    BY <1>1, OperationKinds, OperationFields
  <2>2. AwaitCancel(p, i) = q
    BY <1>1, <1>3, OperationFields DEF AwaitCancel, Heard, HeardCancel
  <2> HIDE DEF q
  <2>3. state[i] = "cancelled"
    BY <1>1, <1>3 DEF NewsTrue, TrueOf, HeardCancel
  <2> QED BY <2>1, <2>2, <2>3 DEF Good, OpKnows, OpTrue, OpAnswered, p
<1>4. CASE ~closed /\ ~HeardCancel(i) /\ "Delete" \in errors[i]
  <2> DEFINE q == Done(p, "error")
  <2>1. /\ q \in Operation /\ q.stage = "done" /\ q.result = "error" /\ q.kind = "wait_cancel"
        /\ q.about = i
    BY <1>1, OperationKinds, OperationFields
  <2>2. AwaitCancel(p, i) = q
    BY <1>4 DEF AwaitCancel, Heard, HeardCancel
  <2> HIDE DEF q
  <2>3. state[i] # "open"
    BY <1>1, <1>4 DEF NewsTrue
  <2>4. Settled(i)
    BY <1>1, <1>4 DEF NewUntold, Untold, Settled
  <2> QED BY <2>1, <2>2, <2>3, <2>4 DEF Good, OpKnows, OpTrue, OpAnswered, p
<1>5. CASE ~closed /\ ~HeardCancel(i) /\ "Delete" \notin errors[i]
  <2> DEFINE q == Waits(p, "cancel", i)
  <2>1. /\ q \in Operation /\ q.stage = "cancel" /\ q.result = "none" /\ q.kind = "wait_cancel"
        /\ q.about = i /\ q.on = i
    BY <1>1, OperationKinds, OperationFields
  <2>2. AwaitCancel(p, i) = q
    BY <1>5 DEF AwaitCancel, Heard, HeardCancel
  <2> HIDE DEF q
  <2> QED BY <2>1, <2>2 DEF Good, OpKnows, OpTrue, OpAnswered, p
<1> QED BY <1>2, <1>3, <1>4, <1>5

\* The first wait of a move that was just requested
LEMMA MoveOrderGood ==
  ASSUME IInv, NEW i \in used, NEW j \in Ids \ used, NEW v \in 0..MaxVolume,
         Requested([kind |-> "move", id |-> i, to |-> j, volume |-> v]), j \in used'
  PROVE  \E q \in Operation : q = AwaitCancel(Fresh("move", i, j), i) /\ Good(q)'
<1> USE DEF IInv
<1> DEFINE p == Fresh("move", i, j)
           m == [kind |-> "move", id |-> i, to |-> j, volume |-> v]
<1>1. /\ i \in Ids /\ p \in Operation /\ p.kind = "move" /\ p.about = i /\ p.to = j /\ p.result = "none"
  BY FreshFields DEF TypeOK
<1>2. /\ i \in used' /\ state' = state /\ history' = history /\ errors' = errors
  BY DEF Requested
<1>3. \E k \in DOMAIN bus' : bus'[k].kind = "move" /\ bus'[k].to = j /\ bus'[k].id = i
  <2>1. \E k \in DOMAIN bus' : bus'[k] = m
    BY RequestedBus
  <2> QED BY <2>1
<1>4. HeardCancel(i)' <=> HeardCancel(i)
  BY <1>2 DEF HeardCancel, Heard
<1> HIDE DEF p, m
<1>5. CASE closed
  <2> DEFINE q == Done(p, "closed")
  <2>1. q \in Operation /\ Good(q)'
    BY <1>1, SilentEnd
  <2>2. AwaitCancel(p, i) = q
    BY <1>5 DEF AwaitCancel
  <2> HIDE DEF q
  <2> QED BY <2>1, <2>2 DEF p
<1>6. CASE ~closed /\ HeardCancel(i)
  <2> DEFINE q == Freed(p)
  <2>1. /\ q \in Operation /\ q.stage = "resumed" /\ q.result = "none" /\ q.kind = "move"
        /\ q.about = i /\ q.to = j
    BY <1>1, OperationKinds, OperationFields
  <2>2. AwaitCancel(p, i) = q
    BY <1>6 DEF AwaitCancel, Heard, HeardCancel
  <2> HIDE DEF q
  <2>3. state[i] = "cancelled"
    BY <1>1, <1>6 DEF NewsTrue, TrueOf, HeardCancel
  <2>4. OpKnows(q)' /\ OpTrue(q)' /\ OpAnswered(q)'
    BY <1>2, <2>1, <2>3 DEF OpKnows, OpTrue, OpAnswered
  <2> QED BY <2>1, <2>2, <2>4 DEF Good, p
<1>7. CASE ~closed /\ ~HeardCancel(i) /\ "Delete" \in errors[i]
  <2> DEFINE q == Done(p, "error")
  <2>1. /\ q \in Operation /\ q.stage = "done" /\ q.result = "error" /\ q.kind = "move"
        /\ q.about = i
    BY <1>1, OperationKinds, OperationFields
  <2>2. AwaitCancel(p, i) = q
    BY <1>7 DEF AwaitCancel, Heard, HeardCancel
  <2> HIDE DEF q
  <2>3. state[i] # "open"
    BY <1>1, <1>7 DEF NewsTrue
  <2>4. Settled(i)'
    <3>1. ~Untold(i) /\ \A k \in DOMAIN bus : ~Places(bus[k], i)
      BY <1>1, <1>7 DEF NewUntold, Untold
    <3>2. ~Places(m, i)
      BY DEF Places, m
    <3>3. \A k \in DOMAIN bus' : (k \in DOMAIN bus /\ bus'[k] = bus[k]) \/ bus'[k] = m
      BY RequestedBus DEF m
    <3> QED BY <3>1, <3>2, <3>3 DEF Settled
  <2>5. OpKnows(q)' /\ OpTrue(q)' /\ OpAnswered(q)'
    BY <1>2, <2>1, <2>3, <2>4 DEF OpKnows, OpTrue, OpAnswered
  <2> QED BY <2>1, <2>2, <2>5 DEF Good, p
<1>8. CASE ~closed /\ ~HeardCancel(i) /\ "Delete" \notin errors[i]
  <2> DEFINE q == Waits(p, "cancel", i)
  <2>1. /\ q \in Operation /\ q.stage = "cancel" /\ q.result = "none" /\ q.kind = "move"
        /\ q.about = i /\ q.to = j /\ q.on = i
    BY <1>1, OperationKinds, OperationFields
  <2>2. AwaitCancel(p, i) = q
    BY <1>8 DEF AwaitCancel, Heard, HeardCancel
  <2> HIDE DEF q
  <2>3. OpKnows(q)' /\ OpTrue(q)'
    BY <1>2, <1>4, <1>8, <2>1 DEF OpKnows, OpTrue
  <2>4. OpAnswered(q)'
    BY <1>3, <2>1 DEF OpAnswered
  <2> QED BY <2>1, <2>2, <2>3, <2>4 DEF Good, p
<1> QED BY <1>5, <1>6, <1>7, <1>8

LEMMA AddOrderInv ==
  ASSUME IInv, NEW o \in Ops, AddOrder(o)
  PROVE  IInv'
<1>0. ops \in [Ops -> Operation] /\ used \subseteq Ids /\ pendings \subseteq used /\ closed \in BOOLEAN
  BY DEF IInv, TypeOK
<1>1. UNCHANGED <<state, rest, history, errors, closed>>
  BY DEF AddOrder, User
<1>2. CASE closed
  <2> DEFINE q == Done(Fresh("add", NoId, NoId), "closed")
  <2>1. q \in Operation /\ Good(q)
    BY FreshFields, SilentEnd
  <2>2. UNCHANGED <<bus, used, pendings>> /\ ops' = [ops EXCEPT ![o] = q]
    BY <1>2 DEF AddOrder
  <2> HIDE DEF q
  <2>3. ops' \in [Ops -> Operation] /\ \A x \in Ops : \E p : ops'[x] = p /\ Good(p)
    BY <1>0, <2>1, <2>2, OpsFrom DEF IInv
  <2> QED BY <1>0, <1>1, <2>2, <2>3, OpsOnly
<1>3. CASE ~closed
  <2>1. PICK i \in Ids \ used, v \in 0..MaxVolume :
          /\ used' = used \cup {i} /\ pendings' = pendings \cup {i}
          /\ bus' = Append(bus, [kind |-> "add", id |-> i, volume |-> v])
          /\ ops' = [ops EXCEPT ![o] = Waits(Fresh("add", i, NoId), "order", i)]
    BY <1>3 DEF AddOrder
  <2> DEFINE m == [kind |-> "add", id |-> i, volume |-> v]
             q == Waits(Fresh("add", i, NoId), "order", i)
  <2>2. m \in Request /\ m.kind = "add" /\ m.id = i /\ \A n : Places(m, n) <=> n = i
    BY DEF Request, Places
  <2>3. /\ q \in Operation /\ q.stage = "order" /\ q.result = "none" /\ q.kind = "add"
        /\ q.about = i /\ q.on = i
    <3>1. /\ Fresh("add", i, NoId) \in Operation /\ Fresh("add", i, NoId).kind = "add"
          /\ Fresh("add", i, NoId).about = i /\ Fresh("add", i, NoId).result = "none"
      BY FreshFields
    <3> HIDE DEF q
    <3> QED BY <3>1, OperationKinds, OperationFields DEF q
  <2> HIDE DEF m, q
  <2>4. Requested(m)
    BY <1>0, <1>1, <2>1, <2>2 DEF Requested, m
  <2>5. ~Heard(i)' /\ errors'[i] = {} /\ i \in used'
    BY <1>1, <2>1 DEF IInv, NewUntold, Untold, Heard
  <2>6. OpKnows(q)' /\ OpTrue(q)' /\ OpAnswered(q)'
    BY <2>3, <2>5 DEF OpKnows, OpTrue, OpAnswered
  <2> QED BY <2>1, <2>3, <2>4, <2>6, RequestedInv DEF q, Good
<1> QED BY <1>2, <1>3

LEMMA CancelOrderInv ==
  ASSUME IInv, NEW o \in Ops, CancelOrder(o)
  PROVE  IInv'
<1>0. ops \in [Ops -> Operation] /\ used \subseteq Ids /\ pendings \subseteq used /\ closed \in BOOLEAN
  BY DEF IInv, TypeOK
<1>1. UNCHANGED <<state, rest, history, errors, closed, used, pendings>>
  BY DEF CancelOrder, User
<1>2. PICK i \in used :
         IF closed
         THEN /\ ops' = [ops EXCEPT ![o] = Done(Fresh("cancel", i, NoId), "closed")]
              /\ UNCHANGED bus
         ELSE /\ bus' = Append(bus, [kind |-> "del", id |-> i])
              /\ ops' = [ops EXCEPT ![o] = Waits(Fresh("cancel", i, NoId), "cancel", i)]
  BY DEF CancelOrder
<1>3. /\ i \in Ids /\ Fresh("cancel", i, NoId) \in Operation /\ Fresh("cancel", i, NoId).kind = "cancel"
      /\ Fresh("cancel", i, NoId).about = i /\ Fresh("cancel", i, NoId).result = "none"
  BY <1>0, FreshFields
<1>4. CASE closed
  <2> DEFINE q == Done(Fresh("cancel", i, NoId), "closed")
  <2>1. q \in Operation /\ Good(q)
    BY <1>3, SilentEnd
  <2>2. UNCHANGED bus /\ ops' = [ops EXCEPT ![o] = q]
    BY <1>2, <1>4
  <2> HIDE DEF q
  <2>3. ops' \in [Ops -> Operation] /\ \A x \in Ops : \E p : ops'[x] = p /\ Good(p)
    BY <1>0, <2>1, <2>2, OpsFrom DEF IInv
  <2> QED BY <1>0, <1>1, <2>2, <2>3, OpsOnly
<1>5. CASE ~closed
  <2> DEFINE m == [kind |-> "del", id |-> i]
             q == Waits(Fresh("cancel", i, NoId), "cancel", i)
  <2>1. bus' = Append(bus, m) /\ ops' = [ops EXCEPT ![o] = q]
    BY <1>2, <1>5
  <2>2. m \in Request /\ m.kind = "del" /\ m.id = i /\ \A n : ~Places(m, n)
    BY <1>3 DEF Request, Places
  <2>3. /\ q \in Operation /\ q.stage = "cancel" /\ q.result = "none" /\ q.kind = "cancel"
        /\ q.about = i /\ q.on = i
    <3> HIDE DEF q
    <3> QED BY <1>3, OperationKinds, OperationFields DEF q
  <2> HIDE DEF m, q
  <2>4. Requested(m)
    BY <1>0, <1>1, <2>1, <2>2 DEF Requested
  <2>5. \E k \in DOMAIN bus' : bus'[k].kind = "del" /\ bus'[k].id = i
    BY <2>2, <2>4, RequestedBus
  <2>6. OpKnows(q)' /\ OpTrue(q)' /\ OpAnswered(q)'
    BY <1>1, <2>3, <2>5 DEF OpKnows, OpTrue, OpAnswered
  <2> QED BY <2>1, <2>3, <2>4, <2>6, RequestedInv DEF Good
<1> QED BY <1>4, <1>5

LEMMA MoveOrderInv ==
  ASSUME IInv, NEW o \in Ops, MoveOrder(o)
  PROVE  IInv'
<1>0. ops \in [Ops -> Operation] /\ used \subseteq Ids /\ pendings \subseteq used
  BY DEF IInv, TypeOK
<1>1. UNCHANGED <<state, rest, history, errors, closed>>
  BY DEF MoveOrder, User
<1>2. PICK i \in used, j \in Ids \ used, v \in 0..MaxVolume :
         /\ used' = used \cup {j} /\ pendings' = pendings \cup {j}
         /\ bus' = Append(bus, [kind |-> "move", id |-> i, to |-> j, volume |-> v])
         /\ ops' = [ops EXCEPT ![o] = AwaitCancel(Fresh("move", i, j), i)]
  BY DEF MoveOrder, Announced
<1> DEFINE m == [kind |-> "move", id |-> i, to |-> j, volume |-> v]
<1>3. m \in Request /\ m.kind = "move" /\ m.id = i /\ m.to = j /\ \A n : Places(m, n) <=> n = j
  BY <1>0 DEF Request, Places
<1> HIDE DEF m
<1>4. Requested(m) /\ j \in used'
  BY <1>0, <1>1, <1>2, <1>3 DEF Requested, m
<1>5. PICK q \in Operation : q = AwaitCancel(Fresh("move", i, j), i) /\ Good(q)'
  BY <1>4, MoveOrderGood DEF m
<1> QED BY <1>2, <1>4, <1>5, RequestedInv

LEMMA WaitsInv ==
  ASSUME IInv, NEW o \in Ops, WaitOrder(o) \/ WaitCancel(o)
  PROVE  IInv'
<1>0. ops \in [Ops -> Operation] /\ used \subseteq Ids /\ closed \in BOOLEAN
  BY DEF IInv, TypeOK
<1>1. UNCHANGED <<bus, state, rest, used, history, errors, pendings, closed>>
  BY DEF WaitOrder, WaitCancel, User
<1>2. \E q \in Operation : Good(q) /\ ops' = [ops EXCEPT ![o] = q]
  <2>1. CASE WaitOrder(o)
    <3>1. PICK i \in used : ops' = [ops EXCEPT ![o] = AwaitOrder(Fresh("wait_order", i, NoId), i)]
      BY <2>1 DEF WaitOrder
    <3>2. /\ Fresh("wait_order", i, NoId) \in Operation /\ Fresh("wait_order", i, NoId).kind = "wait_order"
          /\ Fresh("wait_order", i, NoId).about = i /\ Fresh("wait_order", i, NoId).result = "none"
      BY <1>0, FreshFields
    <3> QED BY <3>1, <3>2, AwaitOrderGood
  <2>2. CASE WaitCancel(o)
    BY <2>2, WaitCancelGood DEF WaitCancel
  <2> QED BY <2>1, <2>2
<1>3. ops' \in [Ops -> Operation] /\ \A x \in Ops : \E p : ops'[x] = p /\ Good(p)
  BY <1>0, <1>2, OpsFrom DEF IInv
<1> QED BY <1>0, <1>1, <1>3, OpsOnly

LEMMA MoveResumedInv ==
  ASSUME IInv, NEW o \in Ops, MoveResumed(o)
  PROVE  IInv'
<1>0. ops \in [Ops -> Operation] /\ closed \in BOOLEAN /\ ops[o] \in Operation
  BY DEF IInv, TypeOK
<1>1. /\ ops[o].stage = "resumed" /\ ops' = [ops EXCEPT ![o] = AwaitOrder(ops[o], ops[o].to)]
      /\ UNCHANGED <<bus, state, rest, used, history, errors, pendings, closed>>
  BY DEF MoveResumed
<1>2. /\ ops[o].kind = "move" /\ ops[o].to \in used /\ ops[o].result = "none"
      /\ ops[o].about \in used /\ state[ops[o].about] = "cancelled"
  BY <1>1, OpsFrom DEF IInv, Good, OpKnows
<1>3. PICK p : p = ops[o]
  OBVIOUS
<1>4. AwaitOrder(p, p.to) \in Operation /\ Good(AwaitOrder(p, p.to))
  BY <1>0, <1>2, <1>3, AwaitOrderGood
<1>5. ops' \in [Ops -> Operation] /\ \A x \in Ops : \E q : ops'[x] = q /\ Good(q)
  BY <1>0, <1>1, <1>3, <1>4, OpsFrom DEF IInv
<1> QED BY <1>0, <1>1, <1>5, OpsOnly

\* A time-out, or the end of the context
LEMMA EndsInv ==
  ASSUME IInv, Close \/ \E o \in Ops : TimeOut(o)
  PROVE  IInv'
<1>0. ops \in [Ops -> Operation] /\ closed \in BOOLEAN
  BY DEF IInv, TypeOK
<1>1. UNCHANGED <<bus, state, rest, used, history, errors, pendings>> /\ closed' \in BOOLEAN
  BY <1>0 DEF Close, TimeOut
<1>2. /\ ops' \in [Ops -> Operation]
      /\ \A x \in Ops : \/ ops'[x] = ops[x]
                        \/ \E res \in {"timeout", "closed"} : ops'[x] = Done(ops[x], res)
  BY <1>0, SilentEnd DEF Close, TimeOut
<1>3. \A x \in Ops : \E p : ops'[x] = p /\ Good(p)
  <2>1. ASSUME NEW x \in Ops PROVE \E p : ops'[x] = p /\ Good(p)
    <3>1. Good(ops[x]) /\ ops[x] \in Operation
      BY <1>0, OpsFrom DEF IInv
    <3>2. \A res \in {"timeout", "closed"} : Good(Done(ops[x], res))
      BY <3>1, SilentEnd
    <3> QED BY <1>2, <3>1, <3>2
  <2> QED BY <2>1
<1> QED BY <1>1, <1>2, <1>3, OpsOnly

-----------------------------------------------------------------------------
(* An order's life, as its events tell it *)

\* The events s are the whole life so far of order i, which is in state st with
\* n of its volume left.
Life(i, s, st, n) ==
    /\ s \in Seq(Event) /\ s # <<>> /\ Opens(s[1])
    /\ \A k \in DOMAIN s : Says(s[k], i) /\ s[k].rest >= n
    /\ \A j, k \in DOMAIN s : j < k => Precedes(s[j], s[k])
    /\ \A k \in DOMAIN s : Cancels(s[k], i) => \E j \in DOMAIN s : j < k /\ s[j].rest = s[k].rest
    /\ \E k \in DOMAIN s : Tells(s[k], st, n)

\* Fills leave less and less, and at last r.
LEMMA FillsDown ==
  ASSUME NEW i \in Ids, NEW v \in 0..MaxVolume, NEW r \in 0..v, NEW f \in Fills(i, v, r)
  PROVE  /\ f = <<>> => r = v
         /\ f # <<>> => f[Len(f)].rest = r
         /\ \A k \in DOMAIN f : f[k].rest < v
         /\ \A j, k \in DOMAIN f : j < k => f[j].rest > f[k].rest
<1>1. CASE r = v
  BY <1>1 DEF Fills
<1>2. CASE r # v
  <2>1. PICK n \in 1..(v - r) : \E s \in [1..n -> r..(v - 1)] :
          /\ f = [k \in DOMAIN s |-> OrderEvent(i, "Fill", s[k])]
          /\ s[Len(s)] = r
          /\ \A j, k \in DOMAIN s : j < k => s[j] > s[k]
    BY <1>2 DEF Fills
  <2>2. PICK s \in [1..n -> r..(v - 1)] :
          /\ f = [k \in DOMAIN s |-> OrderEvent(i, "Fill", s[k])]
          /\ s[Len(s)] = r
          /\ \A j, k \in DOMAIN s : j < k => s[j] > s[k]
    BY <2>1
  <2>3. n \in Nat /\ n > 0 /\ DOMAIN s = 1..n /\ Len(s) = n /\ r \in Nat /\ v \in Nat
    BY <2>1, VolumeAssumption
  <2>4. DOMAIN f = 1..n /\ \A k \in 1..n : f[k].rest = s[k]
    BY <2>2, <2>3 DEF OrderEvent
  <2>5. f \in Seq(Event)
    BY FillsFacts
  <2>6. Len(f) = n
    BY <2>3, <2>4, <2>5
  <2> QED BY <2>2, <2>3, <2>4, <2>6
<1> QED BY <1>1, <1>2

\* An order that is taken is opened and filled in steps, down to what stays open.
LEMMA TakenLife ==
  ASSUME NEW i \in Ids, NEW v \in 1..MaxVolume, NEW r \in 0..v, NEW f \in Fills(i, v, r),
         NEW st \in {"open", "filled"}
  PROVE  LET s == <<OrderEvent(i, "Add", v)>> \o f IN
         /\ Life(i, s, st, r)
         /\ \A k \in DOMAIN s : s[k].status # "Cancel"
         /\ s[Len(s)].rest = r
<1> DEFINE add == OrderEvent(i, "Add", v)
           s == <<add>> \o f
<1> USE VolumeAssumption
<1>1. /\ add \in Event /\ Says(add, i) /\ add.status = "Add" /\ add.rest = v /\ v \in Nat /\ v > 0 /\ r \in Nat
      /\ v \in 0..MaxVolume
  BY DEF OrderEvent, Event, Says
<1>2. /\ f \in Seq(Event) /\ Len(f) \in Nat /\ DOMAIN f = 1..Len(f)
      /\ \A k \in 1..Len(f) : Says(f[k], i) /\ f[k].status = "Fill" /\ f[k].rest \in r..MaxVolume
      /\ f = <<>> => r = v
      /\ f # <<>> => f[Len(f)].rest = r
      /\ \A k \in 1..Len(f) : f[k].rest < v
      /\ \A j, k \in 1..Len(f) : j < k => f[j].rest > f[k].rest
  <2>1. f \in Seq(Event) /\ v \in 0..MaxVolume
    BY <1>1, FillsFacts
  <2>2. \A k \in DOMAIN f : f[k].kind = "order" /\ f[k].id = i /\ f[k].status = "Fill"
                                /\ f[k].rest \in r..MaxVolume
    BY <1>1, FillsFacts
  <2> QED BY <2>1, <2>2, FillsDown DEF Says
<1> HIDE DEF add
<1>3. /\ s \in Seq(Event) /\ Len(s) = Len(f) + 1 /\ DOMAIN s = 1..Len(f) + 1 /\ s[1] = add
      /\ \A k \in 1..Len(f) + 1 : k # 1 => k - 1 \in 1..Len(f) /\ s[k] = f[k - 1]
  <2>1. <<add>> \in Seq(Event) /\ Len(<<add>>) = 1 /\ <<add>>[1] = add
    BY <1>1
  <2>2. /\ s \in Seq(Event) /\ Len(s) = Len(f) + 1
        /\ \A k \in 1..1 + Len(f) : s[k] = IF k <= 1 THEN <<add>>[k] ELSE f[k - 1]
    BY <1>2, <2>1, ConcatProperties
  <2> QED BY <1>2, <2>1, <2>2
<1> HIDE DEF s
<1>4. \A k \in DOMAIN s : /\ Says(s[k], i) /\ s[k].rest >= r /\ s[k].status # "Cancel"
                          /\ k # 1 => s[k].status = "Fill"
  BY <1>1, <1>2, <1>3
<1>5. s[Len(s)].rest = r /\ Len(s) \in DOMAIN s
  <2>1. CASE f = <<>>
    BY <1>1, <1>2, <1>3, <2>1
  <2>2. CASE f # <<>>
    <3>1. Len(f) \in 1..Len(f) /\ Len(f) + 1 # 1
      BY <1>2, <2>2
    <3> QED BY <1>2, <1>3, <2>2, <3>1
  <2> QED BY <2>1, <2>2
<1>6. ASSUME NEW j \in DOMAIN s, NEW k \in DOMAIN s, j < k PROVE Precedes(s[j], s[k])
  <2>1. k # 1 /\ s[k] = f[k - 1] /\ k - 1 \in 1..Len(f)
    BY <1>2, <1>3, <1>6
  <2>2. s[j].rest > s[k].rest
    <3>1. CASE j = 1
      BY <1>1, <1>2, <1>3, <2>1, <3>1
    <3>2. CASE j # 1
      <4>1. s[j] = f[j - 1] /\ j - 1 \in 1..Len(f) /\ j - 1 < k - 1
        BY <1>2, <1>3, <1>6, <3>2
      <4>2. f[j - 1].rest > f[k - 1].rest
        BY <1>2, <2>1, <4>1
      <4> QED BY <2>1, <4>1, <4>2
    <3> QED BY <3>1, <3>2
  <2>3. s[j] \in Event /\ s[k] \in Event
    BY <1>3
  <2>4. s[j].rest \in Int /\ s[k].rest \in Int
    BY <2>3 DEF Event
  <2> QED BY <1>4, <2>1, <2>2, <2>4 DEF Precedes
<1>7. Tells(s[Len(s)], st, r)
  BY <1>4, <1>5 DEF Tells
<1>8. Life(i, s, st, r)
  <2>1. s \in Seq(Event) /\ s # <<>> /\ Opens(s[1])
    BY <1>1, <1>3, <1>5 DEF Opens
  <2>2. \A k \in DOMAIN s : Says(s[k], i) /\ s[k].rest >= r /\ ~Cancels(s[k], i)
    BY <1>4 DEF Cancels
  <2> QED BY <1>5, <1>6, <1>7, <2>1, <2>2 DEF Life
<1> QED BY <1>4, <1>5, <1>8 DEF s, add

\* What the exchange reports of an order it took is its life so far.
LEMMA PlacedLife ==
  ASSUME NEW i \in Ids, NEW v \in 0..MaxVolume, NEW a \in Placed(i, v)
  PROVE  /\ a.rest > 0 <=> a.state \in {"open", "cancelled"}
         /\ TakenIn(a.state) => Life(i, a.events, a.state, a.rest)
         /\ ~TakenIn(a.state) => Len(a.events) <= 1
         /\ a.state # "unknown" /\ a.events \in Seq(Event \cup Error)
<1> USE VolumeAssumption
<1>0. a.state # "unknown" /\ a.events \in Seq(Event \cup Error)
  BY PlacedFacts
<1>1. CASE v <= 0
  <2>1. a = [state |-> "dropped", rest |-> 0, events |-> <<>>]
    BY <1>1 DEF Placed
  <2> QED BY <1>0, <2>1 DEF TakenIn
<1>2. CASE a = [state |-> "refused", rest |-> 0, events |-> <<OrderError(i, "Add")>>]
  BY <1>0, <1>2 DEF TakenIn
<1>3. ASSUME v > 0, NEW r \in 0..v, NEW st \in {"open", "filled"}, NEW f \in Fills(i, v, r),
             st = "filled" <=> r = 0,
             a = [state |-> st, rest |-> r, events |-> <<OrderEvent(i, "Add", v)>> \o f]
      PROVE  (a.rest > 0 <=> a.state \in {"open", "cancelled"}) /\ Life(i, a.events, a.state, a.rest)
  <2>1. v \in 1..MaxVolume
    BY <1>3
  <2>2. Life(i, <<OrderEvent(i, "Add", v)>> \o f, st, r)
    BY <1>3, <2>1, TakenLife
  <2> QED BY <1>3, <2>2
<1>4. ASSUME v > 0, NEW r \in 1..v, NEW f \in Fills(i, v, r),
             a = [state |-> "cancelled", rest |-> r,
                  events |-> Append(<<OrderEvent(i, "Add", v)>> \o f, OrderEvent(i, "Cancel", r))]
      PROVE  (a.rest > 0 <=> a.state \in {"open", "cancelled"}) /\ Life(i, a.events, a.state, a.rest)
  <2> DEFINE s == <<OrderEvent(i, "Add", v)>> \o f
             c == OrderEvent(i, "Cancel", r)
             t == Append(s, c)
  <2>1. /\ c \in Event /\ Says(c, i) /\ c.status = "Cancel" /\ c.rest = r
        /\ v \in 1..MaxVolume /\ r \in 0..v /\ r > 0
    BY <1>4 DEF OrderEvent, Event, Says
  <2>2. /\ Life(i, s, "open", r) /\ s[Len(s)].rest = r
        /\ \A k \in DOMAIN s : s[k].status # "Cancel"
    <3>1. f \in Fills(i, v, r) /\ "open" \in {"open", "filled"}
      BY <1>4
    <3>2. LET q == <<OrderEvent(i, "Add", v)>> \o f IN
          /\ Life(i, q, "open", r)
          /\ \A k \in DOMAIN q : q[k].status # "Cancel"
          /\ q[Len(q)].rest = r
      BY <2>1, <3>1, TakenLife
    <3> QED BY <3>2
  <2> HIDE DEF s, c
  <2>3. /\ s \in Seq(Event) /\ Len(s) \in Nat /\ Len(s) > 0 /\ DOMAIN s = 1..Len(s)
        /\ \A k \in 1..Len(s) : s[k].rest \in Int
    <3>1. s \in Seq(Event) /\ s # <<>>
      BY <2>2 DEF Life
    <3>2. Len(s) \in Nat /\ Len(s) > 0 /\ DOMAIN s = 1..Len(s) /\ \A k \in 1..Len(s) : s[k] \in Event
      BY <3>1
    <3> QED BY <3>1, <3>2 DEF Event
  <2>4. /\ t \in Seq(Event) /\ DOMAIN t = 1..Len(s) + 1 /\ Len(t) = Len(s) + 1
        /\ t[Len(s) + 1] = c /\ \A k \in 1..Len(s) : t[k] = s[k]
    BY <2>1, <2>3, AppendProperties
  <2> HIDE DEF t
  <2>5. \A k \in DOMAIN t : k = Len(s) + 1 \/ (k \in 1..Len(s) /\ k < Len(s) + 1)
    BY <2>3, <2>4
  <2>6. \A k \in DOMAIN t : Says(t[k], i) /\ t[k].rest >= r
    BY <2>1, <2>2, <2>3, <2>4, <2>5 DEF Life
  <2>7. ASSUME NEW j \in DOMAIN t, NEW k \in DOMAIN t, j < k PROVE Precedes(t[j], t[k])
    <3>1. j \in 1..Len(s) /\ t[j] = s[j]
      BY <2>3, <2>4, <2>7
    <3>2. CASE k = Len(s) + 1
      BY <2>1, <2>2, <2>3, <2>4, <3>1, <3>2 DEF Life, Precedes
    <3>3. CASE k # Len(s) + 1
      BY <2>2, <2>3, <2>4, <2>5, <2>7, <3>1, <3>3 DEF Life
    <3> QED BY <3>2, <3>3
  <2>8. ASSUME NEW k \in DOMAIN t, Cancels(t[k], i)
        PROVE  \E j \in DOMAIN t : j < k /\ t[j].rest = t[k].rest
    <3>1. k = Len(s) + 1
      BY <2>2, <2>3, <2>4, <2>5, <2>8 DEF Cancels
    <3>2. Len(s) \in DOMAIN t /\ Len(s) < k /\ t[Len(s)].rest = r /\ t[k].rest = r
      BY <2>1, <2>2, <2>3, <2>4, <3>1
    <3> QED BY <3>2
  <2>9. Tells(t[Len(s) + 1], "cancelled", r) /\ Len(s) + 1 \in DOMAIN t
    BY <2>1, <2>3, <2>4 DEF Tells
  <2>10. t # <<>> /\ Opens(t[1])
    BY <2>2, <2>3, <2>4 DEF Life
  <2>11. Life(i, t, "cancelled", r)
    BY <2>4, <2>6, <2>7, <2>8, <2>9, <2>10 DEF Life
  <2>12. a.events = t /\ a.state = "cancelled" /\ a.rest = r
    BY <1>4 DEF t, s, c
  <2> QED BY <2>1, <2>11, <2>12
<1>5. CASE v > 0
  <2>1. CASE \E r \in 0..v, st \in {"open", "filled"} : \E f \in Fills(i, v, r) :
               (st = "filled" <=> r = 0)
               /\ a = [state |-> st, rest |-> r, events |-> <<OrderEvent(i, "Add", v)>> \o f]
    <3>1. (a.rest > 0 <=> a.state \in {"open", "cancelled"}) /\ Life(i, a.events, a.state, a.rest)
      BY <1>3, <1>5, <2>1
    <3>2. TakenIn(a.state)
      BY <2>1 DEF TakenIn
    <3> QED BY <1>0, <3>1, <3>2
  <2>2. CASE \E r \in 1..v : \E f \in Fills(i, v, r) :
               a = [state |-> "cancelled", rest |-> r,
                    events |-> Append(<<OrderEvent(i, "Add", v)>> \o f, OrderEvent(i, "Cancel", r))]
    <3>1. (a.rest > 0 <=> a.state \in {"open", "cancelled"}) /\ Life(i, a.events, a.state, a.rest)
      BY <1>4, <1>5, <2>2
    <3>2. TakenIn(a.state)
      BY <2>2 DEF TakenIn
    <3> QED BY <1>0, <3>1, <3>2
  <2> QED BY <1>2, <1>5, <2>1, <2>2, PlacedCases
<1> QED BY <1>1, <1>5

\* What a step's reports r, that place an order or do not, say of order i: they
\* are its life so far, or they carry it on from n.
Begins(r, i, st, n) ==
    /\ \A k \in DOMAIN r : Says(r[k], i) =>
         /\ Opens(r[k]) \/ \E j \in DOMAIN r : j < k /\ Says(r[j], i)
         /\ r[k].status = "Cancel" => \E j \in DOMAIN r : j < k /\ Says(r[j], i) /\ r[j].rest = r[k].rest
    /\ TakenIn(st) => /\ \E k \in DOMAIN r : Says(r[k], i) /\ Tells(r[k], st, n)
                      /\ \E k \in DOMAIN r : Says(r[k], i) /\ Opens(r[k])
Carries(r, i, n) ==
    \A k \in DOMAIN r : Says(r[k], i) =>
         /\ r[k].status # "Add" /\ r[k].rest <= n
         /\ r[k].status = "Fill" => r[k].rest < n
         /\ r[k].status = "Cancel" => r[k].rest = n

\* In either case they are in order, and leave n at least.
Ordered(r, i, n) ==
    /\ \A j, k \in DOMAIN r : j < k /\ Says(r[j], i) /\ Says(r[k], i) => Precedes(r[j], r[k])
    /\ \A k \in DOMAIN r : Says(r[k], i) => r[k].rest >= n
    /\ \A j, k \in DOMAIN r : Fails(r[j], i, "Add") /\ Fails(r[k], i, "Add") => j = k

ChainStep(d, r) ==
    \A i \in Ids :
        /\ Ordered(r, i, rest'[i])
        /\ PlacedNow(d, i) => Begins(r, i, state'[i], rest'[i])
        /\ ~PlacedNow(d, i) =>
              /\ Carries(r, i, rest[i])
              /\ \/ state'[i] = state[i] /\ rest'[i] = rest[i]
                 \/ \E k \in DOMAIN r : Says(r[k], i) /\ Tells(r[k], state'[i], rest'[i])
        /\ rest'[i] > 0 <=> state'[i] \in {"open", "cancelled"}

\* The reports of an order just placed, after h others
LEMMA PlacedBegins ==
  ASSUME NEW i \in Ids, NEW v \in 0..MaxVolume, NEW a \in Placed(i, v), NEW h \in {0, 1},
         NEW r, DOMAIN r = 1..h + Len(a.events),
         \A k \in DOMAIN r : k > h => k - h \in DOMAIN a.events /\ r[k] = a.events[k - h],
         h = 1 => ~Says(r[1], i) /\ ~Fails(r[1], i, "Add")
  PROVE  Ordered(r, i, a.rest) /\ Begins(r, i, a.state, a.rest)
<1> DEFINE s == a.events
<1>1. /\ s \in Seq(Event \cup Error) /\ Len(s) \in Nat /\ DOMAIN s = 1..Len(s)
      /\ TakenIn(a.state) => Life(i, s, a.state, a.rest)
      /\ ~TakenIn(a.state) => Len(s) <= 1
      /\ \A k \in DOMAIN s : Says(s[k], i) => TakenIn(a.state)
  BY PlacedLife, PlacedFacts DEF Report, Says, Fails
<1> HIDE DEF s
<1>2. /\ \A k \in DOMAIN r : \/ k > h /\ k - h \in DOMAIN s /\ r[k] = s[k - h]
                             \/ k <= h /\ ~Says(r[k], i) /\ ~Fails(r[k], i, "Add")
      /\ \A k \in DOMAIN s : k + h \in DOMAIN r /\ k + h > h /\ r[k + h] = s[k]
      /\ DOMAIN r \subseteq Int /\ DOMAIN s \subseteq Int
  <2>1. DOMAIN r = 1..h + Len(s)
    BY DEF s
  <2>2. \A k \in DOMAIN r : k > h => k - h \in DOMAIN s /\ r[k] = s[k - h]
    BY DEF s
  <2>3. \A k \in DOMAIN s : k + h \in DOMAIN r /\ k + h > h /\ (k + h) - h = k
    BY <1>1, <2>1
  <2>4. \A k \in DOMAIN r : k <= h => k = 1 /\ h = 1
    BY <2>1
  <2>5. DOMAIN r \subseteq Int /\ DOMAIN s \subseteq Int
    BY <1>1, <2>1
  <2> QED BY <2>2, <2>3, <2>4, <2>5
<1>3. CASE TakenIn(a.state)
  <2>1. /\ s # <<>> /\ Opens(s[1])
        /\ \A k \in DOMAIN s : Says(s[k], i) /\ s[k].rest >= a.rest
        /\ \A j, k \in DOMAIN s : j < k => Precedes(s[j], s[k])
        /\ \A k \in DOMAIN s : Cancels(s[k], i) => \E j \in DOMAIN s : j < k /\ s[j].rest = s[k].rest
        /\ \E k \in DOMAIN s : Tells(s[k], a.state, a.rest)
    BY <1>1, <1>3 DEF Life
  <2>2. 1 \in DOMAIN s
    BY <1>1, <2>1
  <2>3. ASSUME NEW k \in DOMAIN r, Says(r[k], i)
        PROVE  /\ k - h \in DOMAIN s /\ r[k] = s[k - h] /\ k > h
               /\ Opens(r[k]) \/ \E j \in DOMAIN r : j < k /\ Says(r[j], i)
               /\ r[k].status = "Cancel" => \E j \in DOMAIN r : j < k /\ Says(r[j], i) /\ r[j].rest = r[k].rest
               /\ r[k].rest >= a.rest
    <3>1. k - h \in DOMAIN s /\ r[k] = s[k - h] /\ k > h /\ k \in Int
      BY <1>2, <2>3
    <3>2. r[k].rest >= a.rest
      BY <2>1, <3>1
    <3>3. Opens(r[k]) \/ \E j \in DOMAIN r : j < k /\ Says(r[j], i)
      <4>1. CASE k = 1 + h
        <5>1. k - h = 1
          BY <4>1
        <5> QED BY <2>1, <3>1, <5>1
      <4>2. CASE k # 1 + h
        <5>1. 1 + h \in DOMAIN r /\ r[1 + h] = s[1] /\ 1 + h < k
          BY <1>2, <2>2, <3>1, <4>2
        <5> QED BY <2>1, <2>2, <5>1
      <4> QED BY <4>1, <4>2
    <3>4. ASSUME r[k].status = "Cancel"
          PROVE  \E j \in DOMAIN r : j < k /\ Says(r[j], i) /\ r[j].rest = r[k].rest
      <4>1. Cancels(s[k - h], i)
        BY <2>1, <3>1, <3>4 DEF Cancels
      <4>2. PICK j \in DOMAIN s : j < k - h /\ s[j].rest = s[k - h].rest
        BY <2>1, <3>1, <4>1
      <4>3. j + h \in DOMAIN r /\ r[j + h] = s[j] /\ j + h < k
        BY <1>2, <3>1, <4>2
      <4> QED BY <2>1, <3>1, <4>2, <4>3
    <3> QED BY <3>1, <3>2, <3>3, <3>4
  <2>4. ASSUME NEW j \in DOMAIN r, NEW k \in DOMAIN r, j < k, Says(r[j], i), Says(r[k], i)
        PROVE  Precedes(r[j], r[k])
    <3>1. /\ j - h \in DOMAIN s /\ r[j] = s[j - h] /\ k - h \in DOMAIN s /\ r[k] = s[k - h]
          /\ j - h < k - h
      BY <1>2, <2>3, <2>4
    <3> QED BY <2>1, <3>1
  <2>5. \A k \in DOMAIN r : ~Fails(r[k], i, "Add")
    <3>1. \A k \in DOMAIN s : ~Fails(s[k], i, "Add")
      BY <2>1 DEF Says, Fails
    <3> QED BY <1>2, <3>1
  <2>6. /\ \E k \in DOMAIN r : Says(r[k], i) /\ Tells(r[k], a.state, a.rest)
        /\ \E k \in DOMAIN r : Says(r[k], i) /\ Opens(r[k])
    BY <1>2, <2>1, <2>2
  <2> QED BY <2>3, <2>4, <2>5, <2>6 DEF Ordered, Begins
<1>4. CASE ~TakenIn(a.state)
  <2>1. \A k \in DOMAIN r : ~Says(r[k], i)
    BY <1>1, <1>2, <1>4
  <2>2. ASSUME NEW j \in DOMAIN r, NEW k \in DOMAIN r, Fails(r[j], i, "Add"), Fails(r[k], i, "Add")
        PROVE  j = k
    <3>1. j - h \in DOMAIN s /\ k - h \in DOMAIN s
      BY <1>2, <2>2
    <3>2. j - h = k - h
      BY <1>1, <1>4, <3>1
    <3> QED BY <1>2, <3>2
  <2> QED BY <1>4, <2>1, <2>2 DEF Ordered, Begins
<1> QED BY <1>3, <1>4

\* Reports that say nothing of an order leave it as it is.
LEMMA SilentOrdered ==
  ASSUME NEW r, NEW i, NEW n, \A k \in DOMAIN r : ~Says(r[k], i) /\ ~Fails(r[k], i, "Add")
  PROVE  Ordered(r, i, n) /\ Carries(r, i, n)
  BY DEF Ordered, Carries

LEMMA AddArrivesChain ==
  ASSUME IInv, StateTold, AddArrives
  PROVE  \E r : ExchangeStep(1, r) /\ ChainStep(1, r)
<1>1. PICK v \in 0..MaxVolume : \E a \in Placed(bus[1].id, v) :
            /\ bus[1].kind = "add" /\ bus[1].id \in Ids
            /\ state' = [state EXCEPT ![bus[1].id] = a.state]
            /\ rest' = [rest EXCEPT ![bus[1].id] = a.rest]
            /\ ExchangeStep(1, a.events)
  BY AddArrivesStep
<1>2. PICK a \in Placed(bus[1].id, v) :
            /\ bus[1].kind = "add" /\ bus[1].id \in Ids
            /\ state' = [state EXCEPT ![bus[1].id] = a.state]
            /\ rest' = [rest EXCEPT ![bus[1].id] = a.rest]
            /\ ExchangeStep(1, a.events)
  BY <1>1
<1> DEFINE i == bus[1].id
<1>3. state \in [Ids -> States] /\ rest \in [Ids -> 0..MaxVolume] /\ i \in Ids
  BY <1>2 DEF IInv, TypeOK, States
<1>4. /\ \A n \in Ids : PlacedNow(1, n) <=> n = i
      /\ state'[i] = a.state /\ rest'[i] = a.rest
      /\ \A n \in Ids : n # i => state'[n] = state[n] /\ rest'[n] = rest[n]
  BY <1>2, <1>3 DEF PlacedNow, Places
<1>5. /\ a.rest > 0 <=> a.state \in {"open", "cancelled"}
      /\ a.events \in Seq(Event \cup Error)
      /\ \A k \in DOMAIN a.events : Report(i, a.state, a.events[k])
  BY <1>2, PlacedLife, PlacedFacts
<1>6. Ordered(a.events, i, a.rest) /\ Begins(a.events, i, a.state, a.rest)
  <2>1. DOMAIN a.events = 1..0 + Len(a.events)
    BY <1>5
  <2>2. \A k \in DOMAIN a.events : k > 0 => k - 0 \in DOMAIN a.events /\ a.events[k] = a.events[k - 0]
    BY <1>5
  <2> QED BY <1>2, <1>3, <2>1, <2>2, PlacedBegins
<1> HIDE DEF i
<1>7. ASSUME NEW n \in Ids, n # i
      PROVE  Ordered(a.events, n, rest'[n]) /\ Carries(a.events, n, rest[n])
  <2>1. \A k \in DOMAIN a.events : ~Says(a.events[k], n) /\ ~Fails(a.events[k], n, "Add")
    BY <1>5, <1>7 DEF Report, Says, Fails
  <2> QED BY <2>1, SilentOrdered
<1>8. ChainStep(1, a.events)
  BY <1>4, <1>5, <1>6, <1>7 DEF ChainStep, StateTold
<1> QED BY <1>2, <1>8

LEMMA DelArrivesChain ==
  ASSUME IInv, StateTold, DelArrives
  PROVE  \E r : ExchangeStep(1, r) /\ ChainStep(1, r)
<1> DEFINE i == bus[1].id
<1>1. PICK m \in Message :
            /\ bus[1].kind = "del" /\ i \in Ids /\ rest' = rest
            /\ \/ /\ state[i] = "open" /\ state' = [state EXCEPT ![i] = "cancelled"]
                  /\ m = OrderEvent(i, "Cancel", rest[i])
               \/ /\ state[i] # "open" /\ state' = state
                  /\ m = OrderError(i, "Delete")
            /\ ExchangeStep(1, <<m>>)
  BY DelArrivesStep
<1>2. state \in [Ids -> States] /\ rest \in [Ids -> 0..MaxVolume] /\ i \in Ids
  BY <1>1 DEF IInv, TypeOK, States
<1>3. \A n \in Ids : ~PlacedNow(1, n)
  BY <1>1 DEF PlacedNow, Places
<1>4. DOMAIN <<m>> = {1} /\ <<m>>[1] = m
  OBVIOUS
<1> HIDE DEF i
<1>5. ASSUME NEW n \in Ids
      PROVE  /\ ~Fails(m, n, "Add")
             /\ Says(m, n) => m.status = "Cancel" /\ m.rest = rest[n]
             /\ \/ state'[n] = state[n]
                \/ Says(m, n) /\ Tells(m, state'[n], rest[n])
             /\ rest[n] > 0 <=> state'[n] \in {"open", "cancelled"}
  BY <1>1, <1>2 DEF OrderEvent, OrderError, Says, Fails, Tells, StateTold
<1>6. ASSUME NEW n \in Ids
      PROVE  Ordered(<<m>>, n, rest[n]) /\ Carries(<<m>>, n, rest[n])
  <2>1. rest[n] \in Int
    BY <1>2
  <2> QED BY <1>4, <1>5, <2>1 DEF Ordered, Carries
<1>7. ChainStep(1, <<m>>)
  BY <1>1, <1>3, <1>4, <1>5, <1>6 DEF ChainStep
<1> QED BY <1>1, <1>7

LEMMA DealChain ==
  ASSUME IInv, StateTold, Deal
  PROVE  \E r : ExchangeStep(0, r) /\ ChainStep(0, r)
<1>1. PICK i \in Ids : \E x \in 0..(rest[i] - 1) :
            /\ state[i] = "open"
            /\ rest' = [rest EXCEPT ![i] = x]
            /\ state' = [state EXCEPT ![i] = IF x = 0 THEN "filled" ELSE "open"]
            /\ ExchangeStep(0, <<Executed(i, x)>>)
  BY DealStep
<1>2. PICK x \in 0..(rest[i] - 1) :
            /\ state[i] = "open"
            /\ rest' = [rest EXCEPT ![i] = x]
            /\ state' = [state EXCEPT ![i] = IF x = 0 THEN "filled" ELSE "open"]
            /\ ExchangeStep(0, <<Executed(i, x)>>)
  BY <1>1
<1> DEFINE m == Executed(i, x)
<1>3. state \in [Ids -> States] /\ rest \in [Ids -> 0..MaxVolume]
  BY DEF IInv, TypeOK, States
<1>4. /\ m.kind = "order" /\ m.id = i /\ m.status = "Fill" /\ m.rest = x
      /\ rest[i] \in Int /\ x \in Int /\ x < rest[i] /\ x >= 0
  BY <1>2, <1>3 DEF Executed, OrderEvent
<1> HIDE DEF m
<1>5. DOMAIN <<m>> = {1} /\ <<m>>[1] = m
  OBVIOUS
<1>6. /\ \A n \in Ids : n # i => state'[n] = state[n] /\ rest'[n] = rest[n]
      /\ rest'[i] = x /\ state'[i] = IF x = 0 THEN "filled" ELSE "open"
  BY <1>2, <1>3
<1>7. ASSUME NEW n \in Ids
      PROVE  /\ Ordered(<<m>>, n, rest'[n]) /\ Carries(<<m>>, n, rest[n])
             /\ \/ state'[n] = state[n] /\ rest'[n] = rest[n]
                \/ \E k \in DOMAIN <<m>> : Says(<<m>>[k], n) /\ Tells(<<m>>[k], state'[n], rest'[n])
             /\ rest'[n] > 0 <=> state'[n] \in {"open", "cancelled"}
  <2>1. CASE n = i
    <3>1. Says(m, n) /\ ~Fails(m, n, "Add") /\ Tells(m, state'[n], rest'[n])
      BY <1>4, <1>6, <2>1 DEF Says, Fails, Tells
    <3> QED BY <1>4, <1>5, <1>6, <2>1, <3>1 DEF Ordered, Carries
  <2>2. CASE n # i
    <3>1. ~Says(m, n) /\ ~Fails(m, n, "Add")
      BY <1>4, <2>2 DEF Says, Fails
    <3>2. rest'[n] = rest[n] /\ state'[n] = state[n]
      BY <1>6, <2>2
    <3> QED BY <1>5, <3>1, <3>2, SilentOrdered DEF StateTold
  <2> QED BY <2>1, <2>2
<1>8. ChainStep(0, <<m>>)
  BY <1>7 DEF ChainStep, PlacedNow
<1> QED BY <1>2, <1>8 DEF m

LEMMA MoveArrivesChain ==
  ASSUME IInv, StateTold, MoveArrives
  PROVE  \E r : ExchangeStep(1, r) /\ ChainStep(1, r)
<1> DEFINE i == bus[1].id
           n == bus[1].to
<1>1. /\ bus[1].kind = "move" /\ i \in Ids /\ n \in Ids /\ i # n
      /\ \/ /\ state[i] = "open"
            /\ \E v \in 0..MaxVolume : \E a \in Placed(n, v) :
                 /\ state' = [state EXCEPT ![i] = "cancelled", ![n] = a.state]
                 /\ rest' = [rest EXCEPT ![n] = a.rest]
                 /\ ExchangeStep(1, <<OrderEvent(i, "Cancel", rest[i])>> \o a.events)
         \/ /\ state[i] # "open" /\ UNCHANGED <<state, rest>>
            /\ ExchangeStep(1, <<>>)
  BY MoveArrivesStep
<1>2. state \in [Ids -> States] /\ rest \in [Ids -> 0..MaxVolume]
  BY DEF IInv, TypeOK, States
<1>3. \A m \in Ids : PlacedNow(1, m) <=> m = n
  BY <1>1 DEF PlacedNow, Places
<1>4. state[n] = "unknown"
  <2>1. bus # <<>>
    BY DEF MoveArrives, Arrives
  <2> QED BY <1>1, <2>1, HeadOfBus DEF IInv, NewUntold, Untold, Places
<1>5. CASE state[i] = "open"
  <2>1. PICK v \in 0..MaxVolume : \E a \in Placed(n, v) :
                 /\ state' = [state EXCEPT ![i] = "cancelled", ![n] = a.state]
                 /\ rest' = [rest EXCEPT ![n] = a.rest]
                 /\ ExchangeStep(1, <<OrderEvent(i, "Cancel", rest[i])>> \o a.events)
    BY <1>1, <1>5
  <2>2. PICK a \in Placed(n, v) :
                 /\ state' = [state EXCEPT ![i] = "cancelled", ![n] = a.state]
                 /\ rest' = [rest EXCEPT ![n] = a.rest]
                 /\ ExchangeStep(1, <<OrderEvent(i, "Cancel", rest[i])>> \o a.events)
    BY <2>1
  <2> DEFINE c == OrderEvent(i, "Cancel", rest[i])
             r == <<c>> \o a.events
  <2>3. /\ a.rest > 0 <=> a.state \in {"open", "cancelled"}
        /\ a.events \in Seq(Event \cup Error)
        /\ \A k \in DOMAIN a.events : Report(n, a.state, a.events[k])
    BY <1>1, <2>1, <2>2, PlacedLife, PlacedFacts
  <2>4. c \in Event /\ c.kind = "order" /\ c.id = i /\ c.status = "Cancel" /\ c.rest = rest[i] /\ rest[i] \in Nat
    BY <1>1, <1>2, VolumeAssumption DEF OrderEvent, Event
  <2> HIDE DEF c, i, n
  <2>5. /\ Len(a.events) \in Nat /\ DOMAIN a.events = 1..Len(a.events)
        /\ DOMAIN r = 1..1 + Len(a.events) /\ r[1] = c
        /\ \A k \in DOMAIN r : k > 1 => k - 1 \in DOMAIN a.events /\ r[k] = a.events[k - 1]
    <3>1. <<c>> \in Seq(Event \cup Error) /\ Len(<<c>>) = 1 /\ <<c>>[1] = c
      BY <2>4
    <3>2. /\ r \in Seq(Event \cup Error) /\ Len(r) = 1 + Len(a.events) /\ Len(a.events) \in Nat
          /\ \A k \in 1..1 + Len(a.events) : r[k] = IF k <= 1 THEN <<c>>[k] ELSE a.events[k - 1]
      BY <2>3, <3>1, ConcatProperties
    <3> QED BY <2>3, <3>1, <3>2
  <2> HIDE DEF r
  <2>6. \A k \in DOMAIN r : \/ k = 1 /\ r[k] = c
                            \/ k > 1 /\ k - 1 \in DOMAIN a.events /\ r[k] = a.events[k - 1]
    BY <2>5
  <2>7. /\ state'[i] = "cancelled" /\ rest'[i] = rest[i] /\ state'[n] = a.state /\ rest'[n] = a.rest
        /\ \A m \in Ids : m # i /\ m # n => state'[m] = state[m] /\ rest'[m] = rest[m]
        /\ rest[i] > 0 /\ i \in Ids /\ n \in Ids /\ i # n
    <3>1. i \in Ids /\ n \in Ids /\ i # n
      BY <1>1
    <3> QED BY <1>2, <1>5, <2>2, <3>1 DEF StateTold
  <2>8. ASSUME NEW m \in Ids
        PROVE  /\ Ordered(r, m, rest'[m])
               /\ PlacedNow(1, m) => Begins(r, m, state'[m], rest'[m])
               /\ ~PlacedNow(1, m) =>
                     /\ Carries(r, m, rest[m])
                     /\ \/ state'[m] = state[m] /\ rest'[m] = rest[m]
                        \/ \E k \in DOMAIN r : Says(r[k], m) /\ Tells(r[k], state'[m], rest'[m])
               /\ rest'[m] > 0 <=> state'[m] \in {"open", "cancelled"}
    <3>1. CASE m = n
      <4>1. Ordered(r, n, a.rest) /\ Begins(r, n, a.state, a.rest)
        <5>1. ~Says(r[1], n) /\ ~Fails(r[1], n, "Add") /\ 1 \in {0, 1}
          BY <2>4, <2>5, <2>7 DEF Says, Fails
        <5> QED BY <2>1, <2>2, <2>5, <2>7, <5>1, PlacedBegins
      <4> QED BY <1>3, <2>3, <2>7, <3>1, <4>1
    <3>2. CASE m = i
      <4>1. \A k \in DOMAIN r : /\ Says(r[k], m) => k = 1 /\ r[k] = c
                                /\ ~Fails(r[k], m, "Add")
        BY <2>3, <2>4, <2>6, <2>7, <3>2 DEF Report, Says, Fails
      <4>2. Ordered(r, m, rest[m]) /\ Carries(r, m, rest[m])
        BY <2>4, <2>5, <3>2, <4>1 DEF Ordered, Carries
      <4>3. 1 \in DOMAIN r /\ Says(r[1], m) /\ Tells(r[1], "cancelled", rest[m])
        BY <2>4, <2>5, <3>2 DEF Says, Tells
      <4> QED BY <1>3, <2>7, <3>2, <4>2, <4>3
    <3>3. CASE m # i /\ m # n
      <4>1. \A k \in DOMAIN r : ~Says(r[k], m) /\ ~Fails(r[k], m, "Add")
        BY <2>3, <2>4, <2>6, <3>3 DEF Report, Says, Fails
      <4>2. state'[m] = state[m] /\ rest'[m] = rest[m] /\ ~PlacedNow(1, m)
        BY <1>3, <2>7, <3>3
      <4> QED BY <4>1, <4>2, SilentOrdered DEF StateTold
    <3> QED BY <3>1, <3>2, <3>3
  <2>9. ChainStep(1, r)
    BY <2>8 DEF ChainStep
  <2> QED BY <2>2, <2>9 DEF r, c, i, n
<1>6. CASE state[i] # "open"
  <2>1. state' = state /\ rest' = rest /\ ExchangeStep(1, <<>>)
    BY <1>1, <1>6
  <2>2. DOMAIN <<>> = {}
    OBVIOUS
  <2>3. \A m \in Ids : Ordered(<<>>, m, rest[m]) /\ Carries(<<>>, m, rest[m]) /\ Begins(<<>>, m, "unknown", rest[m])
    BY <2>2 DEF Ordered, Carries, Begins, TakenIn
  <2>4. ChainStep(1, <<>>)
    BY <1>3, <1>4, <2>1, <2>3 DEF ChainStep, StateTold
  <2> QED BY <2>1, <2>4
<1> QED BY <1>5, <1>6

LEMMA EventRest ==
  ASSUME NEW m \in Message, NEW i, Says(m, i)
  PROVE  m \in Event /\ m.rest \in 0..MaxVolume /\ m.rest \in Int /\ m.status \in {"Add", "Fill", "Cancel"}
<1>1. m \in Event
  BY MessageKinds DEF Says
<1> QED BY <1>1 DEF Event

LEMMA LastHeard ==
  ASSUME TypeOK, NEW i \in Ids, Heard(i)
  PROVE  LET e == Last(history[i]) IN
         e \in Event /\ e.rest \in 0..MaxVolume /\ e.rest \in Int /\ e.status \in {"Add", "Fill", "Cancel"}
<1>1. history[i] \in Seq(Event) /\ history[i] # <<>>
  BY DEF TypeOK, Heard
<1>2. Len(history[i]) \in DOMAIN history[i]
  BY <1>1
<1>3. Last(history[i]) \in Event
  BY <1>1, <1>2 DEF Last
<1> QED BY <1>3 DEF Event

\* Reports that carry an order on say so after what was said before.
LEMMA CarriesOn ==
  ASSUME NEW e, NEW f, NEW n, e.rest \in Int, f.rest \in Int, n \in Int,
         e.status # "Cancel", e.rest >= n,
         f.status # "Add", f.rest <= n, f.status = "Fill" => f.rest < n
  PROVE  Precedes(e, f)
  BY DEF Precedes

\* What a step of the exchange says of an order it does not place: the order is
\* open, nothing said before is its cancellation, and all of it left more.
LEMMA ExchangeCarries ==
  ASSUME IInv, StateTold, NEW d, NEW r, ExchangeStep(d, r), ChainStep(d, r), NEW i \in Ids,
         NEW n \in DOMAIN r, Says(r[n], i)
  PROVE  \/ PlacedNow(d, i) /\ Untold(i) /\ Begins(r, i, state'[i], rest'[i])
         \/ /\ ~PlacedNow(d, i) /\ state[i] = "open"
            /\ r[n].status = "Cancel" => r[n].rest = rest[i]
            /\ \A k \in DOMAIN bus : Says(bus[k], i) => Precedes(bus[k], r[n])
            /\ Heard(i) => Precedes(Last(history[i]), r[n])
<1>1. CASE PlacedNow(d, i)
  BY <1>1, ExchangePlaces DEF ChainStep
<1>2. CASE ~PlacedNow(d, i)
  <2>1. state[i] = "open" /\ r[n] \in Message
    BY <1>2 DEF ExchangeStep, Took
  <2>2. /\ r[n].status # "Add" /\ r[n].rest <= rest[i]
        /\ r[n].status = "Fill" => r[n].rest < rest[i]
        /\ r[n].status = "Cancel" => r[n].rest = rest[i]
    BY <1>2 DEF ChainStep, Carries
  <2>3. r[n].rest \in Int /\ rest[i] \in Int
    BY <2>1, EventRest DEF IInv, TypeOK
  <2>4. ASSUME NEW k \in DOMAIN bus, Says(bus[k], i) PROVE Precedes(bus[k], r[n])
    <3>1. bus[k] \in Message
      BY BusType DEF IInv
    <3>2. bus[k].rest \in Int /\ bus[k].rest >= rest[i] /\ bus[k].status # "Cancel"
      BY <2>1, <2>4, <3>1, EventRest DEF StateTold, IInv, NewsTrue, TrueOf
    <3> QED BY <2>2, <2>3, <3>2, CarriesOn
  <2>5. ASSUME Heard(i) PROVE Precedes(Last(history[i]), r[n])
    <3>1. /\ Last(history[i]).rest \in Int /\ Last(history[i]).rest >= rest[i]
          /\ Last(history[i]).status # "Cancel"
      BY <2>1, <2>5, LastHeard DEF StateTold, IInv, NewsTrue, TrueOf
    <3> QED BY <2>2, <2>3, <3>1, CarriesOn
  <2> QED BY <1>2, <2>1, <2>2, <2>4, <2>5
<1> QED BY <1>1, <1>2

\* Events that were on the bus are still there, in their order.
LEMMA ExchangeKept ==
  ASSUME IInv, NEW d, NEW r, ExchangeStep(d, r), NEW i \in Ids, NEW k \in DOMAIN bus,
         Says(bus[k], i) \/ Fails(bus[k], i, "Add")
  PROVE  k - d \in DOMAIN bus' /\ bus'[k - d] = bus[k]
<1>1. bus[k].kind \in {"order", "error"}
  BY DEF Says, Fails
<1> QED BY <1>1, ExchangeNews

LEMMA ExchangeChained ==
  ASSUME IInv, ChainInv, NEW d, NEW r, ExchangeStep(d, r), ChainStep(d, r)
  PROVE  EventsChain'
<1> SUFFICES ASSUME NEW i \in Ids
    PROVE  /\ \A j, k \in DOMAIN bus' : j < k /\ Says(bus'[j], i) /\ Says(bus'[k], i) =>
                 Precedes(bus'[j], bus'[k])
           /\ \A k \in DOMAIN bus' : Says(bus'[k], i) =>
                 /\ Heard(i) => Precedes(Last(history[i]), bus'[k])
                 /\ Heard(i) \/ Opens(bus'[k]) \/ \E j \in DOMAIN bus' : j < k /\ Says(bus'[j], i)
                 /\ bus'[k].status = "Cancel" =>
                       \/ Heard(i) /\ Last(history[i]).rest = bus'[k].rest
                       \/ \E j \in DOMAIN bus' : j < k /\ Says(bus'[j], i) /\ bus'[j].rest = bus'[k].rest
  <2>1. history' = history
    BY DEF ExchangeStep
  <2> QED BY <2>1 DEF EventsChain, Says, Precedes, Opens, Heard
<1> USE DEF ChainInv
<1>1. ASSUME NEW j \in DOMAIN bus', NEW k \in DOMAIN bus', j < k, Says(bus'[j], i), Says(bus'[k], i)
      PROVE  Precedes(bus'[j], bus'[k])
  <2>1. CASE j + d \in DOMAIN bus /\ bus'[j] = bus[j + d]
    <3>1. CASE k + d \in DOMAIN bus /\ bus'[k] = bus[k + d]
      <4>1. j + d < k + d
        BY <1>1, ExchangeBus
      <4> QED BY <1>1, <2>1, <3>1, <4>1 DEF EventsChain
    <3>2. ASSUME NEW n \in DOMAIN r, bus'[k] = r[n] PROVE Precedes(bus'[j], bus'[k])
      <4>1. ~Untold(i) /\ Says(r[n], i) /\ Says(bus[j + d], i)
        BY <1>1, <2>1, <3>2 DEF Untold
      <4> QED BY <2>1, <3>2, <4>1, ExchangeCarries
    <3> QED BY <3>1, <3>2, ExchangeBus
  <2>2. ASSUME NEW n \in DOMAIN r, j = Len(bus) - d + n, bus'[j] = r[n]
        PROVE  Precedes(bus'[j], bus'[k])
    <3>1. ~(k + d \in DOMAIN bus)
      BY <1>1, <2>2, ExchangeBus
    <3>2. PICK l \in DOMAIN r : k = Len(bus) - d + l /\ bus'[k] = r[l]
      BY <3>1, ExchangeBus
    <3>3. n < l
      BY <1>1, <2>2, <3>2, ExchangeBus
    <3> QED BY <1>1, <2>2, <3>2, <3>3 DEF ChainStep, Ordered
  <2> QED BY <2>1, <2>2, ExchangeBus
<1>2. ASSUME NEW k \in DOMAIN bus', Says(bus'[k], i)
      PROVE  /\ Heard(i) => Precedes(Last(history[i]), bus'[k])
             /\ Heard(i) \/ Opens(bus'[k]) \/ \E j \in DOMAIN bus' : j < k /\ Says(bus'[j], i)
             /\ bus'[k].status = "Cancel" =>
                   \/ Heard(i) /\ Last(history[i]).rest = bus'[k].rest
                   \/ \E j \in DOMAIN bus' : j < k /\ Says(bus'[j], i) /\ bus'[j].rest = bus'[k].rest
  <2>1. CASE k + d \in DOMAIN bus /\ bus'[k] = bus[k + d]
    <3>0. ASSUME NEW j \in DOMAIN bus, j < k + d, Says(bus[j], i)
          PROVE  j - d \in DOMAIN bus' /\ bus'[j - d] = bus[j] /\ j - d < k
      BY <3>0, ExchangeKept, ExchangeBus
    <3>1. /\ Heard(i) => Precedes(Last(history[i]), bus[k + d])
          /\ Heard(i) \/ Opens(bus[k + d]) \/ \E j \in DOMAIN bus : j < k + d /\ Says(bus[j], i)
          /\ bus[k + d].status = "Cancel" =>
                \/ Heard(i) /\ Last(history[i]).rest = bus[k + d].rest
                \/ \E j \in DOMAIN bus : j < k + d /\ Says(bus[j], i) /\ bus[j].rest = bus[k + d].rest
      BY <1>2, <2>1 DEF EventsChain
    <3> QED BY <2>1, <3>0, <3>1
  <2>2. ASSUME NEW n \in DOMAIN r, k = Len(bus) - d + n, bus'[k] = r[n]
        PROVE  /\ Heard(i) => Precedes(Last(history[i]), bus'[k])
               /\ Heard(i) \/ Opens(bus'[k]) \/ \E j \in DOMAIN bus' : j < k /\ Says(bus'[j], i)
               /\ bus'[k].status = "Cancel" =>
                     \/ Heard(i) /\ Last(history[i]).rest = bus'[k].rest
                     \/ \E j \in DOMAIN bus' : j < k /\ Says(bus'[j], i) /\ bus'[j].rest = bus'[k].rest
    <3>0. Says(r[n], i)
      BY <1>2, <2>2
    <3>1. CASE PlacedNow(d, i) /\ Untold(i) /\ Begins(r, i, state'[i], rest'[i])
      <4>1. ASSUME NEW j \in DOMAIN r, j < n
            PROVE  /\ Len(bus) - d + j \in DOMAIN bus' /\ bus'[Len(bus) - d + j] = r[j]
                   /\ Len(bus) - d + j < k
        BY <2>2, <4>1, ExchangeBus
      <4>2. /\ Opens(r[n]) \/ \E j \in DOMAIN r : j < n /\ Says(r[j], i)
            /\ r[n].status = "Cancel" => \E j \in DOMAIN r : j < n /\ Says(r[j], i) /\ r[j].rest = r[n].rest
        BY <3>0, <3>1 DEF Begins
      <4>3. ~Heard(i)
        BY <3>1 DEF Untold
      <4> QED BY <2>2, <4>1, <4>2, <4>3
    <3>2. CASE /\ state[i] = "open"
               /\ r[n].status = "Cancel" => r[n].rest = rest[i]
               /\ Heard(i) => Precedes(Last(history[i]), r[n])
      <4>1. ASSUME NEW j \in DOMAIN bus, Says(bus[j], i)
            PROVE  j - d \in DOMAIN bus' /\ bus'[j - d] = bus[j] /\ j - d < k
        BY <2>2, <4>1, ExchangeKept, ExchangeBus
      <4>2. /\ Heard(i) \/ \E j \in DOMAIN bus : Says(bus[j], i)
            /\ \/ Heard(i) /\ Last(history[i]).rest = rest[i]
               \/ \E j \in DOMAIN bus : Says(bus[j], i) /\ bus[j].rest = rest[i]
        BY <3>2 DEF IInv, NewsComplete, StateTold, TakenIn, Tells
      <4> QED BY <2>2, <3>2, <4>1, <4>2
    <3> QED BY <3>0, <3>1, <3>2, ExchangeCarries
  <2> QED BY <2>1, <2>2, ExchangeBus
<1> QED BY <1>1, <1>2

LEMMA ExchangeTold ==
  ASSUME IInv, ChainInv, NEW d, NEW r, ExchangeStep(d, r), ChainStep(d, r)
  PROVE  StateTold'
<1> SUFFICES ASSUME NEW i \in Ids
    PROVE  /\ rest'[i] > 0 <=> state'[i] \in {"open", "cancelled"}
           /\ TakenIn(state'[i]) =>
                 \/ Heard(i) /\ Tells(Last(history[i]), state'[i], rest'[i])
                 \/ \E k \in DOMAIN bus' : Says(bus'[k], i) /\ Tells(bus'[k], state'[i], rest'[i])
           /\ \A k \in DOMAIN bus' : Says(bus'[k], i) => bus'[k].rest >= rest'[i]
           /\ Heard(i) => Last(history[i]).rest >= rest'[i]
  <2>1. history' = history
    BY DEF ExchangeStep
  <2> QED BY <2>1 DEF StateTold, Says, Tells, Heard
<1> USE DEF ChainInv
<1>0. rest[i] \in Int /\ rest'[i] \in Int
  BY DEF IInv, TypeOK, ExchangeStep
<1>1. rest'[i] > 0 <=> state'[i] \in {"open", "cancelled"}
  BY DEF ChainStep
<1>2. \A n \in DOMAIN r : \E k \in DOMAIN bus' : bus'[k] = r[n]
  BY ExchangeBus
<1>3. \A k \in DOMAIN bus : Says(bus[k], i) => \E l \in DOMAIN bus' : bus'[l] = bus[k]
  BY ExchangeKept
<1>4. ASSUME TakenIn(state'[i])
      PROVE  \/ Heard(i) /\ Tells(Last(history[i]), state'[i], rest'[i])
             \/ \E k \in DOMAIN bus' : Says(bus'[k], i) /\ Tells(bus'[k], state'[i], rest'[i])
  <2>1. CASE \E n \in DOMAIN r : Says(r[n], i) /\ Tells(r[n], state'[i], rest'[i])
    BY <1>2, <2>1
  <2>2. CASE ~PlacedNow(d, i) /\ state'[i] = state[i] /\ rest'[i] = rest[i]
    <3>1. \/ Heard(i) /\ Tells(Last(history[i]), state[i], rest[i])
          \/ \E k \in DOMAIN bus : Says(bus[k], i) /\ Tells(bus[k], state[i], rest[i])
      BY <1>4, <2>2 DEF StateTold
    <3> QED BY <1>3, <2>2, <3>1
  <2> QED BY <1>4, <2>1, <2>2 DEF ChainStep, Begins
\* What an order lost before, it does not get back.
<1>5. ~Untold(i) => rest'[i] <= rest[i]
  <2>1. SUFFICES ASSUME ~PlacedNow(d, i) PROVE rest'[i] <= rest[i]
    BY ExchangePlaces
  <2>2. CASE rest'[i] = rest[i]
    BY <1>0, <2>2
  <2>3. ASSUME NEW n \in DOMAIN r, Says(r[n], i), Tells(r[n], state'[i], rest'[i])
        PROVE  rest'[i] <= rest[i]
    BY <1>0, <2>1, <2>3 DEF ChainStep, Carries, Tells
  <2> QED BY <2>1, <2>2, <2>3 DEF ChainStep
<1>6. ASSUME NEW k \in DOMAIN bus', Says(bus'[k], i) PROVE bus'[k].rest >= rest'[i]
  <2>1. CASE k + d \in DOMAIN bus /\ bus'[k] = bus[k + d]
    <3>1. bus[k + d] \in Message
      BY <2>1, BusType DEF IInv
    <3>2. bus[k + d].rest \in Int /\ bus[k + d].rest >= rest[i] /\ ~Untold(i)
      BY <1>6, <2>1, <3>1, EventRest DEF StateTold, Untold
    <3> QED BY <1>0, <1>5, <2>1, <3>2
  <2>2. CASE \E n \in DOMAIN r : bus'[k] = r[n]
    BY <1>6, <2>2 DEF ChainStep, Ordered
  <2> QED BY <2>1, <2>2, ExchangeBus
<1>7. ASSUME Heard(i) PROVE Last(history[i]).rest >= rest'[i]
  <2>1. Last(history[i]).rest \in Int /\ Last(history[i]).rest >= rest[i] /\ ~Untold(i)
    BY <1>7, LastHeard DEF StateTold, Untold, IInv
  <2> QED BY <1>0, <1>5, <2>1
<1> QED BY <1>1, <1>4, <1>6, <1>7

LEMMA ExchangeRefuses ==
  ASSUME IInv, ChainInv, NEW d, NEW r, ExchangeStep(d, r), ChainStep(d, r)
  PROVE  RefusedOnce'
<1> SUFFICES ASSUME NEW i \in Ids
    PROVE  /\ \A j, k \in DOMAIN bus' : Fails(bus'[j], i, "Add") /\ Fails(bus'[k], i, "Add") => j = k
           /\ "Add" \in errors[i] => \A k \in DOMAIN bus' : ~Fails(bus'[k], i, "Add")
  <2>1. errors' = errors
    BY DEF ExchangeStep
  <2> QED BY <2>1 DEF RefusedOnce, Fails
<1> USE DEF ChainInv
\* Who is refused now was not before.
<1>1. ASSUME NEW n \in DOMAIN r, Fails(r[n], i, "Add") PROVE Untold(i)
  BY <1>1, ExchangePlaces DEF ExchangeStep
<1>2. ASSUME NEW k \in DOMAIN bus, Fails(bus[k], i, "Add") PROVE ~Untold(i)
  BY <1>2 DEF Untold, Fails
<1>3. ASSUME NEW j \in DOMAIN bus', NEW k \in DOMAIN bus', Fails(bus'[j], i, "Add"), Fails(bus'[k], i, "Add")
      PROVE  j = k
  <2>1. CASE /\ j + d \in DOMAIN bus /\ bus'[j] = bus[j + d]
             /\ k + d \in DOMAIN bus /\ bus'[k] = bus[k + d]
    <3>1. j + d = k + d
      BY <1>3, <2>1 DEF RefusedOnce
    <3> QED BY <3>1, ExchangeBus
  <2>2. ASSUME NEW l \in DOMAIN r, j = Len(bus) - d + l, bus'[j] = r[l],
               NEW n \in DOMAIN r, k = Len(bus) - d + n, bus'[k] = r[n]
        PROVE  j = k
    <3>1. l = n
      BY <1>3, <2>2 DEF ChainStep, Ordered
    <3> QED BY <2>2, <3>1
  <2> QED BY <1>1, <1>2, <1>3, <2>1, <2>2, ExchangeBus
<1>4. ASSUME "Add" \in errors[i], NEW k \in DOMAIN bus', Fails(bus'[k], i, "Add") PROVE FALSE
  <2>1. CASE k + d \in DOMAIN bus /\ bus'[k] = bus[k + d]
    BY <1>4, <2>1 DEF RefusedOnce
  <2>2. CASE \E n \in DOMAIN r : bus'[k] = r[n]
    BY <1>1, <1>4, <2>2 DEF Untold
  <2> QED BY <2>1, <2>2, ExchangeBus
<1> QED BY <1>3, <1>4

\* What PendingsExact says of an order
Undecided(i) ==
    \/ ~Settled(i)
    \/ i \in used /\ state[i] \in {"unknown", "dropped"}
    \/ \E k \in DOMAIN bus : Fails(bus[k], i, "Add") \/ (Says(bus[k], i) /\ bus[k].status = "Add")

LEMMA RefusalIs ==
  ASSUME NEW m \in Message, NEW i \in Ids
  PROVE  m = OrderError(i, "Add") <=> Fails(m, i, "Add")
<1>1. ASSUME m = OrderError(i, "Add") PROVE Fails(m, i, "Add")
  BY <1>1 DEF OrderError, Fails
<1>2. ASSUME Fails(m, i, "Add") PROVE m = OrderError(i, "Add")
  <2>1. m \in Error
    BY <1>2, MessageKinds DEF Fails
  <2> QED BY <1>2, <2>1 DEF Error, OrderError, Fails
<1> QED BY <1>1, <1>2

LEMMA PendingsAre ==
  TypeOK => (PendingsExact <=> \A i \in used : i \in pendings <=> Undecided(i))
<1> SUFFICES ASSUME TypeOK PROVE PendingsExact <=> \A i \in used : i \in pendings <=> Undecided(i)
  OBVIOUS
<1>1. bus \in Seq(Message) /\ used \subseteq Ids
  BY BusType DEF TypeOK
<1>2. ASSUME NEW i \in used
      PROVE  Undecided(i) <=> \/ Placing(i) \/ Ignored(i)
                              \/ OnBus(LAMBDA m : \/ m = OrderError(i, "Add")
                                                  \/ m.kind = "order" /\ m.id = i /\ m.status = "Add")
  <2>1. Placing(i) <=> ~Settled(i)
    BY DEF Placing, OnBus, Settled, Places
  <2>2. Ignored(i) <=> Settled(i) /\ state[i] \in {"unknown", "dropped"}
    BY <2>1 DEF Ignored
  <2>3. \A k \in DOMAIN bus : bus[k] = OrderError(i, "Add") <=> Fails(bus[k], i, "Add")
    BY <1>1, RefusalIs
  <2> QED BY <2>1, <2>2, <2>3 DEF Undecided, OnBus, Says
<1> QED BY <1>2 DEF PendingsExact

LEMMA PendingsStay ==
  (TypeOK /\ (\A i \in used : i \in pendings <=> Undecided(i)) => PendingsExact)'
<1>1. TypeOK /\ (\A i \in used : i \in pendings <=> Undecided(i)) => PendingsExact
  BY PendingsAre
<1> QED BY <1>1, PTL

LEMMA ExchangePendings ==
  ASSUME IInv, ChainInv, NEW d, NEW r, ExchangeStep(d, r), ChainStep(d, r)
  PROVE  PendingsExact'
<1>1. used' = used /\ pendings' = pendings
  BY DEF ExchangeStep
<1>2. ASSUME NEW i \in used PROVE i \in pendings <=> Undecided(i)'
  <2>0. i \in Ids /\ (i \in pendings <=> Undecided(i))
    BY PendingsAre DEF IInv, TypeOK, ChainInv
  <2>1. ASSUME i \in pendings PROVE Undecided(i)'
    <3>1. CASE PlacedNow(d, i)
      <4>1. Settled(i)'
        BY <2>0, <3>1, ExchangePlaces DEF Settled
      <4>2. CASE TakenIn(state'[i])
        <5>1. PICK n \in DOMAIN r : Says(r[n], i) /\ r[n].status = "Add"
          BY <2>0, <3>1, <4>2 DEF ChainStep, Begins, Opens
        <5>2. \E k \in DOMAIN bus' : bus'[k] = r[n]
          BY ExchangeBus
        <5> QED BY <5>1, <5>2 DEF Undecided, Says
      <4>3. CASE state'[i] = "refused"
        <5>1. PICK n \in DOMAIN r : Fails(r[n], i, "Add")
          BY <2>0, <3>1, <4>3 DEF ExchangeStep
        <5>2. \E k \in DOMAIN bus' : bus'[k] = r[n]
          BY ExchangeBus
        <5> QED BY <5>1, <5>2 DEF Undecided, Fails
      <4>4. CASE state'[i] \in {"unknown", "dropped"}
        BY <1>1, <4>4 DEF Undecided
      <4>5. state'[i] \in States
        BY <2>0 DEF ExchangeStep
      <4> QED BY <4>2, <4>3, <4>4, <4>5 DEF TakenIn, States
    <3>2. CASE ~PlacedNow(d, i)
      <4>1. CASE ~Settled(i)
        <5>1. PICK k \in DOMAIN bus : Places(bus[k], i)
          BY <4>1 DEF Settled
        <5>2. k > d
          BY <3>2, <5>1, ExchangeBus DEF PlacedNow
        <5>3. k - d \in DOMAIN bus' /\ bus'[k - d] = bus[k]
          BY <5>2, ExchangeBus
        <5> QED BY <5>1, <5>3 DEF Undecided, Settled, Places
      <4>2. CASE state[i] \in {"unknown", "dropped"}
        <5>1. state'[i] = state[i]
          BY <2>0, <3>2, <4>2, ExchangeOrder
        <5> QED BY <1>1, <4>2, <5>1 DEF Undecided
      <4>3. CASE \E k \in DOMAIN bus : Fails(bus[k], i, "Add") \/ (Says(bus[k], i) /\ bus[k].status = "Add")
        <5>1. PICK k \in DOMAIN bus : Fails(bus[k], i, "Add") \/ (Says(bus[k], i) /\ bus[k].status = "Add")
          BY <4>3
        <5>2. k - d \in DOMAIN bus' /\ bus'[k - d] = bus[k]
          BY <2>0, <5>1, ExchangeKept
        <5> QED BY <5>1, <5>2 DEF Undecided, Says, Fails
      <4> QED BY <2>0, <2>1, <4>1, <4>2, <4>3 DEF Undecided
    <3> QED BY <3>1, <3>2
  <2>2. ASSUME Undecided(i)', i \notin pendings PROVE FALSE
    <3>1. ~PlacedNow(d, i) /\ Settled(i)'
      BY <2>0, <2>2, ExchangePlaces DEF Settled
    <3>2. state'[i] \notin {"unknown", "dropped"}
      <4>1. state[i] \notin {"unknown", "dropped"}
        BY <2>0, <2>2 DEF Undecided
      <4> QED BY <2>0, <3>1, <4>1 DEF ExchangeStep
    <3>3. PICK k \in DOMAIN bus' :
            Fails(bus'[k], i, "Add") \/ (Says(bus'[k], i) /\ bus'[k].status = "Add")
      BY <2>2, <3>1, <3>2 DEF Undecided, Says, Fails
    <3>4. CASE k + d \in DOMAIN bus /\ bus'[k] = bus[k + d]
      BY <2>0, <2>2, <3>3, <3>4 DEF Undecided
    <3>5. CASE \E n \in DOMAIN r : bus'[k] = r[n]
      BY <2>0, <3>1, <3>3, <3>5 DEF ExchangeStep, ChainStep, Carries
    <3> QED BY <3>4, <3>5, ExchangeBus
  <2> QED BY <2>1, <2>2
<1>3. TypeOK'
  BY ExchangeInv DEF IInv
<1> QED BY <1>1, <1>2, <1>3, PendingsStay

LEMMA ExchangeChain ==
  ASSUME IInv, ChainInv, NEW d, NEW r, ExchangeStep(d, r), ChainStep(d, r)
  PROVE  ChainInv'
  BY ExchangeChained, ExchangeTold, ExchangeRefuses, ExchangePendings DEF ChainInv

-----------------------------------------------------------------------------
(* The chain when events are delivered *)

\* News that decides nothing about an order leaves it as undecided as it was.
LEMMA DeliveredUndecided ==
  ASSUME IInv, Delivered, NEW n \in Ids,
         ~Fails(bus[1], n, "Add"), ~(Says(bus[1], n) /\ bus[1].status = "Add")
  PROVE  Undecided(n)' <=> Undecided(n)
<1>1. /\ \A k \in DOMAIN bus' : k + 1 \in DOMAIN bus /\ bus'[k] = bus[k + 1]
      /\ \A k \in DOMAIN bus : k # 1 => k - 1 \in DOMAIN bus' /\ bus'[k - 1] = bus[k]
      /\ state' = state /\ used' = used /\ ~Places(bus[1], n)
  BY BusType, MovesUp DEF IInv, Delivered, Places
<1>2. Settled(n)' <=> Settled(n)
  <2>1. ASSUME Settled(n) PROVE Settled(n)'
    BY <1>1, <2>1 DEF Settled
  <2>2. ASSUME Settled(n)', NEW k \in DOMAIN bus, Places(bus[k], n) PROVE FALSE
    <3>1. k - 1 \in DOMAIN bus' /\ bus'[k - 1] = bus[k]
      BY <1>1, <2>2
    <3> QED BY <2>2, <3>1 DEF Settled
  <2> QED BY <2>1, <2>2 DEF Settled
<1>3. (\E k \in DOMAIN bus' : Fails(bus'[k], n, "Add") \/ (Says(bus'[k], n) /\ bus'[k].status = "Add"))
         <=> \E k \in DOMAIN bus : Fails(bus[k], n, "Add") \/ (Says(bus[k], n) /\ bus[k].status = "Add")
  <2>1. ASSUME NEW k \in DOMAIN bus, Fails(bus[k], n, "Add") \/ (Says(bus[k], n) /\ bus[k].status = "Add")
        PROVE  k - 1 \in DOMAIN bus' /\ bus'[k - 1] = bus[k]
    BY <1>1, <2>1
  <2> QED BY <1>1, <2>1
<1>4. Undecided(n)' <=>
        \/ ~Settled(n)'
        \/ n \in used' /\ state'[n] \in {"unknown", "dropped"}
        \/ \E k \in DOMAIN bus' : Fails(bus'[k], n, "Add") \/ (Says(bus'[k], n) /\ bus'[k].status = "Add")
  BY DEF Undecided, Fails, Says
<1> QED BY <1>1, <1>2, <1>3, <1>4 DEF Undecided

LEMMA OrderArrivesChain ==
  ASSUME IInv, ChainInv, OrderArrives
  PROVE  ChainInv'
<1> USE DEF ChainInv
<1>1. /\ \A k \in DOMAIN bus' :
           k \in Nat /\ k >= 1 /\ k + 1 \in DOMAIN bus /\ bus'[k] = bus[k + 1]
      /\ \A k \in DOMAIN bus : k \in Nat /\ k >= 1
      /\ \A k \in DOMAIN bus : k # 1 => k - 1 \in DOMAIN bus' /\ bus'[k - 1] = bus[k]
      /\ 1 \in DOMAIN bus /\ bus \in Seq(Message)
  BY BusType, MovesUp, OrderArrivesFacts DEF Delivered, IInv
<1>2. PICK i \in Ids : i = bus[1].id
  BY OrderArrivesFacts
<1>3. /\ Says(bus[1], i) /\ TrueOf(bus[1], state[i]) /\ i \in used
      /\ Heard(i)' /\ Last(history'[i]) = bus[1]
      /\ \A n \in Ids : n # i => history'[n] = history[n] /\ (Heard(n)' <=> Heard(n))
      /\ errors' = errors /\ state' = state /\ used' = used /\ rest' = rest
      /\ pendings' = IF bus[1].status = "Add" THEN pendings \ {i} ELSE pendings
  <2>1. Head(bus) = bus[1]
    BY HeadOfBus DEF OrderArrives, Arrives
  <2> QED BY <1>2, <2>1, OrderArrivesFacts DEF Delivered, Heard, OrderArrives
<1>4. \A n \in Ids : n # i => ~Says(bus[1], n)
  BY <1>2 DEF Says
<1>5. \A n \in Ids : ~Fails(bus[1], n, "Add")
  BY <1>3 DEF Says, Fails
<1>6. \A k \in DOMAIN bus : Says(bus[k], i) => bus[k].rest \in Int
  BY <1>1, EventRest
<1>7. bus[1].rest \in Int /\ rest[i] \in Int
  BY <1>1, <1>3, <1>6 DEF IInv, TypeOK
\* What was heard of the order before, its new last event follows.
<1>8. Heard(i) => Precedes(Last(history[i]), bus[1]) /\ Last(history[i]).rest \in Int
  BY <1>1, <1>3, LastHeard DEF EventsChain, IInv
<1>9. EventsChain'
  <2> SUFFICES ASSUME NEW n \in Ids
      PROVE  /\ \A j, k \in DOMAIN bus' : j < k /\ Says(bus'[j], n) /\ Says(bus'[k], n) =>
                   Precedes(bus'[j], bus'[k])
             /\ \A k \in DOMAIN bus' : Says(bus'[k], n) =>
                   /\ Heard(n)' => Precedes(Last(history'[n]), bus'[k])
                   /\ Heard(n)' \/ Opens(bus'[k]) \/ \E j \in DOMAIN bus' : j < k /\ Says(bus'[j], n)
                   /\ bus'[k].status = "Cancel" =>
                         \/ Heard(n)' /\ Last(history'[n]).rest = bus'[k].rest
                         \/ \E j \in DOMAIN bus' : j < k /\ Says(bus'[j], n) /\ bus'[j].rest = bus'[k].rest
    BY DEF EventsChain, Says, Precedes, Opens
  <2>1. ASSUME NEW j \in DOMAIN bus', NEW k \in DOMAIN bus', j < k, Says(bus'[j], n), Says(bus'[k], n)
        PROVE  Precedes(bus'[j], bus'[k])
    <3>1. j + 1 < k + 1
      BY <1>1, <2>1
    <3> QED BY <1>1, <2>1, <3>1 DEF EventsChain
  <2>2. ASSUME NEW k \in DOMAIN bus', Says(bus'[k], n)
        PROVE  /\ Heard(n)' => Precedes(Last(history'[n]), bus'[k])
               /\ Heard(n)' \/ Opens(bus'[k]) \/ \E j \in DOMAIN bus' : j < k /\ Says(bus'[j], n)
               /\ bus'[k].status = "Cancel" =>
                     \/ Heard(n)' /\ Last(history'[n]).rest = bus'[k].rest
                     \/ \E j \in DOMAIN bus' : j < k /\ Says(bus'[j], n) /\ bus'[j].rest = bus'[k].rest
    <3>0. k + 1 \in DOMAIN bus /\ bus'[k] = bus[k + 1] /\ 1 < k + 1 /\ Says(bus[k + 1], n)
      BY <1>1, <2>2
    <3>1. /\ Heard(n) => Precedes(Last(history[n]), bus[k + 1])
          /\ Heard(n) \/ Opens(bus[k + 1]) \/ \E j \in DOMAIN bus : j < k + 1 /\ Says(bus[j], n)
          /\ bus[k + 1].status = "Cancel" =>
                \/ Heard(n) /\ Last(history[n]).rest = bus[k + 1].rest
                \/ \E j \in DOMAIN bus : j < k + 1 /\ Says(bus[j], n) /\ bus[j].rest = bus[k + 1].rest
      BY <3>0 DEF EventsChain
    <3>2. ASSUME NEW j \in DOMAIN bus, j < k + 1, j # 1
          PROVE  j - 1 \in DOMAIN bus' /\ bus'[j - 1] = bus[j] /\ j - 1 < k
      BY <1>1, <3>2
    <3>3. CASE n = i
      <4>1. Precedes(bus[1], bus[k + 1])
        BY <1>1, <1>3, <3>0, <3>3 DEF EventsChain
      <4>2. Heard(i) /\ Last(history[i]).rest = bus[k + 1].rest => bus[1].rest = bus[k + 1].rest
        BY <1>6, <1>7, <1>8, <3>0, <3>3, <4>1 DEF Precedes
      <4> QED BY <1>3, <3>0, <3>1, <3>2, <3>3, <4>1, <4>2
    <3>4. CASE n # i
      BY <1>3, <1>4, <3>0, <3>1, <3>2, <3>4
    <3> QED BY <3>3, <3>4
  <2> QED BY <2>1, <2>2
<1>10. StateTold'
  <2> SUFFICES ASSUME NEW n \in Ids
      PROVE  /\ rest[n] > 0 <=> state[n] \in {"open", "cancelled"}
             /\ TakenIn(state[n]) =>
                   \/ Heard(n)' /\ Tells(Last(history'[n]), state[n], rest[n])
                   \/ \E k \in DOMAIN bus' : Says(bus'[k], n) /\ Tells(bus'[k], state[n], rest[n])
             /\ \A k \in DOMAIN bus' : Says(bus'[k], n) => bus'[k].rest >= rest[n]
             /\ Heard(n)' => Last(history'[n]).rest >= rest[n]
    BY <1>3 DEF StateTold, Says, Tells
  <2>1. rest[n] > 0 <=> state[n] \in {"open", "cancelled"}
    BY DEF StateTold
  <2>2. \A k \in DOMAIN bus' : Says(bus'[k], n) => bus'[k].rest >= rest[n]
    BY <1>1 DEF StateTold
  <2>3. Heard(n)' => Last(history'[n]).rest >= rest[n]
    BY <1>1, <1>3 DEF StateTold
  <2>4. ASSUME TakenIn(state[n])
        PROVE  \/ Heard(n)' /\ Tells(Last(history'[n]), state[n], rest[n])
               \/ \E k \in DOMAIN bus' : Says(bus'[k], n) /\ Tells(bus'[k], state[n], rest[n])
    <3>1. CASE Heard(n) /\ Tells(Last(history[n]), state[n], rest[n])
      <4>1. CASE n = i
        <5>1. bus[1].rest = rest[i]
          <6>1. bus[1].rest >= rest[i]
            BY <1>1, <1>3 DEF StateTold
          <6>2. bus[1].rest <= rest[i]
            BY <1>8, <3>1, <4>1 DEF Precedes, Tells
          <6> QED BY <1>7, <6>1, <6>2
        <5>2. state[i] # "cancelled" /\ bus[1].status # "Cancel"
          BY <1>3, <1>8, <3>1, <4>1 DEF Precedes, Tells, TrueOf
        <5> QED BY <1>3, <4>1, <5>1, <5>2 DEF Tells
      <4>2. CASE n # i
        BY <1>3, <3>1, <4>2
      <4> QED BY <4>1, <4>2
    <3>2. ASSUME NEW k \in DOMAIN bus, Says(bus[k], n), Tells(bus[k], state[n], rest[n])
          PROVE  \/ Heard(n)' /\ Tells(Last(history'[n]), state[n], rest[n])
                 \/ \E j \in DOMAIN bus' : Says(bus'[j], n) /\ Tells(bus'[j], state[n], rest[n])
      <4>1. CASE k = 1
        BY <1>3, <1>4, <3>2, <4>1
      <4>2. CASE k # 1
        BY <1>1, <3>2, <4>2
      <4> QED BY <4>1, <4>2
    <3> QED BY <2>4, <3>1, <3>2 DEF StateTold
  <2> QED BY <2>1, <2>2, <2>3, <2>4
<1>11. RefusedOnce'
  <2> SUFFICES ASSUME NEW n \in Ids
      PROVE  /\ \A j, k \in DOMAIN bus' : Fails(bus'[j], n, "Add") /\ Fails(bus'[k], n, "Add") => j = k
             /\ "Add" \in errors[n] => \A k \in DOMAIN bus' : ~Fails(bus'[k], n, "Add")
    BY <1>3 DEF RefusedOnce, Fails
  <2>1. ASSUME NEW j \in DOMAIN bus', NEW k \in DOMAIN bus', Fails(bus'[j], n, "Add"), Fails(bus'[k], n, "Add")
        PROVE  j = k
    <3>1. j + 1 = k + 1
      BY <1>1, <2>1 DEF RefusedOnce
    <3> QED BY <1>1, <3>1
  <2>2. "Add" \in errors[n] => \A k \in DOMAIN bus' : ~Fails(bus'[k], n, "Add")
    BY <1>1 DEF RefusedOnce
  <2> QED BY <2>1, <2>2
<1>12. PendingsExact'
  <2>1. \A n \in used : n \in Ids /\ (n \in pendings <=> Undecided(n))
    BY PendingsAre DEF IInv, TypeOK
  <2>2. Delivered
    BY OrderArrivesFacts
  <2>3. ASSUME bus[1].status = "Add" PROVE ~Undecided(i)'
    <3>1. Settled(i)'
      BY <1>2, <2>2, DeliveredSettled
    <3>2. TakenIn(state'[i])
      BY <1>3 DEF TrueOf
    <3>3. ASSUME NEW k \in DOMAIN bus'
          PROVE  ~Fails(bus'[k], i, "Add") /\ ~(Says(bus'[k], i) /\ bus'[k].status = "Add")
      <4>1. k + 1 \in DOMAIN bus /\ bus'[k] = bus[k + 1] /\ 1 < k + 1
        BY <1>1
      <4>2. ~Fails(bus[k + 1], i, "Add")
        BY <1>3, <3>2, <4>1 DEF IInv, NewsTrue, TakenIn
      <4>3. Says(bus[k + 1], i) => bus[k + 1].status # "Add"
        BY <1>1, <1>3, <4>1 DEF EventsChain, Precedes
      <4> QED BY <4>1, <4>2, <4>3
    <3> QED BY <3>1, <3>2, <3>3 DEF Undecided, TakenIn, Fails, Says
  <2>4. ASSUME NEW n \in Ids, n # i \/ bus[1].status # "Add" PROVE Undecided(n)' <=> Undecided(n)
    BY <1>4, <1>5, <2>2, <2>4, DeliveredUndecided
  <2>5. \A n \in used' : n \in pendings' <=> Undecided(n)'
    BY <1>3, <2>1, <2>3, <2>4
  <2> QED BY <2>5, OrderArrivesType, PendingsStay
<1> QED BY <1>9, <1>10, <1>11, <1>12

LEMMA ErrorArrivesChain ==
  ASSUME IInv, ChainInv, ErrorArrives
  PROVE  ChainInv'
<1> USE DEF ChainInv
<1>1. /\ \A k \in DOMAIN bus' :
           k \in Nat /\ k >= 1 /\ k + 1 \in DOMAIN bus /\ bus'[k] = bus[k + 1]
      /\ \A k \in DOMAIN bus : k \in Nat /\ k >= 1
      /\ \A k \in DOMAIN bus : k # 1 => k - 1 \in DOMAIN bus' /\ bus'[k - 1] = bus[k]
      /\ 1 \in DOMAIN bus /\ bus \in Seq(Message)
  BY BusType, MovesUp, ErrorArrivesFacts DEF Delivered, IInv
<1>2. PICK i \in Ids : i = bus[1].id
  BY ErrorArrivesFacts
<1>3. PICK of \in {"Add", "Delete"} : Fails(bus[1], i, of) /\ of = bus[1].of
  BY <1>2, ErrorArrivesFacts
<1>4. /\ i \in used /\ history' = history /\ state' = state /\ used' = used /\ rest' = rest
      /\ \A n \in Ids : errors'[n] = IF n = i THEN errors[n] \cup {of} ELSE errors[n]
      /\ pendings' = IF of = "Add" THEN pendings \ {i} ELSE pendings
  <2>1. Head(bus) = bus[1]
    BY HeadOfBus DEF ErrorArrives, Arrives
  <2> QED BY <1>2, <1>3, <2>1, ErrorArrivesFacts DEF Delivered, ErrorArrives, PendingsAfter
<1>5. \A n \in Ids : ~Says(bus[1], n)
  BY <1>3 DEF Fails, Says
<1>6. \A n \in Ids : Fails(bus[1], n, "Add") <=> n = i /\ of = "Add"
  BY <1>3 DEF Fails
<1>7. \A k \in DOMAIN bus : \A n \in Ids : Says(bus[k], n) => k - 1 \in DOMAIN bus' /\ bus'[k - 1] = bus[k]
  BY <1>1, <1>5
<1>8. EventsChain'
  <2> SUFFICES ASSUME NEW n \in Ids
      PROVE  /\ \A j, k \in DOMAIN bus' : j < k /\ Says(bus'[j], n) /\ Says(bus'[k], n) =>
                   Precedes(bus'[j], bus'[k])
             /\ \A k \in DOMAIN bus' : Says(bus'[k], n) =>
                   /\ Heard(n) => Precedes(Last(history[n]), bus'[k])
                   /\ Heard(n) \/ Opens(bus'[k]) \/ \E j \in DOMAIN bus' : j < k /\ Says(bus'[j], n)
                   /\ bus'[k].status = "Cancel" =>
                         \/ Heard(n) /\ Last(history[n]).rest = bus'[k].rest
                         \/ \E j \in DOMAIN bus' : j < k /\ Says(bus'[j], n) /\ bus'[j].rest = bus'[k].rest
    BY <1>4 DEF EventsChain, Says, Precedes, Opens, Heard
  <2>1. ASSUME NEW j \in DOMAIN bus', NEW k \in DOMAIN bus', j < k, Says(bus'[j], n), Says(bus'[k], n)
        PROVE  Precedes(bus'[j], bus'[k])
    <3>1. j + 1 < k + 1
      BY <1>1, <2>1
    <3> QED BY <1>1, <2>1, <3>1 DEF EventsChain
  <2>2. ASSUME NEW k \in DOMAIN bus', Says(bus'[k], n)
        PROVE  /\ Heard(n) => Precedes(Last(history[n]), bus'[k])
               /\ Heard(n) \/ Opens(bus'[k]) \/ \E j \in DOMAIN bus' : j < k /\ Says(bus'[j], n)
               /\ bus'[k].status = "Cancel" =>
                     \/ Heard(n) /\ Last(history[n]).rest = bus'[k].rest
                     \/ \E j \in DOMAIN bus' : j < k /\ Says(bus'[j], n) /\ bus'[j].rest = bus'[k].rest
    <3>0. k + 1 \in DOMAIN bus /\ bus'[k] = bus[k + 1] /\ Says(bus[k + 1], n)
      BY <1>1, <2>2
    <3>1. /\ Heard(n) => Precedes(Last(history[n]), bus[k + 1])
          /\ Heard(n) \/ Opens(bus[k + 1]) \/ \E j \in DOMAIN bus : j < k + 1 /\ Says(bus[j], n)
          /\ bus[k + 1].status = "Cancel" =>
                \/ Heard(n) /\ Last(history[n]).rest = bus[k + 1].rest
                \/ \E j \in DOMAIN bus : j < k + 1 /\ Says(bus[j], n) /\ bus[j].rest = bus[k + 1].rest
      BY <3>0 DEF EventsChain
    <3>2. ASSUME NEW j \in DOMAIN bus, j < k + 1, Says(bus[j], n)
          PROVE  j - 1 \in DOMAIN bus' /\ bus'[j - 1] = bus[j] /\ j - 1 < k
      BY <1>1, <1>7, <3>2
    <3> QED BY <3>0, <3>1, <3>2
  <2> QED BY <2>1, <2>2
<1>9. StateTold'
  <2> SUFFICES ASSUME NEW n \in Ids
      PROVE  /\ rest[n] > 0 <=> state[n] \in {"open", "cancelled"}
             /\ TakenIn(state[n]) =>
                   \/ Heard(n) /\ Tells(Last(history[n]), state[n], rest[n])
                   \/ \E k \in DOMAIN bus' : Says(bus'[k], n) /\ Tells(bus'[k], state[n], rest[n])
             /\ \A k \in DOMAIN bus' : Says(bus'[k], n) => bus'[k].rest >= rest[n]
             /\ Heard(n) => Last(history[n]).rest >= rest[n]
    BY <1>4 DEF StateTold, Says, Tells, Heard
  <2> QED BY <1>1, <1>7 DEF StateTold
<1>10. RefusedOnce'
  <2> SUFFICES ASSUME NEW n \in Ids
      PROVE  /\ \A j, k \in DOMAIN bus' : Fails(bus'[j], n, "Add") /\ Fails(bus'[k], n, "Add") => j = k
             /\ "Add" \in errors'[n] => \A k \in DOMAIN bus' : ~Fails(bus'[k], n, "Add")
    BY DEF RefusedOnce, Fails
  <2>1. ASSUME NEW j \in DOMAIN bus', NEW k \in DOMAIN bus', Fails(bus'[j], n, "Add"), Fails(bus'[k], n, "Add")
        PROVE  j = k
    <3>1. j + 1 = k + 1
      BY <1>1, <2>1 DEF RefusedOnce
    <3> QED BY <1>1, <3>1
  <2>2. ASSUME "Add" \in errors'[n], NEW k \in DOMAIN bus', Fails(bus'[k], n, "Add") PROVE FALSE
    <3>1. k + 1 \in DOMAIN bus /\ k + 1 # 1 /\ Fails(bus[k + 1], n, "Add")
      BY <1>1, <2>2
    <3>2. "Add" \in errors[n] \/ Fails(bus[1], n, "Add")
      BY <1>4, <1>6, <2>2
    <3> QED BY <1>1, <3>1, <3>2 DEF RefusedOnce
  <2> QED BY <2>1, <2>2
<1>11. PendingsExact'
  <2>1. \A n \in used : n \in Ids /\ (n \in pendings <=> Undecided(n))
    BY PendingsAre DEF IInv, TypeOK
  <2>2. Delivered
    BY ErrorArrivesFacts
  <2>3. ASSUME of = "Add" PROVE ~Undecided(i)'
    <3>1. Settled(i)'
      BY <1>2, <2>2, DeliveredSettled
    <3>2. state'[i] = "refused"
      BY <1>1, <1>3, <1>4, <2>3 DEF IInv, NewsTrue
    <3>3. ASSUME NEW k \in DOMAIN bus'
          PROVE  ~Fails(bus'[k], i, "Add") /\ ~Says(bus'[k], i)
      <4>1. k + 1 \in DOMAIN bus /\ bus'[k] = bus[k + 1] /\ 1 # k + 1
        BY <1>1
      <4>2. ~Fails(bus[k + 1], i, "Add")
        BY <1>1, <1>3, <2>3, <4>1 DEF RefusedOnce
      <4>3. ~Says(bus[k + 1], i)
        BY <1>4, <3>2, <4>1 DEF IInv, NewsTrue, TrueOf, TakenIn
      <4> QED BY <4>1, <4>2, <4>3
    <3> QED BY <3>1, <3>2, <3>3 DEF Undecided, Fails, Says
  <2>4. ASSUME NEW n \in Ids, n # i \/ of # "Add" PROVE Undecided(n)' <=> Undecided(n)
    BY <1>5, <1>6, <2>2, <2>4, DeliveredUndecided
  <2>5. \A n \in used' : n \in pendings' <=> Undecided(n)'
    BY <1>4, <2>1, <2>3, <2>4
  <2> QED BY <2>5, ErrorArrivesType, PendingsStay
<1> QED BY <1>8, <1>9, <1>10, <1>11

-----------------------------------------------------------------------------
(* The chain when operations start *)

LEMMA RequestedChain ==
  ASSUME IInv, ChainInv, TypeOK', NEW m, Requested(m),
         \A n \in Ids : /\ n \in used' <=> n \in used \/ Places(m, n)
                        /\ n \in pendings' <=> n \in pendings \/ Places(m, n)
  PROVE  ChainInv'
<1> USE DEF ChainInv
<1>1. /\ \A k \in DOMAIN bus : k \in DOMAIN bus' /\ bus'[k] = bus[k]
      /\ \A k \in DOMAIN bus' : k \in DOMAIN bus \/ bus'[k] = m
      /\ Len(bus) + 1 \in DOMAIN bus' /\ bus'[Len(bus) + 1] = m
      /\ m.kind \in {"add", "del", "move"}
  BY RequestedBus
<1>2. UNCHANGED <<state, rest, history, errors>>
  BY DEF Requested
<1>3. \A n \in Ids : ~Says(m, n) /\ ~Fails(m, n, "Add")
  BY <1>1 DEF Says, Fails
<1>4. \A k \in DOMAIN bus' : \A n \in Ids : Says(bus'[k], n) \/ Fails(bus'[k], n, "Add") =>
         k \in DOMAIN bus /\ bus'[k] = bus[k]
  BY <1>1, <1>3
<1>5. EventsChain'
  <2> SUFFICES ASSUME NEW n \in Ids
      PROVE  /\ \A j, k \in DOMAIN bus' : j < k /\ Says(bus'[j], n) /\ Says(bus'[k], n) =>
                   Precedes(bus'[j], bus'[k])
             /\ \A k \in DOMAIN bus' : Says(bus'[k], n) =>
                   /\ Heard(n) => Precedes(Last(history[n]), bus'[k])
                   /\ Heard(n) \/ Opens(bus'[k]) \/ \E j \in DOMAIN bus' : j < k /\ Says(bus'[j], n)
                   /\ bus'[k].status = "Cancel" =>
                         \/ Heard(n) /\ Last(history[n]).rest = bus'[k].rest
                         \/ \E j \in DOMAIN bus' : j < k /\ Says(bus'[j], n) /\ bus'[j].rest = bus'[k].rest
    BY <1>2 DEF EventsChain, Says, Precedes, Opens, Heard
  <2>1. ASSUME NEW j \in DOMAIN bus', NEW k \in DOMAIN bus', j < k, Says(bus'[j], n), Says(bus'[k], n)
        PROVE  Precedes(bus'[j], bus'[k])
    BY <1>4, <2>1 DEF EventsChain
  <2>2. ASSUME NEW k \in DOMAIN bus', Says(bus'[k], n)
        PROVE  /\ Heard(n) => Precedes(Last(history[n]), bus'[k])
               /\ Heard(n) \/ Opens(bus'[k]) \/ \E j \in DOMAIN bus' : j < k /\ Says(bus'[j], n)
               /\ bus'[k].status = "Cancel" =>
                     \/ Heard(n) /\ Last(history[n]).rest = bus'[k].rest
                     \/ \E j \in DOMAIN bus' : j < k /\ Says(bus'[j], n) /\ bus'[j].rest = bus'[k].rest
    <3>1. k \in DOMAIN bus /\ bus'[k] = bus[k] /\ Says(bus[k], n)
      BY <1>4, <2>2
    <3>2. /\ Heard(n) => Precedes(Last(history[n]), bus[k])
          /\ Heard(n) \/ Opens(bus[k]) \/ \E j \in DOMAIN bus : j < k /\ Says(bus[j], n)
          /\ bus[k].status = "Cancel" =>
                \/ Heard(n) /\ Last(history[n]).rest = bus[k].rest
                \/ \E j \in DOMAIN bus : j < k /\ Says(bus[j], n) /\ bus[j].rest = bus[k].rest
      BY <3>1 DEF EventsChain
    <3> QED BY <1>1, <3>1, <3>2
  <2> QED BY <2>1, <2>2
<1>6. StateTold'
  <2> SUFFICES ASSUME NEW n \in Ids
      PROVE  /\ rest[n] > 0 <=> state[n] \in {"open", "cancelled"}
             /\ TakenIn(state[n]) =>
                   \/ Heard(n) /\ Tells(Last(history[n]), state[n], rest[n])
                   \/ \E k \in DOMAIN bus' : Says(bus'[k], n) /\ Tells(bus'[k], state[n], rest[n])
             /\ \A k \in DOMAIN bus' : Says(bus'[k], n) => bus'[k].rest >= rest[n]
             /\ Heard(n) => Last(history[n]).rest >= rest[n]
    BY <1>2 DEF StateTold, Says, Tells, Heard
  <2> QED BY <1>1, <1>4 DEF StateTold
<1>7. RefusedOnce'
  <2> SUFFICES ASSUME NEW n \in Ids
      PROVE  /\ \A j, k \in DOMAIN bus' : Fails(bus'[j], n, "Add") /\ Fails(bus'[k], n, "Add") => j = k
             /\ "Add" \in errors[n] => \A k \in DOMAIN bus' : ~Fails(bus'[k], n, "Add")
    BY <1>2 DEF RefusedOnce, Fails
  <2> QED BY <1>4 DEF RefusedOnce
<1>8. PendingsExact'
  <2>1. \A n \in used : n \in pendings <=> Undecided(n)
    BY PendingsAre DEF IInv
  <2>2. ASSUME NEW n \in Ids, n \in used' PROVE n \in pendings' <=> Undecided(n)'
    <3>1. CASE Places(m, n)
      <4>1. ~Settled(n)'
        BY <1>1, <3>1 DEF Settled
      <4> QED BY <3>1, <4>1 DEF Undecided
    <3>2. CASE ~Places(m, n)
      <4>1. n \in used /\ (n \in pendings' <=> n \in pendings)
        BY <2>2, <3>2
      <4>2. Settled(n)' <=> Settled(n)
        BY <1>1, <3>2 DEF Settled, Places
      <4>3. (\E k \in DOMAIN bus' : Fails(bus'[k], n, "Add") \/ (Says(bus'[k], n) /\ bus'[k].status = "Add"))
               <=> \E k \in DOMAIN bus : Fails(bus[k], n, "Add") \/ (Says(bus[k], n) /\ bus[k].status = "Add")
        BY <1>1, <1>4
      <4>4. Undecided(n)' <=>
              \/ ~Settled(n)'
              \/ n \in used' /\ state'[n] \in {"unknown", "dropped"}
              \/ \E k \in DOMAIN bus' : Fails(bus'[k], n, "Add") \/ (Says(bus'[k], n) /\ bus'[k].status = "Add")
        BY DEF Undecided, Fails, Says
      <4>5. Undecided(n)' <=> Undecided(n)
        BY <1>2, <2>2, <4>1, <4>2, <4>3, <4>4 DEF Undecided
      <4> QED BY <2>1, <4>1, <4>5
    <3> QED BY <3>1, <3>2
  <2>3. used' \subseteq Ids
    BY DEF Requested
  <2> QED BY <2>2, <2>3, PendingsStay
<1> QED BY <1>5, <1>6, <1>7, <1>8

\* Where neither the bus nor what was heard changes, the chain does not either.
LEMMA SameChain ==
  ASSUME ChainInv, UNCHANGED <<bus, state, rest, used, history, errors, pendings>>
  PROVE  ChainInv'
<1>1. EventsChain'
  BY DEF ChainInv, EventsChain, Heard, Says, Precedes, Opens
<1>2. StateTold'
  BY DEF ChainInv, StateTold, Heard, Says, Tells
<1>3. RefusedOnce'
  BY DEF ChainInv, RefusedOnce, Fails
<1>4. PendingsExact'
  BY DEF ChainInv, PendingsExact, Placing, Ignored, OnBus
<1> QED BY <1>1, <1>2, <1>3, <1>4 DEF ChainInv

LEMMA StartChain ==
  ASSUME IInv, IInv', ChainInv, NEW o \in Ops, Start(o)
  PROVE  ChainInv'
<1>0. used \subseteq Ids /\ pendings \subseteq used /\ TypeOK' /\ used' \subseteq Ids /\ pendings' \subseteq used'
  BY DEF IInv, TypeOK
<1>1. CASE UNCHANGED <<bus, used, pendings>>
  BY <1>1, SameChain DEF Start, AddOrder, WaitOrder, CancelOrder, WaitCancel, MoveOrder, User
<1>2. CASE AddOrder(o) /\ ~closed
  <2>1. PICK i \in Ids \ used, v \in 0..MaxVolume :
          /\ used' = used \cup {i} /\ pendings' = pendings \cup {i}
          /\ bus' = Append(bus, [kind |-> "add", id |-> i, volume |-> v])
    BY <1>2 DEF AddOrder
  <2> DEFINE m == [kind |-> "add", id |-> i, volume |-> v]
  <2>2. m \in Request /\ m.kind = "add" /\ m.id = i /\ \A n : Places(m, n) <=> n = i
    BY DEF Request, Places
  <2> HIDE DEF m
  <2>3. Requested(m)
    BY <1>0, <1>2, <2>1, <2>2 DEF Requested, m, AddOrder, User
  <2> QED BY <1>0, <2>1, <2>2, <2>3, RequestedChain
<1>3. CASE CancelOrder(o) /\ ~closed
  <2>1. PICK i \in used : bus' = Append(bus, [kind |-> "del", id |-> i])
    BY <1>3 DEF CancelOrder
  <2> DEFINE m == [kind |-> "del", id |-> i]
  <2>2. m \in Request /\ m.kind = "del" /\ m.id = i /\ \A n : ~Places(m, n)
    BY <1>0 DEF Request, Places
  <2> HIDE DEF m
  <2>3. UNCHANGED <<used, pendings, state, rest, history, errors, closed>>
    BY <1>3 DEF CancelOrder, User
  <2>4. Requested(m)
    BY <1>0, <2>1, <2>2, <2>3 DEF Requested, m
  <2> QED BY <1>0, <2>2, <2>3, <2>4, RequestedChain
<1>4. CASE MoveOrder(o)
  <2>1. PICK i \in used, j \in Ids \ used, v \in 0..MaxVolume :
         /\ used' = used \cup {j} /\ pendings' = pendings \cup {j}
         /\ bus' = Append(bus, [kind |-> "move", id |-> i, to |-> j, volume |-> v])
    BY <1>4 DEF MoveOrder, Announced
  <2> DEFINE m == [kind |-> "move", id |-> i, to |-> j, volume |-> v]
  <2>2. m \in Request /\ m.kind = "move" /\ m.id = i /\ m.to = j /\ \A n : Places(m, n) <=> n = j
    BY <1>0 DEF Request, Places
  <2> HIDE DEF m
  <2>3. Requested(m)
    BY <1>0, <1>4, <2>1, <2>2 DEF Requested, m, MoveOrder, User
  <2> QED BY <1>0, <2>1, <2>2, <2>3, RequestedChain
<1>5. CASE WaitOrder(o) \/ WaitCancel(o)
  BY <1>1, <1>5 DEF WaitOrder, WaitCancel
<1>6. closed /\ (AddOrder(o) \/ CancelOrder(o)) => UNCHANGED <<bus, used, pendings>>
  BY DEF AddOrder, CancelOrder
<1> QED BY <1>1, <1>2, <1>3, <1>4, <1>5, <1>6 DEF Start

-----------------------------------------------------------------------------
(* Theorems *)

LEMMA InitIInv == Init => IInv
<1> SUFFICES ASSUME Init PROVE IInv
  OBVIOUS
<1>1. /\ bus = <<>> /\ DOMAIN bus = {} /\ used = {} /\ pendings = {}
      /\ \A i \in Ids : state[i] = "unknown" /\ ~Heard(i) /\ errors[i] = {}
      /\ history \in [Ids -> Seq(Event)] /\ closed = FALSE
      /\ state \in [Ids -> States] /\ errors \in [Ids -> SUBSET {"Add", "Delete"}]
  BY DEF Init, Heard, States
<1>2. rest \in [Ids -> 0..MaxVolume]
  BY VolumeAssumption DEF Init
<1> DEFINE p == Fresh("none", NoId, NoId)
<1>3. /\ p \in Operation /\ p.kind = "none" /\ p.stage = "idle" /\ p.result = "none"
  BY FreshFields
<1>4. ops = [o \in Ops |-> p]
  BY DEF Init
<1> HIDE DEF p
<1>5. OpsInv
  BY <1>3, <1>4 DEF OpsInv, OpKnows, OpTrue, OpAnswered
<1>6. TypeOK
  <2>1. bus \in Seq(Request \cup Event \cup Error)
    BY <1>1
  <2>2. ops \in [Ops -> Operation]
    BY <1>3, <1>4
  <2> QED BY <1>1, <1>2, <2>1, <2>2 DEF TypeOK, States
<1>7. Asked /\ NewUntold
  BY <1>1 DEF Asked, NewUntold, Untold
<1>8. NewsTrue /\ NewsComplete /\ NewsInOrder
  BY <1>1 DEF NewsTrue, NewsComplete, NewsInOrder, TakenIn, HeardCancel
<1> QED BY <1>5, <1>6, <1>7, <1>8 DEF IInv

LEMMA NextIInv == IInv /\ [Next]_vars => IInv'
<1> SUFFICES ASSUME IInv, [Next]_vars PROVE IInv'
  OBVIOUS
<1>1. CASE AddArrives
  BY <1>1, AddArrivesStep, ExchangeInv
<1>2. CASE DelArrives
  BY <1>2, DelArrivesStep, ExchangeInv
<1>3. CASE MoveArrives
  BY <1>3, MoveArrivesStep, ExchangeInv
<1>4. CASE Deal
  BY <1>4, DealStep, ExchangeInv
<1>5. CASE OrderArrives
  BY <1>5, OrderArrivesInv
<1>6. CASE ErrorArrives
  BY <1>6, ErrorArrivesInv
<1>7. CASE Close
  BY <1>7, EndsInv
<1>8. ASSUME NEW o \in Ops, AddOrder(o) PROVE IInv'
  BY <1>8, AddOrderInv
<1>9. ASSUME NEW o \in Ops, WaitOrder(o) PROVE IInv'
  BY <1>9, WaitsInv
<1>10. ASSUME NEW o \in Ops, CancelOrder(o) PROVE IInv'
  BY <1>10, CancelOrderInv
<1>11. ASSUME NEW o \in Ops, WaitCancel(o) PROVE IInv'
  BY <1>11, WaitsInv
<1>12. ASSUME NEW o \in Ops, MoveOrder(o) PROVE IInv'
  BY <1>12, MoveOrderInv
<1>13. ASSUME NEW o \in Ops, MoveResumed(o) PROVE IInv'
  BY <1>13, MoveResumedInv
<1>14. ASSUME NEW o \in Ops, TimeOut(o) PROVE IInv'
  BY <1>14, EndsInv
<1>15. CASE UNCHANGED vars
  <2>1. \A o \in Ops : \E p : ops'[o] = p /\ Good(p)
    BY <1>15, OpsFrom DEF IInv, vars
  <2> QED BY <1>15, <2>1, OpsOnly DEF IInv, TypeOK, vars
<1> QED BY <1>1, <1>2, <1>3, <1>4, <1>5, <1>6, <1>7, <1>8, <1>9, <1>10, <1>11, <1>12, <1>13,
           <1>14, <1>15 DEF Next, Exchanged, Told, Start

\* The types, and the invariant the theorems below follow from: what is on the
\* bus about an order is true of it, complete and in order.
THEOREM InvariantCorrect == Spec => []IInv
<1>1. Init /\ [][Next]_vars => []IInv
  BY InitIInv, NextIInv, PTL
<1> QED BY <1>1, PTL DEF Spec

\* What add, wait, cancel and move report is true of the exchange and stays
\* true, although events and requests about one order cross on the bus.
THEOREM ResultsTrueCorrect == Spec => []ResultsTrue
<1>1. IInv => ResultsTrue
  <2> SUFFICES ASSUME IInv, NEW o \in Ops PROVE OpTrue(ops[o])
    BY DEF ResultsTrue, OpTrue, TakenIn
  <2> QED BY DEF IInv, OpsInv
<1> QED BY <1>1, InvariantCorrect, PTL

\* Every order that rests at the exchange, or may come to, is among those the
\* closing strategies cancel: pending, or open by the events delivered.
THEOREM NothingEscapesCorrect == Spec => []NothingEscapes
<1>1. IInv => NothingEscapes
  <2> SUFFICES ASSUME IInv, NEW i \in Ids, state[i] = "open" \/ Placing(i), i \notin pendings
               PROVE  i \in OpenOrders
    BY DEF NothingEscapes
  <2>1. ~Placing(i)
    BY DEF Placing, OnBus, IInv, NewUntold, Places
  <2>2. state[i] = "open" /\ Heard(i)
    BY <2>1 DEF IInv, NewsComplete
  <2>3. TrueOf(Last(history[i]), "open")
    BY <2>2 DEF IInv, NewsTrue
  <2>4. Last(history[i]) \in Event
    <3>1. history[i] \in Seq(Event) /\ history[i] # <<>>
      BY <2>2 DEF IInv, TypeOK, Heard
    <3>2. Len(history[i]) \in DOMAIN history[i]
      BY <3>1
    <3> QED BY <3>1, <3>2 DEF Last
  <2>5. Last(history[i]).rest \in 0..MaxVolume
    BY <2>4 DEF Event
  <2>6. Last(history[i]).status # "Cancel" /\ Last(history[i]).rest > 0
    BY <2>3, <2>5, VolumeAssumption DEF TrueOf
  <2> QED BY <2>2, <2>6 DEF OpenOrders, Heard
<1> QED BY <1>1, InvariantCorrect, PTL

\* No operation waits for an answer that has passed already: its request or the
\* answer is on the bus, unless the exchange ignores the request.
THEOREM AnswerUnderWayCorrect == Spec => []AnswerUnderWay
<1>1. IInv => AnswerUnderWay
  <2> SUFFICES ASSUME IInv, NEW o \in Ops
      PROVE LET p == ops[o] IN
        /\ p.stage = "order" =>
             \/ Placing(p.on) \/ Ignored(p.on)
             \/ OnBus(LAMBDA m : m.kind \in {"order", "error"} /\ m.id = p.on)
        /\ p.stage = "cancel" /\ p.kind # "wait_cancel" =>
             \/ OnBus(LAMBDA m : \/ p.kind = "cancel" /\ m.kind = "del" /\ m.id = p.on
                                 \/ p.kind = "move" /\ m.kind = "move" /\ m.to = p.to
                                 \/ m.kind = "order" /\ m.id = p.on /\ m.status = "Cancel"
                                 \/ m.kind = "error" /\ m.id = p.on /\ m.of = "Delete")
             \/ p.kind = "move" /\ state[p.on] \notin {"open", "cancelled"}
    BY DEF AnswerUnderWay
  <2>1. PICK p : p = ops[o]
    OBVIOUS
  <2>2. OpKnows(p) /\ OpAnswered(p)
    BY <2>1 DEF IInv, OpsInv
  <2>3. ASSUME p.stage = "order"
        PROVE  \/ Placing(p.on) \/ Ignored(p.on)
               \/ \E k \in DOMAIN bus : bus[k].kind \in {"order", "error"} /\ bus[k].id = p.on
    <3>1. p.on \in used /\ p.on \in Ids /\ ~Heard(p.on) /\ errors[p.on] = {}
      BY <2>2, <2>3 DEF OpKnows, IInv, TypeOK
    <3>2. CASE TakenIn(state[p.on])
      BY <3>1, <3>2 DEF IInv, NewsComplete, Says
    <3>3. CASE state[p.on] = "refused"
      BY <3>1, <3>3 DEF IInv, NewsComplete, Fails
    <3>4. CASE state[p.on] \in {"unknown", "dropped"}
      BY <3>1, <3>4 DEF Ignored
    <3> QED BY <3>1, <3>2, <3>3, <3>4 DEF IInv, TypeOK, TakenIn
  <2>4. ASSUME p.stage = "cancel", p.kind = "cancel"
        PROVE  \E k \in DOMAIN bus : \/ bus[k].kind = "del" /\ bus[k].id = p.on
                                     \/ bus[k].kind = "order" /\ bus[k].id = p.on /\ bus[k].status = "Cancel"
                                     \/ bus[k].kind = "error" /\ bus[k].id = p.on /\ bus[k].of = "Delete"
    BY <2>2, <2>4 DEF OpAnswered, Cancels, Says, Fails
  <2>5. ASSUME p.stage = "cancel", p.kind = "move"
        PROVE  \/ \E k \in DOMAIN bus : \/ bus[k].kind = "move" /\ bus[k].to = p.to
                                        \/ bus[k].kind = "order" /\ bus[k].id = p.on /\ bus[k].status = "Cancel"
                                        \/ bus[k].kind = "error" /\ bus[k].id = p.on /\ bus[k].of = "Delete"
               \/ state[p.on] \notin {"open", "cancelled"}
    BY <2>2, <2>5 DEF OpAnswered, Cancels, Says, Fails
  <2>6. p.stage = "cancel" => p.kind \in {"cancel", "wait_cancel", "move"}
    BY <2>2 DEF OpKnows
  <2> QED BY <2>1, <2>3, <2>4, <2>5, <2>6 DEF OnBus
<1> QED BY <1>1, InvariantCorrect, PTL

LEMMA InitChain == Init => ChainInv
<1> SUFFICES ASSUME Init PROVE ChainInv
  OBVIOUS
<1>1. /\ bus = <<>> /\ DOMAIN bus = {} /\ used = {} /\ pendings = {}
      /\ \A i \in Ids : state[i] = "unknown" /\ rest[i] = 0 /\ ~Heard(i) /\ errors[i] = {}
  BY DEF Init, Heard
<1> QED BY <1>1 DEF ChainInv, EventsChain, StateTold, RefusedOnce, PendingsExact, TakenIn

LEMMA NextChain == IInv /\ IInv' /\ ChainInv /\ [Next]_vars => ChainInv'
<1> SUFFICES ASSUME IInv, IInv', ChainInv, [Next]_vars PROVE ChainInv'
  OBVIOUS
<1>0. StateTold
  BY DEF ChainInv
<1>1. CASE AddArrives
  BY <1>0, <1>1, AddArrivesChain, ExchangeChain
<1>2. CASE DelArrives
  BY <1>0, <1>2, DelArrivesChain, ExchangeChain
<1>3. CASE MoveArrives
  BY <1>0, <1>3, MoveArrivesChain, ExchangeChain
<1>4. CASE Deal
  BY <1>0, <1>4, DealChain, ExchangeChain
<1>5. CASE OrderArrives
  BY <1>5, OrderArrivesChain
<1>6. CASE ErrorArrives
  BY <1>6, ErrorArrivesChain
<1>7. ASSUME NEW o \in Ops, Start(o) PROVE ChainInv'
  BY <1>7, StartChain
<1>8. CASE Close \/ UNCHANGED vars \/ \E o \in Ops : MoveResumed(o) \/ TimeOut(o)
  BY <1>8, SameChain DEF Close, MoveResumed, TimeOut, vars
<1> QED BY <1>1, <1>2, <1>3, <1>4, <1>5, <1>6, <1>7, <1>8 DEF Next, Exchanged, Told

\* The events of an order, heard and on the bus, are one life of the order.
THEOREM ChainCorrect == Spec => []ChainInv
<1>1. Init /\ [][Next]_vars => [](IInv /\ ChainInv)
  BY InitIInv, InitChain, NextIInv, NextChain, PTL
<1> QED BY <1>1, PTL DEF Spec

-----------------------------------------------------------------------------
(* The view *)

\* The event that follows the one that told an order's state tells it, too.
LEMMA TellsOn ==
  ASSUME NEW e, NEW f, NEW st, NEW n, e.rest \in Int, f.rest \in Int,
         Precedes(e, f), Tells(e, st, n), f.rest >= n, TrueOf(f, st)
  PROVE  Tells(f, st, n)
  BY DEF Precedes, Tells, TrueOf

\* A set of numbers has a least one.
LEMMA LeastOne ==
  ASSUME NEW T \in SUBSET Nat, T # {}
  PROVE  \E m \in T : \A t \in T : m <= t
<1>1. IsWellFoundedOn(OpToRel(<, Nat), Nat)
  BY NatLessThanWellFounded, Zenon
<1>2. PICK m \in T : \A t \in T : ~(<<t, m>> \in OpToRel(<, Nat))
  <2> DEFINE R == OpToRel(<, Nat)
  <2>1. IsWellFoundedOn(R, Nat)
    BY <1>1
  <2> HIDE DEF R
  <2>2. T \subseteq Nat
    OBVIOUS
  <2>3. \E m \in T : \A t \in T : ~(<<t, m>> \in R)
    BY <2>1, <2>2, WFMin
  <2> QED BY <2>3, Zenon DEF R
<1>3. ASSUME NEW t \in T PROVE m <= t
  <2>1. t < m => <<t, m>> \in OpToRel(<, Nat)
    BY Zenon DEF OpToRel
  <2>2. ~(t < m)
    BY <1>2, <2>1, Zenon
  <2> QED BY <2>2
<1> QED BY <1>3

\* There is a last message of a kind.
LEMMA LastOne ==
  ASSUME NEW n \in Nat, NEW S \in SUBSET (1..n), S # {}
  PROVE  Max(S) \in S /\ \A k \in S : k <= Max(S)
<1> DEFINE T == {n - k : k \in S}
<1>1. T \in SUBSET Nat /\ T # {}
  <2>1. \A k \in S : k \in 1..n /\ n - k \in Nat
    OBVIOUS
  <2> QED BY <2>1
<1>2. PICK m \in T : \A t \in T : m <= t
  <2> HIDE DEF T
  <2> QED BY <1>1, LeastOne
<1>3. PICK x \in S : m = n - x
  BY <1>2
<1>4. \A k \in S : x >= k
  <2>1. ASSUME NEW k \in S PROVE x >= k
    <3>1. n - x <= n - k
      BY <1>2, <1>3
    <3> QED BY <3>1
  <2> QED BY <2>1
<1>5. \E y \in S : \A k \in S : y >= k
  BY <1>4
<1>6. Max(S) \in S /\ \A k \in S : Max(S) >= k
  BY <1>5 DEF Max
<1> QED BY <1>6

LEMMA ViewFollows == IInv /\ ChainInv => ViewCatchesUp
<1> SUFFICES ASSUME IInv, ChainInv, NEW i \in Ids, state[i] # "dropped"
    PROVE  LET news == {k \in DOMAIN bus : bus[k].kind = "order" /\ bus[k].id = i}
               h == IF news = {} THEN history[i] ELSE Append(history[i], bus[Max(news)])
               refused == \/ "Add" \in errors[i]
                          \/ OnBus(LAMBDA m : m = OrderError(i, "Add"))
           IN  Seen(h, refused) = state[i] /\ SeenRest(h) = rest[i]
  BY DEF ViewCatchesUp
<1> USE DEF ChainInv
<1> DEFINE news == {k \in DOMAIN bus : bus[k].kind = "order" /\ bus[k].id = i}
           h == IF news = {} THEN history[i] ELSE Append(history[i], bus[Max(news)])
           refused == \/ "Add" \in errors[i]
                      \/ \E k \in DOMAIN bus : bus[k] = OrderError(i, "Add")
<1>1. /\ bus \in Seq(Message) /\ history[i] \in Seq(Event) /\ state[i] \in States /\ rest[i] \in Nat
  BY BusType, VolumeAssumption DEF IInv, TypeOK, States
<1>2. refused <=> state[i] = "refused"
  <2>1. \A k \in DOMAIN bus : bus[k] = OrderError(i, "Add") <=> Fails(bus[k], i, "Add")
    BY <1>1, RefusalIs
  <2> QED BY <2>1 DEF IInv, NewsTrue, NewsComplete
<1>3. /\ news \in SUBSET (1..Len(bus)) /\ Len(bus) \in Nat
      /\ \A k \in DOMAIN bus : k \in news <=> Says(bus[k], i)
  BY <1>1 DEF Says
<1>4. CASE ~TakenIn(state[i])
  <2>1. news = {}
    BY <1>3, <1>4 DEF IInv, NewsTrue, TrueOf
  <2>2. history[i] = <<>>
    BY <1>4 DEF IInv, NewsTrue, TrueOf, Heard
  <2>3. rest[i] = 0
    BY <1>1, <1>4 DEF StateTold, TakenIn
  <2>4. state[i] \in {"refused", "unknown"}
    BY <1>1, <1>4 DEF States, TakenIn
  <2>5. h = <<>>
    BY <2>1, <2>2
  <2> HIDE DEF h, refused
  <2>6. Seen(h, refused) = state[i] /\ SeenRest(h) = rest[i]
    BY <1>2, <2>3, <2>4, <2>5 DEF Seen, SeenRest
  <2> QED BY <2>6 DEF h, refused, OnBus
<1>5. CASE TakenIn(state[i])
  <2>1. h # <<>> /\ Tells(Last(h), state[i], rest[i])
    <3>1. CASE news = {}
      <4>1. h = history[i] /\ Heard(i) /\ \A k \in DOMAIN bus : ~Says(bus[k], i)
        BY <1>3, <1>5, <3>1 DEF IInv, NewsComplete
      <4>2. Tells(Last(history[i]), state[i], rest[i])
        BY <1>5, <4>1 DEF StateTold
      <4> HIDE DEF h
      <4> QED BY <4>1, <4>2 DEF Heard
    <3>2. CASE news # {}
      <4> DEFINE M == Max(news)
      <4>1. M \in news /\ \A k \in news : k <= M
        <5> HIDE DEF news
        <5> QED BY <1>3, <3>2, LastOne
      <4>2. M \in DOMAIN bus /\ bus[M] \in Event
        BY <1>1, <4>1, EventRest DEF Says
      <4>3. h = Append(history[i], bus[M])
        BY <3>2
      <4> HIDE DEF h, M, news
      <4>4. h # <<>> /\ Last(h) = bus[M]
        <5>1. /\ h \in Seq(Event) /\ Len(h) = Len(history[i]) + 1 /\ h[Len(history[i]) + 1] = bus[M]
              /\ Len(history[i]) \in Nat
          BY <1>1, <4>2, <4>3, AppendProperties
        <5> QED BY <5>1 DEF Last
      <4>5. Says(bus[M], i) /\ bus[M].rest \in Int /\ bus[M].rest >= rest[i] /\ TrueOf(bus[M], state[i])
        <5>1. Says(bus[M], i)
          BY <1>3, <4>1, <4>2
        <5> QED BY <1>1, <4>2, <5>1, EventRest DEF StateTold, IInv, NewsTrue
      <4>6. Tells(bus[M], state[i], rest[i])
        <5>1. CASE Heard(i) /\ Tells(Last(history[i]), state[i], rest[i])
          <6>1. Precedes(Last(history[i]), bus[M]) /\ Last(history[i]).rest \in Int
            BY <4>2, <4>5, <5>1, LastHeard DEF EventsChain, IInv
          <6> QED BY <4>5, <5>1, <6>1, TellsOn
        <5>2. ASSUME NEW k \in DOMAIN bus, Says(bus[k], i), Tells(bus[k], state[i], rest[i])
              PROVE  Tells(bus[M], state[i], rest[i])
          <6>1. k <= M /\ k \in Int /\ M \in Int
            BY <1>1, <1>3, <4>1, <4>2, <5>2
          <6>2. CASE k < M
            <7>1. Precedes(bus[k], bus[M]) /\ bus[k].rest \in Int
              BY <1>1, <4>2, <4>5, <5>2, <6>2, EventRest DEF EventsChain
            <7> QED BY <4>5, <5>2, <7>1, TellsOn
          <6>3. CASE k = M
            BY <5>2, <6>3
          <6> QED BY <6>1, <6>2, <6>3
        <5> QED BY <1>5, <5>1, <5>2 DEF StateTold
      <4> QED BY <4>4, <4>6
    <3> QED BY <3>1, <3>2
  <2> HIDE DEF h, refused
  <2>2. ~refused
    BY <1>2, <1>5 DEF TakenIn
  <2>3. rest[i] > 0 <=> state[i] \in {"open", "cancelled"}
    BY DEF StateTold
  <2>4. Seen(h, refused) = state[i] /\ SeenRest(h) = rest[i]
    BY <1>1, <1>5, <2>1, <2>2, <2>3 DEF Seen, SeenRest, Tells, TakenIn
  <2> QED BY <2>4 DEF h, refused, OnBus
<1> QED BY <1>4, <1>5

\* What the strategies go by, the pending orders and the History, is the
\* exchange's own state of the orders but for what is still on the bus.
THEOREM ViewCorrect == Spec => []ViewInv
<1>1. IInv /\ ChainInv => ViewInv
  BY ViewFollows DEF IInv, ChainInv, ViewInv
<1> QED BY <1>1, InvariantCorrect, ChainCorrect, PTL

LEMMA ViewInit == Init => View!Init
  BY DEF Init, View!Init, Seen, SeenRest

\* What an order seen through the History may look like
LEMMA ViewType ==
  TypeOK => /\ [i \in Ids |-> Seen(history[i], "Add" \in errors[i])] \in [Ids -> View!States]
            /\ [i \in Ids |-> SeenRest(history[i])] \in [Ids -> 0..MaxVolume]
<1> SUFFICES ASSUME TypeOK, NEW i \in Ids
    PROVE  /\ Seen(history[i], "Add" \in errors[i]) \in View!States
           /\ SeenRest(history[i]) \in 0..MaxVolume
  OBVIOUS
<1>1. Seen(history[i], "Add" \in errors[i]) \in View!States
  BY DEF Seen, View!States, View!Over
<1>2. CASE Heard(i)
  BY <1>1, <1>2, LastHeard DEF SeenRest, Heard
<1>3. CASE ~Heard(i)
  BY <1>1, <1>3, VolumeAssumption DEF SeenRest, Heard
<1> QED BY <1>2, <1>3

LEMMA ViewTypeNext ==
  (TypeOK => /\ [i \in Ids |-> Seen(history[i], "Add" \in errors[i])] \in [Ids -> View!States]
             /\ [i \in Ids |-> SeenRest(history[i])] \in [Ids -> 0..MaxVolume])'
  BY ViewType, PTL

LEMMA ViewOrderArrives ==
  ASSUME IInv, IInv', ChainInv, OrderArrives
  PROVE  View!Next
<1> DEFINE st(n) == Seen(history[n], "Add" \in errors[n])
           left(n) == SeenRest(history[n])
<1>1. SUFFICES ASSUME NEW n \in Ids
      PROVE  \/ /\ st(n) = "unknown" /\ st(n)' = "open" /\ left(n)' \in 1..MaxVolume
             \/ /\ st(n) = "open" /\ left(n)' \in 0..(left(n) - 1)
                /\ st(n)' = IF left(n)' = 0 THEN "filled" ELSE "open"
             \/ st(n) = "open" /\ st(n)' = "cancelled" /\ left(n)' = left(n)
             \/ st(n)' = st(n) /\ left(n)' = left(n)
  <2>1. TypeOK'
    BY DEF IInv
  <2>2. /\ [i \in Ids |-> st(i)'] \in [Ids -> View!States]
        /\ [i \in Ids |-> left(i)'] \in [Ids -> 0..MaxVolume]
    BY <2>1, ViewTypeNext
  <2> HIDE DEF st, left
  <2>3. ASSUME NEW n \in Ids
        PROVE  View!Place(n) \/ View!Fill(n) \/ View!Cancel(n) \/ View!Keep(n)
    BY <1>1 DEF View!Place, View!Fill, View!Cancel, View!Keep, st, left
  <2> QED BY <2>2, <2>3 DEF View!Next, st, left
<1>2. /\ Says(bus[1], bus[1].id) /\ TrueOf(bus[1], state[bus[1].id]) /\ bus[1].id \in Ids
      /\ errors' = errors /\ 1 \in DOMAIN bus /\ bus[1] \in Message
      /\ \A k \in DOMAIN bus : ~(k < 1)
      /\ IF n = bus[1].id THEN Heard(n)' /\ Last(history'[n]) = bus[1] ELSE history'[n] = history[n]
  BY OrderArrivesFacts, HeadOfBus, BusType DEF Delivered, IInv
<1>3. CASE n # bus[1].id
  BY <1>2, <1>3
<1>4. CASE n = bus[1].id
  <2> DEFINE e == bus[1]
  <2>1. /\ e.rest \in 0..MaxVolume /\ e.rest \in Int /\ e.status \in {"Add", "Fill", "Cancel"}
        /\ Says(e, n) /\ TrueOf(e, state[n]) /\ rest[n] \in Nat
    BY <1>2, <1>4, EventRest, VolumeAssumption DEF IInv, TypeOK
  <2>2. "Add" \notin errors[n]
    BY <2>1 DEF IInv, NewsTrue, TrueOf, TakenIn
  <2>3. /\ Heard(n) => Precedes(Last(history[n]), e)
        /\ Heard(n) \/ Opens(e)
        /\ e.status = "Cancel" => Heard(n) /\ Last(history[n]).rest = e.rest
    BY <1>2, <2>1 DEF ChainInv, EventsChain
  <2> HIDE DEF e
  <2>4. /\ history'[n] # <<>> /\ Last(history'[n]) = e /\ "Add" \notin errors'[n]
    BY <1>2, <1>4, <2>2 DEF Heard, e
  <2>5. /\ left(n)' = e.rest
        /\ st(n)' = IF e.status = "Cancel" THEN "cancelled" ELSE IF e.rest = 0 THEN "filled" ELSE "open"
    BY <2>4 DEF Seen, SeenRest
  <2>6. CASE ~Heard(n)
    <3>1. st(n) = "unknown"
      BY <2>2, <2>6 DEF Seen, Heard
    <3>2. e.status = "Add" /\ e.rest > 0
      BY <2>3, <2>6 DEF Opens
    <3> HIDE DEF st, left
    <3> QED BY <2>1, <2>5, <3>1, <3>2
  <2>7. CASE Heard(n)
    <3>1. /\ Last(history[n]).rest \in Int /\ Last(history[n]).rest >= 0
          /\ Last(history[n]).rest >= rest[n] /\ Precedes(Last(history[n]), e)
      BY <2>3, <2>7, LastHeard DEF ChainInv, StateTold, IInv
    <3>2. Last(history[n]).rest > 0
      <4>1. CASE e.status = "Cancel"
        <5>1. state[n] = "cancelled"
          BY <2>1, <4>1 DEF TrueOf
        <5>2. rest[n] > 0
          BY <5>1 DEF ChainInv, StateTold
        <5> QED BY <2>1, <3>1, <5>2
      <4>2. CASE e.status = "Fill"
        BY <2>1, <3>1, <4>2 DEF Precedes
      <4> QED BY <2>1, <3>1, <4>1, <4>2 DEF Precedes
    <3>3. left(n) = Last(history[n]).rest /\ st(n) = "open"
      BY <2>2, <2>7, <3>1, <3>2 DEF Seen, SeenRest, Heard, Precedes
    <3> HIDE DEF st, left
    <3>4. CASE e.status = "Cancel"
      BY <2>3, <2>5, <3>3, <3>4
    <3>5. CASE e.status = "Fill"
      <4>1. e.rest < left(n) /\ left(n) \in Int
        BY <3>1, <3>3, <3>5 DEF Precedes
      <4> QED BY <2>1, <2>5, <3>3, <3>5, <4>1
    <3> QED BY <2>1, <3>1, <3>4, <3>5 DEF Precedes
  <2> QED BY <2>6, <2>7
<1> QED BY <1>3, <1>4

LEMMA ViewErrorArrives ==
  ASSUME IInv, IInv', ChainInv, ErrorArrives
  PROVE  View!Next
<1> DEFINE st(n) == Seen(history[n], "Add" \in errors[n])
           left(n) == SeenRest(history[n])
<1>1. SUFFICES ASSUME NEW n \in Ids
      PROVE  \/ st(n) = "unknown" /\ st(n)' = "refused" /\ left(n)' = 0
             \/ st(n)' = st(n) /\ left(n)' = left(n)
  <2>1. TypeOK'
    BY DEF IInv
  <2>2. /\ [i \in Ids |-> st(i)'] \in [Ids -> View!States]
        /\ [i \in Ids |-> left(i)'] \in [Ids -> 0..MaxVolume]
    BY <2>1, ViewTypeNext
  <2> HIDE DEF st, left
  <2>3. ASSUME NEW n \in Ids
        PROVE  View!Place(n) \/ View!Fill(n) \/ View!Cancel(n) \/ View!Keep(n)
    BY <1>1 DEF View!Place, View!Fill, View!Cancel, View!Keep, st, left
  <2> QED BY <2>2, <2>3 DEF View!Next, st, left
<1>2. PICK of \in {"Add", "Delete"} : of = bus[1].of /\ Fails(bus[1], bus[1].id, of)
  BY ErrorArrivesFacts
<1>3. /\ history' = history /\ 1 \in DOMAIN bus
      /\ errors'[n] = IF n = bus[1].id THEN errors[n] \cup {of} ELSE errors[n]
  BY <1>2, ErrorArrivesFacts, HeadOfBus DEF Delivered
<1>4. CASE "Add" \in errors'[n] <=> "Add" \in errors[n]
  BY <1>3, <1>4 DEF Seen
<1>5. CASE n = bus[1].id /\ of = "Add"
  <2>1. state[n] = "refused" /\ "Add" \notin errors[n]
    BY <1>2, <1>3, <1>5 DEF IInv, NewsTrue, ChainInv, RefusedOnce
  <2>2. history[n] = <<>>
    BY <2>1 DEF IInv, NewsTrue, TrueOf, TakenIn, Heard
  <2>3. "Add" \in errors'[n] /\ history'[n] = <<>>
    BY <1>3, <1>5, <2>2
  <2> QED BY <2>1, <2>2, <2>3 DEF Seen, SeenRest
<1> QED BY <1>3, <1>4, <1>5

LEMMA ViewNext ==
  ASSUME IInv, IInv', ChainInv, [Next]_vars
  PROVE  \/ View!Next
         \/ UNCHANGED <<[i \in Ids |-> Seen(history[i], "Add" \in errors[i])],
                       [i \in Ids |-> SeenRest(history[i])]>>
<1>1. CASE OrderArrives
  BY <1>1, ViewOrderArrives
<1>2. CASE ErrorArrives
  BY <1>2, ViewErrorArrives
<1>3. CASE history' = history /\ errors' = errors
  BY <1>3
<1>4. Exchanged \/ Deal => history' = history /\ errors' = errors
  BY DEF Exchanged, AddArrives, DelArrives, MoveArrives, Deal, Kept
<1>5. ASSUME NEW o \in Ops, Start(o) \/ MoveResumed(o) \/ TimeOut(o)
      PROVE  history' = history /\ errors' = errors
  BY <1>5 DEF Start, AddOrder, WaitOrder, CancelOrder, WaitCancel, MoveOrder, MoveResumed, TimeOut, User
<1>6. Close \/ UNCHANGED vars => history' = history /\ errors' = errors
  BY DEF Close, vars
<1> QED BY <1>1, <1>2, <1>3, <1>4, <1>5, <1>6 DEF Next, Told

\* Seen through the History, late but one event at a time, the exchange is an
\* exchange again: an order is told to be placed once, then only to shrink, and
\* it is over once it was told to be.
THEOREM ViewRefines == Spec => ViewImplementsExchange
<1>1. Init => View!Init
  BY ViewInit
<1>2. IInv /\ IInv' /\ ChainInv /\ [Next]_vars =>
        [View!Next]_<<[i \in Ids |-> Seen(history[i], "Add" \in errors[i])],
                      [i \in Ids |-> SeenRest(history[i])]>>
  BY ViewNext
<1>3. Spec => Init /\ [][Next]_vars /\ []IInv /\ []ChainInv
  BY InvariantCorrect, ChainCorrect, PTL DEF Spec
<1> QED BY <1>1, <1>2, <1>3, PTL DEF ViewImplementsExchange, View!Spec
=============================================================================
