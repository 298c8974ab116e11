--------------------------- MODULE EventLoop_proofs ---------------------------
(****************************************************************************)
(* Proofs about EventLoop, for every latency, number of sources, set of     *)
(* operations, durations and bounds.  IInv (EventLoop) is inductive; the    *)
(* properties follow from it.                                               *)
(****************************************************************************)
EXTENDS EventLoop, FiniteSets, TLAPS, WellFoundedInduction, FiniteSetTheorems,
        SequenceTheorems

-----------------------------------------------------------------------------
(* Facts about numbers and sequences *)

\* Every non-empty set of naturals has a least element.  The sets of smaller
\* elements are finite, and strict inclusion of finite sets is well-founded.
LEMMA LeastNat ==
  ASSUME NEW T, T \subseteq Nat, T # {}
  PROVE  \E x \in T : \A y \in T : x <= y
<1> DEFINE Below(x) == {y \in T : y < x}
           D == {Below(x) : x \in T}
<1>1. \A x \in T : IsFiniteSet(Below(x))
  <2>1. SUFFICES ASSUME NEW x \in T PROVE IsFiniteSet(Below(x))
    OBVIOUS
  <2>2. x \in Int
    <3>1. \A y \in T : y \in Nat
      OBVIOUS
    <3> QED BY <3>1
  <2>3. Below(x) \subseteq 0..x
    <3>1. \A y \in T : y \in Nat
      OBVIOUS
    <3>2. \A y \in T : y < x => y \in 0..x
      BY <3>1
    <3> QED BY <3>2
  <2>4. IsFiniteSet(0..x)
    BY <2>2, FS_Interval
  <2>5. QED BY <2>3, <2>4, FS_Subset
<1>2. D \subseteq FiniteSubsetsOf(T) /\ D # {}
  BY <1>1 DEF FiniteSubsetsOf
<1>3. IsWellFoundedOn(StrictSubsetOrdering(T), FiniteSubsetsOf(T))
  BY FS_StrictSubsetOrderingWellFounded
<1>4. PICK d \in D : \A e \in D : ~ (<<e, d>> \in StrictSubsetOrdering(T))
  <2> HIDE DEF D
  <2> QED BY <1>2, <1>3, WFMin
<1>5. PICK x \in T : d = Below(x)
  OBVIOUS
<1>6. ASSUME NEW y \in T, y < x PROVE FALSE
  <2>1. Below(y) \subseteq Below(x)
    <3>1. \A z \in T : z \in Nat
      OBVIOUS
    <3>2. \A z \in T : z < y => z < x
      BY <1>6, <3>1
    <3> QED BY <3>2
  <2>2. y \in Below(x) /\ y \notin Below(y)
    BY <1>6
  <2>3. <<Below(y), Below(x)>> \in StrictSubsetOrdering(T)
    BY <2>1, <2>2 DEF StrictSubsetOrdering
  <2> QED BY <2>3, <1>4, <1>5
<1> QED BY <1>6

\* MarketSimulator::datetime is well defined: some source has the least time.
LEMMA LeastFeed ==
  ASSUME NEW f \in [Sources -> Nat]
  PROVE  LET m == CHOOSE t \in {f[s] : s \in Sources} :
                      \A s \in Sources : t <= f[s]
         IN  m \in {f[s] : s \in Sources} /\ \A s \in Sources : m <= f[s]
<1>1. {f[s] : s \in Sources} \subseteq Nat /\ {f[s] : s \in Sources} # {}
  BY SourcesAssumption
<1>2. \E t \in {f[s] : s \in Sources} : \A u \in {f[s] : s \in Sources} : t <= u
  BY <1>1, LeastNat
<1>3. \E t \in {f[s] : s \in Sources} : \A s \in Sources : t <= f[s]
  BY <1>2
<1> QED BY <1>3

\* Head and Tail, by index.
LEMMA TailFacts ==
  ASSUME NEW S, NEW q \in Seq(S), q # <<>>
  PROVE  /\ Head(q) = q[1] /\ 1 \in DOMAIN q /\ Head(q) \in S
         /\ Tail(q) \in Seq(S)
         /\ \A i \in DOMAIN Tail(q) : i + 1 \in DOMAIN q /\ Tail(q)[i] = q[i + 1]
         /\ \A i \in DOMAIN q : i # 1 => i - 1 \in DOMAIN Tail(q)
                                         /\ Tail(q)[i - 1] = q[i]
BY HeadTailProperties, LenProperties

\* Append, by index.
LEMMA AppendFacts ==
  ASSUME NEW S, NEW q \in Seq(S), NEW e \in S
  PROVE  /\ Append(q, e) \in Seq(S)
         /\ \A i \in DOMAIN q : i \in DOMAIN Append(q, e) /\ Append(q, e)[i] = q[i]
         /\ \A i \in DOMAIN Append(q, e) :
              \/ i \in DOMAIN q
              \/ /\ Append(q, e)[i] = e
                 /\ \A j \in DOMAIN Append(q, e) : j <= i
         /\ \E i \in DOMAIN Append(q, e) : Append(q, e)[i] = e
BY AppendProperties, LenProperties

\* Concatenation with n copies of an element, by index.
LEMMA CopiesFacts ==
  ASSUME NEW S, NEW q \in Seq(S), NEW e \in S, NEW n \in Nat
  PROVE  LET r == q \o [i \in 1..n |-> e] IN
         /\ r \in Seq(S)
         /\ \A i \in DOMAIN q : i \in DOMAIN r /\ r[i] = q[i]
         /\ \A i \in DOMAIN r :
              \/ i \in DOMAIN q
              \/ r[i] = e /\ \A j \in DOMAIN q : j < i
<1> DEFINE c == [i \in 1..n |-> e]
<1>1. c \in Seq(S) /\ Len(c) = n
  BY IsASeq
<1>2. q \o c \in Seq(S) /\ Len(q \o c) = Len(q) + n
      /\ \A i \in 1..(Len(q) + n) :
            (q \o c)[i] = IF i <= Len(q) THEN q[i] ELSE c[i - Len(q)]
  BY <1>1, ConcatProperties
<1>3. DOMAIN q = 1..Len(q) /\ DOMAIN (q \o c) = 1..(Len(q) + n) /\ Len(q) \in Nat
  BY <1>2, LenProperties
<1> QED BY <1>2, <1>3
-----------------------------------------------------------------------------
(* Type correctness *)

\* The market's clock is a natural number and the least of the feeds.
LEMMA MarketTimeFacts ==
  ASSUME TypeOK
  PROVE  MarketTime \in Nat /\ \A s \in Sources : MarketTime <= feed[s]
BY LeastFeed DEF TypeOK, MarketTime

\* So is the clock of the bus, which is what process_market looks at.
LEMMA RootTimeType ==
  ASSUME TypeOK
  PROVE  RootTime \in Nat
<1>1. bus # <<>> => Head(bus) \in Entry
  BY TailFacts DEF TypeOK
<1>2. BusDue => Head(bus).at \in Nat
  BY <1>1 DEF BusDue, Entry
<1> QED BY <1>2, MarketTimeFacts DEF RootTime

LEMMA TypeStep ==
  ASSUME TypeOK, [Next]_vars
  PROVE  TypeOK'
<1> USE DEF TypeOK
<1> DEFINE T == Ops \cup {NoOp}
<1>1. RootTime \in Nat
  BY RootTimeType
<1>2. ASSUME NEW t \in Nat
      PROVE  /\ Stamped("data", NoOp, t) \in Entry
             /\ \A o \in Ops : /\ Stamped("request", o, t) \in Entry
                               /\ Stamped("reply", o, t) \in Entry
  BY DelayAssumption, <1>2 DEF Stamped, Entry
<1>3. ASSUME NEW o \in T, NEW t \in Nat
      PROVE  Scheduled(t, o) \in Task
  BY <1>3 DEF Scheduled, Task
<1>4. \A t \in tasks : t.at \in Nat /\ t.op \in T
  BY DEF Task
<1>5. bus # <<>> => /\ Head(bus) \in Entry /\ Tail(bus) \in Seq(Entry)
                    /\ Head(bus).kind = "request" => Head(bus).op \in Ops
  BY TailFacts DEF Entry
<1>a. CASE RunTask
  <2>1. PICK t \in tasks :
          /\ now' = Max2(now, t.at)
          /\ tasks' = tasks \ {t}
          /\ IF t.op \in pending
             THEN /\ pending' = pending \ {t.op}
                  /\ outcome' = [outcome EXCEPT ![t.op] = "timeout"]
             ELSE UNCHANGED <<pending, outcome>>
    BY <1>a DEF RunTask, Executed, Waiting
  <2>2. now' \in Nat
    BY <2>1, <1>4 DEF Max2
  <2>3. pending' \subseteq Ops /\ outcome' \in [Ops -> Outcomes]
    BY <2>1 DEF Outcomes
  <2> QED BY <1>a, <2>1, <2>2, <2>3 DEF RunTask
<1>b. CASE DeliverRequest
  <2>1. Head(bus).op \in Ops /\ Tail(bus) \in Seq(Entry)
    BY <1>b, <1>5 DEF DeliverRequest, BusDue
  <2>2. now' \in Nat
    BY <1>b, <1>1 DEF DeliverRequest
  <2>3. /\ Stamped("reply", Head(bus).op, now') \in Entry
        /\ Stamped("data", NoOp, now') \in Entry
    BY <2>1, <2>2, <1>2
  <2>4. \A n \in 0..MaxPush :
          Append(Tail(bus), Stamped("reply", Head(bus).op, now'))
              \o [i \in 1..n |-> Stamped("data", NoOp, now')] \in Seq(Entry)
    <3>1. Append(Tail(bus), Stamped("reply", Head(bus).op, now')) \in Seq(Entry)
      BY <2>1, <2>3, AppendFacts
    <3>2. 0..MaxPush \subseteq Nat
      BY BoundsAssumption
    <3> QED BY <3>1, <3>2, <2>3, CopiesFacts
  <2>5. bus' \in Seq(Entry)
    BY <1>b, <2>1, <2>4 DEF DeliverRequest
  <2>6. answered' \subseteq Ops
    BY <1>b, <2>1 DEF DeliverRequest
  <2> QED BY <1>b, <2>2, <2>5, <2>6 DEF DeliverRequest
<1>c. CASE DeliverCallback
  <2>1. bus # <<>> /\ Tail(bus) \in Seq(Entry)
    BY <1>c, <1>5 DEF DeliverCallback, BusDue
  <2>2. PICK over \in SUBSET pending :
          /\ pending' = pending \ over
          /\ outcome' = [o \in Ops |-> IF o \in over THEN "success" ELSE outcome[o]]
          /\ tasks' = {t \in tasks : t.op \notin over}
    BY <1>c DEF DeliverCallback, Served, TasksWithout
  <2>3. outcome' \in [Ops -> Outcomes]
    BY <2>2 DEF Outcomes
  <2> QED BY <1>c, <1>1, <2>1, <2>2, <2>3 DEF DeliverCallback
<1>d. CASE ReadRecord
  <2>1. PICK s \in Sources, n \in 0..MaxPush, gap \in Gaps :
          /\ ~Exhausted(s)
          /\ bus' = bus \o [i \in 1..n |-> Stamped("data", NoOp, now')]
          /\ left' = [left EXCEPT ![s] = @ - 1]
          /\ feed' = IF left[s] > 1 THEN [feed EXCEPT ![s] = @ + gap] ELSE feed
    BY <1>d DEF ReadRecord
  <2>2. n \in Nat /\ gap \in Nat
    BY BoundsAssumption
  <2>3. now' \in Nat
    BY <1>d, <1>1 DEF ReadRecord
  <2>4. Stamped("data", NoOp, now') \in Entry
    BY <2>3, <1>2
  <2>5. bus' \in Seq(Entry)
    BY <2>1, <2>2, <2>4, CopiesFacts
  <2>6. left' \in [Sources -> Nat] /\ feed' \in [Sources -> Nat]
    BY <2>1, <2>2 DEF Exhausted
  <2> QED BY <1>d, <2>3, <2>5, <2>6 DEF ReadRecord
<1>e. CASE Eof
  BY <1>e, <1>1 DEF Eof
<1>f. CASE SetTimer
  <2>1. PICK t \in 0..(now + MaxReach) : tasks' = tasks \cup {Scheduled(t, NoOp)}
    BY <1>f DEF SetTimer
  <2>2. t \in Nat
    BY BoundsAssumption
  <2>3. Scheduled(t, NoOp) \in Task
    BY <2>2, <1>3
  <2> QED BY <1>f, <2>1, <2>3 DEF SetTimer, UserTurn
<1>g. CASE CancelTimer
  BY <1>g DEF CancelTimer, UserTurn
<1>h. CASE StartOp
  <2>1. PICK o \in Ops, w \in Waits \cup {Unlimited} :
          /\ IF w = Unlimited
             THEN UNCHANGED <<tasks, taskId>>
             ELSE /\ taskId < MaxTasks
                  /\ tasks' = tasks \cup {Scheduled(RootTime + w, o)}
                  /\ taskId' = taskId + 1
          /\ \/ bus' = Append(bus, Stamped("request", o, now))
             \/ UNCHANGED bus
          /\ pending' = pending \cup {o}
          /\ started' = [started EXCEPT ![o] = now]
          /\ budget' = [budget EXCEPT ![o] = w]
    BY <1>h DEF StartOp
  <2>2. w # Unlimited => RootTime + w \in Nat
    BY <1>1, WaitsAssumption
  <2>3. tasks' \subseteq Task /\ taskId' \in Nat
    BY <2>1, <2>2, <1>3
  <2>4. bus' \in Seq(Entry)
    <3>1. Stamped("request", o, now) \in Entry
      BY <1>2
    <3>2. Append(bus, Stamped("request", o, now)) \in Seq(Entry)
      BY <3>1, AppendFacts
    <3> QED BY <2>1, <3>2
  <2> QED BY <1>h, <2>1, <2>3, <2>4 DEF StartOp, UserTurn
<1>i. CASE CloseOp
  BY <1>i DEF CloseOp, UserTurn, TasksWithout, Outcomes
<1>j. CASE EndPoll
  BY <1>j DEF EndPoll
<1>k. CASE UNCHANGED vars
  BY <1>k DEF vars
<1> QED
  BY <1>a, <1>b, <1>c, <1>d, <1>e, <1>f, <1>g, <1>h, <1>i, <1>j, <1>k
     DEF Next, ProcessMarket, UserCode, Finished

LEMMA TypeInit ==
  ASSUME Init
  PROVE  TypeOK
<1>1. feed \in [Sources -> Nat] /\ left \in [Sources -> Nat]
  BY BoundsAssumption DEF Init
<1>2. MarketTime \in Nat
  BY <1>1, LeastFeed DEF MarketTime
<1> QED BY <1>1, <1>2 DEF Init, TypeOK, Outcomes

\* Every variable keeps its type in every behaviour of the loop.
THEOREM TypeCorrect == Spec => []TypeOK
<1>1. Init => TypeOK
  BY TypeInit
<1>2. TypeOK /\ [Next]_vars => TypeOK'
  BY TypeStep
<1> QED BY <1>1, <1>2, PTL DEF Spec

-----------------------------------------------------------------------------
(* The inductive invariant *)

\* process_market's comparison clock lies between the present and everything
\* that is still queued.
LEMMA RootTimeFacts ==
  ASSUME IInv
  PROVE  /\ RootTime \in Nat /\ now <= RootTime /\ RootTime <= MarketTime
         /\ \A i \in DOMAIN bus : RootTime <= bus[i].at
         /\ BusDue => Head(bus) = bus[1] /\ 1 \in DOMAIN bus /\ RootTime = bus[1].at
         /\ ~BusDue => /\ RootTime = MarketTime
                       /\ \A i \in DOMAIN bus : MarketTime < bus[i].at
<1>1. TypeOK /\ BusSorted /\ MarketTime \in Nat /\ now \in Nat /\ now <= MarketTime
  BY MarketTimeFacts DEF IInv, TypeOK
<1>2. \A i \in DOMAIN bus : bus[i] \in Entry /\ i >= 1 /\ i \in Nat
  BY <1>1 DEF TypeOK
<1>3. \A i \in DOMAIN bus : bus[i].at \in Nat /\ now <= bus[i].at
  BY <1>2 DEF IInv, EntryInv, Entry
<1>4. bus # <<>> => Head(bus) = bus[1] /\ 1 \in DOMAIN bus
  BY <1>1, TailFacts DEF TypeOK
<1>5. \A i \in DOMAIN bus : bus[1].at <= bus[i].at
  <2>1. SUFFICES ASSUME NEW i \in DOMAIN bus PROVE bus[1].at <= bus[i].at
    OBVIOUS
  <2>2. CASE i = 1
    BY <2>2, <1>3
  <2>3. CASE i # 1
    <3>1. 1 \in DOMAIN bus /\ 1 < i
      BY <2>3, <1>2, <1>1, LenProperties DEF TypeOK
    <3> QED BY <3>1, <1>1 DEF BusSorted
  <2> QED BY <2>2, <2>3
<1>6. \A i \in DOMAIN bus : bus # <<>>
  OBVIOUS
<1> HIDE DEF IInv
<1>7. CASE BusDue
  <2>1. bus # <<>> /\ Head(bus).at <= MarketTime /\ RootTime = Head(bus).at
    BY <1>7 DEF BusDue, RootTime
  <2> QED BY <2>1, <1>1, <1>3, <1>4, <1>5, <1>7
<1>8. CASE ~BusDue
  <2>1. RootTime = MarketTime
    BY <1>8 DEF RootTime
  <2>2. \A i \in DOMAIN bus : MarketTime < bus[i].at
    <3>1. SUFFICES ASSUME NEW i \in DOMAIN bus PROVE MarketTime < bus[i].at
      OBVIOUS
    <3>2. bus # <<>> /\ ~(bus[1].at <= MarketTime)
      BY <1>8, <1>4, <1>6 DEF BusDue
    <3> QED BY <3>2, <1>1, <1>3, <1>4, <1>5
  <2> QED BY <2>1, <2>2, <1>1, <1>3, <1>8
<1> QED BY <1>7, <1>8

\* The types of the components, as the steps below need them.
LEMMA ComponentTypes ==
  ASSUME TypeOK
  PROVE  /\ now \in Nat /\ taskId \in Nat
         /\ \A t \in tasks : /\ t.at \in Nat /\ t.born \in Nat
                             /\ t.op \in Ops \cup {NoOp}
         /\ \A i \in DOMAIN bus : /\ i \in Nat /\ bus[i] \in Entry
                                  /\ bus[i].at \in Nat /\ bus[i].sent \in Nat
                                  /\ bus[i].op \in Ops \cup {NoOp}
                                  /\ bus[i].kind # "data" => bus[i].op \in Ops
                                  /\ bus[i].kind = "data" => bus[i].op = NoOp
         /\ \A o \in Ops : /\ started[o] \in Nat
                           /\ budget[o] # Unlimited => budget[o] \in Nat
<1>1. now \in Nat /\ taskId \in Nat
  BY DEF TypeOK
<1>2. \A t \in tasks : t.at \in Nat /\ t.born \in Nat /\ t.op \in Ops \cup {NoOp}
  BY DEF TypeOK, Task
<1>3. \A i \in DOMAIN bus : i \in Nat /\ bus[i] \in Entry
  BY DEF TypeOK
<1>4. \A e \in Entry : /\ e.at \in Nat /\ e.sent \in Nat
                       /\ e.op \in Ops \cup {NoOp}
                       /\ e.kind # "data" => e.op \in Ops
                       /\ e.kind = "data" => e.op = NoOp
  BY DEF Entry
<1>5. \A o \in Ops : /\ started[o] \in Nat
                     /\ budget[o] # Unlimited => budget[o] \in Nat
  BY WaitsAssumption DEF TypeOK
<1> QED BY <1>1, <1>2, <1>3, <1>4, <1>5

\* A timeout that fires cannot overtake an answer that is on its way: the
\* answer's stamp bounds RootTime, and RootTime bounds the Task.
LEMMA RunTaskStep ==
  ASSUME IInv, TypeOK', RunTask
  PROVE  IInv'
<1>1. PICK t \in tasks :
        /\ t.at <= RootTime
        /\ \A u \in tasks : Precedes(t, u)
        /\ now' = Max2(now, t.at)
        /\ tasks' = tasks \ {t}
        /\ IF t.op \in pending
           THEN /\ pending' = pending \ {t.op}
                /\ outcome' = [outcome EXCEPT ![t.op] = "timeout"]
           ELSE UNCHANGED <<pending, outcome>>
  BY DEF RunTask, Executed, Waiting
<1>2. /\ feed' = feed /\ bus' = bus /\ started' = started /\ budget' = budget
      /\ answered' = answered /\ phase' = "poll"
  BY DEF RunTask, Executed, Waiting
<1>3. TypeOK /\ BusSorted
  BY DEF IInv
<1> USE <1>2
<1>4. RootTime \in Nat /\ now \in Nat /\ t.at \in Nat /\ DelayAssumption
  BY <1>3, ComponentTypes, RootTimeFacts, DelayAssumption
<1>5. now <= now' /\ t.at <= now' /\ now' <= RootTime /\ now' \in Nat
  BY <1>1, <1>4, RootTimeFacts DEF Max2
<1>6. MarketTime' = MarketTime /\ MarketTime \in Nat
  BY <1>3, MarketTimeFacts DEF MarketTime
<1>7. now' <= MarketTime'
  BY <1>4, <1>5, <1>6, RootTimeFacts
<1>8. \A o \in Ops : /\ outcome'[o] = IF o = t.op /\ o \in pending THEN "timeout"
                                                                   ELSE outcome[o]
                     /\ o \in pending' <=> o \in pending /\ o # t.op
                     /\ Known(o) => Known(o)'
  <2>1. pending \subseteq Ops /\ outcome \in [Ops -> Outcomes]
    BY <1>3 DEF TypeOK
  <2> QED BY <2>1, <1>1, OpsAssumption DEF Known
<1>9. t.op \in Ops => /\ t.op \in pending /\ budget[t.op] \in Nat
                      /\ started[t.op] + budget[t.op] <= t.at
                      /\ budget[t.op] # Unlimited
                      /\ \A u \in tasks : u.op = t.op => u = t
  BY <1>3, ComponentTypes, OpsAssumption DEF IInv, TaskInv
<1>10. \A i \in DOMAIN bus : EntryInv(bus[i])'
  <2>1. SUFFICES ASSUME NEW i \in DOMAIN bus PROVE EntryInv(bus[i])'
    OBVIOUS
  <2>2. EntryInv(bus[i]) /\ now' <= bus[i].at
    BY <1>4, <1>5, <1>3, ComponentTypes, RootTimeFacts DEF IInv
  <2>3. bus[i].at \in Nat /\ bus[i].sent \in Nat /\ bus[i].sent <= now'
    BY <2>2, <1>3, <1>4, <1>5, ComponentTypes DEF EntryInv
  <2>4. bus[i].kind # "data" => bus[i].op \in Ops
    BY <1>3, ComponentTypes
  <2>5. bus[i].kind = "request" /\ outcome'[bus[i].op] = "timeout"
          => budget[bus[i].op] # Unlimited /\ budget[bus[i].op] <= 2 * Delay
    <3>1. CASE bus[i].op = t.op
      <4>1. ASSUME bus[i].kind = "request"
            PROVE  budget[t.op] <= 2 * Delay /\ budget[t.op] # Unlimited
        <5>1. t.op \in Ops /\ started[t.op] \in Nat
          BY <4>1, <3>1, <2>4, <1>3, ComponentTypes
        <5>2. bus[i].at = started[t.op] + Delay
          BY <4>1, <3>1, <2>2 DEF EntryInv
        <5>3. t.at <= bus[i].at
          BY <1>4, <1>5, <2>2, <2>3
        <5> QED BY <5>1, <5>2, <5>3, <1>9, <1>4
      <4> QED BY <4>1, <3>1
    <3>2. CASE bus[i].op # t.op
      BY <3>2, <2>2, <2>4, <1>8 DEF EntryInv
    <3> QED BY <3>1, <3>2
  <2> QED BY <2>2, <2>3, <2>4, <2>5, <1>8 DEF EntryInv, Known
<1>11. \A u \in tasks' : TaskInv(u)'
  <2>1. SUFFICES ASSUME NEW u \in tasks, u # t PROVE TaskInv(u)'
    BY <1>1
  <2>2. TaskInv(u) /\ u.at \in Nat /\ u.born \in Nat /\ u.op \in Ops \cup {NoOp}
    BY <1>3, ComponentTypes DEF IInv
  <2>3. t.at <= u.at /\ now <= Due(u)
    BY <1>1, <2>2, <1>4 DEF Precedes, TaskInv
  <2>4. now' <= Due(u)' /\ u.born <= now'
    BY <2>2, <2>3, <1>1, <1>4, <1>5 DEF Due, Max2, TaskInv
  <2>5. u.op # NoOp => u.op \in pending'
    BY <2>1, <2>2, <1>8, <1>9, OpsAssumption DEF TaskInv
  <2> QED BY <2>2, <2>4, <2>5, <1>1 DEF TaskInv
<1>12. \A o \in Ops : OpInv(o)'
  <2>1. SUFFICES ASSUME NEW o \in Ops PROVE OpInv(o)'
    OBVIOUS
  <2>2. OpInv(o) /\ started[o] \in Nat /\ started[o] <= now'
    BY <1>3, <1>4, <1>5, ComponentTypes DEF IInv, OpInv
  <2>3. o \in pending' => /\ outcome'[o] = "none"
                          /\ budget[o] # Unlimited => \E u \in tasks' : u.op = o
    BY <2>2, <1>1, <1>8 DEF OpInv
  <2>4. o \in answered /\ outcome'[o] = "timeout"
          => budget[o] # Unlimited /\ budget[o] <= 2 * Delay
    <3>1. CASE o = t.op /\ o \in answered
      <4>1. PICK i \in DOMAIN bus : bus[i].kind = "reply" /\ bus[i].op = o
        BY <3>1, <2>2, <1>9 DEF OpInv
      <4>2. bus[i].at = started[o] + Delay + Delay
        BY <4>1 DEF IInv, EntryInv
      <4>3. t.at <= bus[i].at /\ bus[i].at \in Nat
        BY <1>1, <1>3, <1>4, ComponentTypes, RootTimeFacts
      <4> QED BY <3>1, <4>2, <4>3, <2>2, <1>4, <1>9
    <3>2. CASE o # t.op
      BY <3>2, <2>2, <1>8 DEF OpInv
    <3> QED BY <3>1, <3>2
  <2> QED BY <2>2, <2>3, <2>4, <1>8 DEF OpInv, Known
<1> QED BY <1>7, <1>3, <1>10, <1>11, <1>12 DEF IInv, BusSorted, EverythingDueDone

\* What handing over the front of the bus has in common for requests and
\* callbacks: the clock moves to the front's stamp, which nothing precedes.
LEMMA FrontFacts ==
  ASSUME IInv, ~TaskDue, BusDue, now' = RootTime, feed' = feed, tasks' \subseteq tasks
  PROVE  /\ bus # <<>> /\ Head(bus) = bus[1] /\ 1 \in DOMAIN bus /\ EntryInv(bus[1])
         /\ now' \in Nat /\ now <= now' /\ now' = bus[1].at
         /\ MarketTime' = MarketTime /\ now' <= MarketTime'
         /\ \A i \in DOMAIN bus : now' <= bus[i].at
         /\ \A t \in tasks' : t.born <= now' /\ now' <= Due(t)'
<1>1. TypeOK
  BY DEF IInv
<1>2. MarketTime' = MarketTime
  BY DEF MarketTime
<1>3. ASSUME NEW t \in tasks' PROVE t.born <= now' /\ now' <= Due(t)'
  <2>1. t \in tasks /\ TaskInv(t) /\ t.at \in Nat /\ t.born \in Nat /\ now \in Nat
    BY <1>1, <1>3, ComponentTypes DEF IInv
  <2>2. now' < t.at
    BY <2>1, RootTimeFacts DEF TaskDue
  <2>3. t.born <= now'
    BY <2>1, RootTimeFacts DEF TaskInv
  <2> QED BY <2>1, <2>2, <2>3, RootTimeFacts DEF Due, Max2
<1>4. bus # <<>>
  BY DEF BusDue
<1>5. 1 \in DOMAIN bus /\ EntryInv(bus[1])
  BY RootTimeFacts DEF IInv
<1> QED BY <1>1, <1>2, <1>3, <1>4, <1>5, RootTimeFacts

\* An entry of the bus keeps its invariant as long as the clock does not pass
\* it and what is recorded about its operation stands.
LEMMA EntryKept ==
  ASSUME TypeOK, TypeOK', NEW e \in Entry, EntryInv(e), now <= now', now' <= e.at,
         e.op \in Ops => /\ started'[e.op] = started[e.op]
                         /\ budget'[e.op] = budget[e.op]
                         /\ Known(e.op) => Known(e.op)'
                         /\ outcome'[e.op] = "timeout" => outcome[e.op] = "timeout"
  PROVE  EntryInv(e)'
<1>1. e.at \in Nat /\ e.sent \in Nat /\ (e.kind # "data" => e.op \in Ops)
  BY DEF Entry
<1>2. now \in Nat /\ now' \in Nat
  BY DEF TypeOK
<1>3. e.at = e.sent + Delay /\ e.sent <= now'
  BY <1>1, <1>2 DEF EntryInv
<1>4. e.kind = "request" => Known(e.op)' /\ e.sent = started'[e.op]
                            /\ (outcome'[e.op] = "timeout" =>
                                   budget'[e.op] # Unlimited /\ budget'[e.op] <= 2 * Delay)
  BY <1>1 DEF EntryInv
<1>5. e.kind = "reply" => Known(e.op)' /\ e.sent = started'[e.op] + Delay
  BY <1>1 DEF EntryInv
<1> QED BY <1>3, <1>4, <1>5 DEF EntryInv

\* A request leaves the front of the bus and its answer joins the back, behind
\* everything: no stamp in the queue exceeds the present by more than Delay.
LEMMA DeliverRequestStep ==
  ASSUME IInv, TypeOK', DeliverRequest
  PROVE  IInv'
<1>1. /\ ~TaskDue /\ BusDue /\ now' = RootTime /\ Head(bus).kind = "request"
      /\ feed' = feed /\ tasks' = tasks /\ pending' = pending /\ outcome' = outcome
      /\ started' = started /\ budget' = budget /\ phase' = "poll"
      /\ \/ /\ \E n \in 0..MaxPush :
                  bus' = Append(Tail(bus), Stamped("reply", Head(bus).op, now'))
                             \o [i \in 1..n |-> Stamped("data", NoOp, now')]
            /\ answered' = answered \cup {Head(bus).op}
         \/ bus' = Tail(bus) /\ answered' = answered
  BY DEF DeliverRequest
<1>2. TypeOK /\ BusSorted
  BY DEF IInv
<1>3. PICK h \in Entry : h = Head(bus)
  BY <1>1, <1>2, TailFacts DEF TypeOK, BusDue
<1>4. /\ bus # <<>> /\ h = bus[1] /\ 1 \in DOMAIN bus /\ EntryInv(h)
      /\ now' \in Nat /\ now <= now' /\ now' = h.at /\ now' <= MarketTime'
      /\ \A i \in DOMAIN bus : now' <= bus[i].at
      /\ \A t \in tasks' : t.born <= now' /\ now' <= Due(t)'
  BY <1>1, <1>3, FrontFacts
<1>5. /\ h.kind = "request" /\ h.op \in Ops /\ Known(h.op)
      /\ now' = started[h.op] + Delay
      /\ outcome[h.op] = "timeout" => budget[h.op] # Unlimited /\ budget[h.op] <= 2 * Delay
  BY <1>1, <1>2, <1>3, <1>4, ComponentTypes DEF EntryInv
<1>6. PICK r \in Entry : /\ r = Stamped("reply", h.op, now')
                         /\ r.at = now' + Delay /\ r.sent = now' /\ r.kind = "reply"
                         /\ r.op = h.op
  <2>1. Stamped("reply", h.op, now') \in Entry
    BY <1>4, <1>5, DelayAssumption DEF Stamped, Entry
  <2> QED BY <2>1 DEF Stamped
<1>d. PICK d \in Entry : /\ d = Stamped("data", NoOp, now')
                         /\ d.at = now' + Delay /\ d.sent = now' /\ d.kind = "data"
                         /\ d.op = NoOp
  <2>1. Stamped("data", NoOp, now') \in Entry
    BY <1>4, DelayAssumption DEF Stamped, Entry
  <2> QED BY <2>1 DEF Stamped
<1>7. PICK q \in Seq(Entry) : q = Tail(bus)
  BY <1>2, <1>4, TailFacts DEF TypeOK
<1>8. /\ \A i \in DOMAIN q : i + 1 \in DOMAIN bus /\ q[i] = bus[i + 1]
      /\ \A i \in DOMAIN bus : i # 1 => i - 1 \in DOMAIN q /\ q[i - 1] = bus[i]
  BY <1>2, <1>4, <1>7, TailFacts DEF TypeOK
<1>9. /\ \A i \in DOMAIN q : i \in DOMAIN bus' /\ bus'[i] = q[i]
      /\ \A i \in DOMAIN bus' :
           i \in DOMAIN q \/ (bus'[i] \in {r, d} /\ \A j \in DOMAIN q : j < i)
      /\ answered' # answered => \E i \in DOMAIN bus' : bus'[i] = r
  <2>1. CASE bus' = q /\ answered' = answered
    BY <2>1
  <2>2. CASE \E n \in 0..MaxPush : bus' = Append(q, r) \o [i \in 1..n |-> d]
    <3>1. PICK n \in 0..MaxPush : bus' = Append(q, r) \o [i \in 1..n |-> d]
      BY <2>2
    <3>n. n \in Nat
      BY BoundsAssumption
    <3>2. PICK a \in Seq(Entry) : a = Append(q, r)
      BY AppendFacts
    <3>3. /\ \A i \in DOMAIN q : i \in DOMAIN a /\ a[i] = q[i]
          /\ \A i \in DOMAIN a :
               i \in DOMAIN q \/ (a[i] = r /\ \A j \in DOMAIN q : j < i)
          /\ \E i \in DOMAIN a : a[i] = r
      BY <3>2, AppendProperties, LenProperties
    <3>4. /\ \A i \in DOMAIN a : i \in DOMAIN bus' /\ bus'[i] = a[i]
          /\ \A i \in DOMAIN bus' :
               i \in DOMAIN a \/ (bus'[i] = d /\ \A j \in DOMAIN a : j < i)
      BY <3>1, <3>2, <3>n, CopiesFacts
    <3> QED BY <3>3, <3>4
  <2> QED BY <1>1, <1>3, <1>6, <1>7, <1>d, <2>1, <2>2
<1>10. \A i \in DOMAIN bus : /\ i \in Nat /\ bus[i].at \in Nat /\ bus[i] \in Entry
                             /\ EntryInv(bus[i]) /\ bus[i].at <= r.at
  <2>1. SUFFICES ASSUME NEW i \in DOMAIN bus
                 PROVE /\ i \in Nat /\ bus[i].at \in Nat /\ bus[i] \in Entry
                       /\ EntryInv(bus[i]) /\ bus[i].at <= r.at
    OBVIOUS
  <2>2. /\ i \in Nat /\ bus[i].at \in Nat /\ bus[i].sent \in Nat /\ now \in Nat
        /\ bus[i] \in Entry
    BY <1>2, ComponentTypes
  <2>3. EntryInv(bus[i])
    BY DEF IInv
  <2>4. bus[i].at <= now + Delay
    BY <2>2, <2>3, DelayAssumption DEF EntryInv
  <2> QED BY <2>2, <2>3, <2>4, <1>4, <1>6, DelayAssumption
<1>11. BusSorted'
  <2>1. SUFFICES ASSUME NEW i \in DOMAIN bus', NEW j \in DOMAIN bus', i < j
                 PROVE bus'[i].at <= bus'[j].at
    BY DEF BusSorted
  <2>2. i \in Nat /\ j \in Nat
    BY DEF TypeOK
  <2>3. i \in DOMAIN q => bus'[i] = bus[i + 1] /\ i + 1 \in DOMAIN bus
    BY <2>1, <2>2, <1>8, <1>9
  <2>4. CASE j \in DOMAIN q
    <3>1. i \in DOMAIN q
      BY <2>1, <2>2, <2>4, <1>9
    <3>2. bus'[j] = bus[j + 1] /\ j + 1 \in DOMAIN bus /\ i + 1 < j + 1
      BY <2>1, <2>2, <2>4, <1>8, <1>9
    <3> QED BY <3>1, <3>2, <2>3, <1>2 DEF BusSorted
  <2>5. CASE i \in DOMAIN q /\ bus'[j] \in {r, d}
    BY <2>3, <2>5, <1>6, <1>d, <1>10
  <2>6. CASE bus'[i] \in {r, d} /\ bus'[j] \in {r, d}
    BY <2>6, <1>4, <1>6, <1>d, DelayAssumption
  <2> QED BY <2>4, <2>5, <2>6, <1>9
<1>12. \A i \in DOMAIN bus' : EntryInv(bus[i])'
  <2>1. SUFFICES ASSUME NEW i \in DOMAIN bus', NEW e \in Entry, e = bus'[i]
                 PROVE EntryInv(e)'
    BY DEF TypeOK
  <2>2. CASE i \in DOMAIN q
    <3>1. i + 1 \in DOMAIN bus /\ e = bus[i + 1]
      BY <2>1, <2>2, <1>8, <1>9
    <3>2. EntryInv(e) /\ now' <= e.at
      BY <3>1, <1>4, <1>10
    <3> QED BY <3>2, <1>1, <1>2, <1>4, EntryKept DEF Known
  <2>3. CASE e = r
    BY <2>3, <1>1, <1>4, <1>5, <1>6, DelayAssumption DEF EntryInv, Known
  <2>4. CASE e = d
    BY <2>4, <1>4, <1>d, DelayAssumption DEF EntryInv
  <2> QED BY <2>1, <2>2, <2>3, <2>4, <1>9
<1>13. \A t \in tasks' : TaskInv(t)'
  BY <1>1, <1>4 DEF IInv, TaskInv
<1>14. \A o \in Ops : OpInv(o)'
  <2>1. SUFFICES ASSUME NEW o \in Ops PROVE OpInv(o)'
    OBVIOUS
  <2>2. OpInv(o) /\ started[o] \in Nat /\ now \in Nat
    BY <1>2, ComponentTypes DEF IInv
  <2>3. started[o] <= now'
    BY <2>2, <1>4 DEF OpInv
  <2>4. o \in pending' /\ o \in answered' =>
          \E i \in DOMAIN bus' : bus'[i].kind = "reply" /\ bus'[i].op = o
    <3>1. SUFFICES ASSUME o \in pending', o \in answered'
                   PROVE \E i \in DOMAIN bus' : bus'[i].kind = "reply" /\ bus'[i].op = o
      OBVIOUS
    <3>2. CASE o \in answered
      <4>1. PICK i \in DOMAIN bus : bus[i].kind = "reply" /\ bus[i].op = o
        BY <3>1, <3>2, <2>2, <1>1 DEF OpInv
      <4>2. i # 1
        BY <4>1, <1>4, <1>5
      <4> QED BY <4>1, <4>2, <1>8, <1>9
    <3>3. CASE o \notin answered
      <4>1. o = h.op /\ answered' # answered
        BY <3>1, <3>3, <1>1, <1>3
      <4> QED BY <4>1, <1>6, <1>9
    <3> QED BY <3>2, <3>3
  <2>5. o \in answered' => /\ Known(o)
                           /\ outcome[o] = "timeout" =>
                                budget[o] # Unlimited /\ budget[o] <= 2 * Delay
    BY <2>2, <1>1, <1>3, <1>5 DEF OpInv
  <2> QED BY <2>2, <2>3, <2>4, <2>5, <1>1 DEF OpInv, Known
<1>15. EverythingDueDone'
  BY <1>1 DEF EverythingDueDone
<1> QED BY <1>4, <1>11, <1>12, <1>13, <1>14, <1>15 DEF IInv

\* A Task keeps its invariant as long as the clock does not pass it and its
\* operation, if it has one, stays pending as it was started.
LEMMA TaskKept ==
  ASSUME NEW t, t \in tasks, tasks' \subseteq tasks, TaskInv(t),
         t.born <= now', now' <= Due(t),
         t.op # NoOp => /\ t.op \in pending'
                        /\ started'[t.op] = started[t.op]
                        /\ budget'[t.op] = budget[t.op]
  PROVE  TaskInv(t)'
BY DEF TaskInv, Due, Max2

\* A callback leaves the front of the bus; the operations it completes, among
\* them the one it answers if that is still pending, are over and their Tasks
\* gone with them.
LEMMA DeliverCallbackStep ==
  ASSUME IInv, TypeOK', DeliverCallback
  PROVE  IInv'
<1>1. /\ ~TaskDue /\ BusDue /\ now' = RootTime /\ Head(bus).kind \in {"reply", "data"}
      /\ feed' = feed /\ bus' = Tail(bus) /\ answered' = answered
      /\ started' = started /\ budget' = budget /\ phase' = "poll"
  BY DEF DeliverCallback
<1>o. PICK over \in SUBSET pending :
        /\ Head(bus).op \in pending => Head(bus).op \in over
        /\ pending' = pending \ over
        /\ outcome' = [o \in Ops |-> IF o \in over THEN "success" ELSE outcome[o]]
        /\ tasks' = {t \in tasks : t.op \notin over}
  BY DEF DeliverCallback, Served, Waiting, TasksWithout
<1>2. TypeOK /\ BusSorted
  BY DEF IInv
<1>3. PICK h \in Entry : h = Head(bus)
  BY <1>1, <1>2, TailFacts DEF TypeOK, BusDue
<1>4. tasks' \subseteq tasks
  BY <1>o
<1>5. /\ bus # <<>> /\ h = bus[1] /\ 1 \in DOMAIN bus
      /\ now' \in Nat /\ now <= now' /\ now' = h.at /\ now' <= MarketTime'
      /\ \A i \in DOMAIN bus : now' <= bus[i].at
      /\ \A t \in tasks' : t.born <= now' /\ now' <= Due(t)
  BY <1>1, <1>3, <1>4, FrontFacts DEF Due, Max2
<1>6. \A o \in Ops : /\ outcome'[o] = IF o \in over THEN "success" ELSE outcome[o]
                     /\ o \in pending' <=> o \in pending /\ o \notin over
                     /\ o \in over => o \in pending
                     /\ o = h.op /\ o \in pending => o \in over
                     /\ Known(o) => Known(o)'
  BY <1>o, <1>3 DEF Known
<1>7. /\ \A i \in DOMAIN bus' : i + 1 \in DOMAIN bus /\ bus'[i] = bus[i + 1]
      /\ \A i \in DOMAIN bus : i # 1 => i - 1 \in DOMAIN bus' /\ bus'[i - 1] = bus[i]
  BY <1>1, <1>2, <1>5, TailFacts DEF TypeOK
<1>8. BusSorted'
  <2>1. SUFFICES ASSUME NEW i \in DOMAIN bus', NEW j \in DOMAIN bus', i < j
                 PROVE bus'[i].at <= bus'[j].at
    BY DEF BusSorted
  <2>2. i \in Nat /\ j \in Nat
    BY DEF TypeOK
  <2>3. i + 1 < j + 1
    BY <2>1, <2>2
  <2> QED BY <2>1, <2>3, <1>2, <1>7 DEF BusSorted
<1>9. \A i \in DOMAIN bus' : EntryInv(bus[i])'
  <2>1. SUFFICES ASSUME NEW i \in DOMAIN bus', NEW e \in Entry, e = bus'[i]
                 PROVE EntryInv(e)'
    BY DEF TypeOK
  <2>2. i + 1 \in DOMAIN bus /\ e = bus[i + 1]
    BY <2>1, <1>7
  <2>3. EntryInv(e) /\ now' <= e.at
    BY <2>2, <1>5 DEF IInv
  <2> QED BY <2>1, <2>3, <1>1, <1>2, <1>5, <1>6, EntryKept
<1>10. \A t \in tasks' : TaskInv(t)'
  <2>1. SUFFICES ASSUME NEW t, t \in tasks' PROVE TaskInv(t)'
    OBVIOUS
  <2>2. t \in tasks /\ TaskInv(t) /\ t.op \in Ops \cup {NoOp}
    BY <2>1, <1>2, <1>4, ComponentTypes DEF IInv
  <2>3. t.op # NoOp => t.op \in pending'
    <3>1. t.op # NoOp => t.op \in pending
      BY <2>2 DEF TaskInv
    <3> QED BY <3>1, <2>1, <2>2, <1>o
  <2> QED BY <2>1, <2>2, <2>3, <1>1, <1>4, <1>5, TaskKept
<1>11. \A o \in Ops : OpInv(o)'
  <2>1. SUFFICES ASSUME NEW o \in Ops PROVE OpInv(o)'
    OBVIOUS
  <2>2. OpInv(o) /\ started[o] \in Nat /\ now \in Nat
    BY <1>2, ComponentTypes DEF IInv
  <2>3. started[o] <= now'
    BY <2>2, <1>5 DEF OpInv
  <2>4. o \in pending' => /\ outcome'[o] = "none"
                          /\ budget[o] # Unlimited => \E t \in tasks' : t.op = o
    BY <2>2, <1>o, <1>6 DEF OpInv
  <2>5. o \in pending' /\ o \in answered =>
          \E i \in DOMAIN bus' : bus'[i].kind = "reply" /\ bus'[i].op = o
    <3>1. SUFFICES ASSUME o \in pending', o \in answered
                   PROVE \E i \in DOMAIN bus' : bus'[i].kind = "reply" /\ bus'[i].op = o
      OBVIOUS
    <3>2. PICK i \in DOMAIN bus : bus[i].kind = "reply" /\ bus[i].op = o
      BY <3>1, <2>2, <1>6 DEF OpInv
    <3>3. i # 1
      BY <3>1, <3>2, <1>5, <1>6
    <3> QED BY <3>2, <3>3, <1>7
  <2>6. o \in answered => /\ Known(o)'
                          /\ outcome'[o] = "timeout" =>
                                budget[o] # Unlimited /\ budget[o] <= 2 * Delay
    BY <2>2, <1>6 DEF OpInv
  <2> QED BY <2>2, <2>3, <2>4, <2>5, <2>6, <1>1 DEF OpInv
<1>12. EverythingDueDone'
  BY <1>1 DEF EverythingDueDone
<1> QED BY <1>5, <1>8, <1>9, <1>10, <1>11, <1>12 DEF IInv

\* No stamp on the bus lies more than one latency ahead.
LEMMA BusBound ==
  ASSUME IInv
  PROVE  \A i \in DOMAIN bus : /\ i \in Nat /\ bus[i].at \in Nat
                               /\ bus[i].at <= now + Delay /\ EntryInv(bus[i])
<1>1. SUFFICES ASSUME NEW i \in DOMAIN bus
               PROVE  /\ i \in Nat /\ bus[i].at \in Nat
                      /\ bus[i].at <= now + Delay /\ EntryInv(bus[i])
  OBVIOUS
<1>2. i \in Nat /\ bus[i].at \in Nat /\ bus[i].sent \in Nat /\ now \in Nat
  BY ComponentTypes DEF IInv
<1>3. EntryInv(bus[i])
  BY DEF IInv
<1> QED BY <1>2, <1>3, DelayAssumption DEF EntryInv

\* A record moves the clock to the market's, which the feeds only move on, and
\* whatever it pushes joins the bus behind everything.
LEMMA ReadRecordStep ==
  ASSUME IInv, TypeOK', ReadRecord
  PROVE  IInv'
<1>1. PICK s \in Sources, n \in 0..MaxPush, gap \in Gaps :
        /\ ~Exhausted(s)
        /\ bus' = bus \o [i \in 1..n |-> Stamped("data", NoOp, now')]
        /\ feed' = IF left[s] > 1 THEN [feed EXCEPT ![s] = @ + gap] ELSE feed
  BY DEF ReadRecord
<1>2. /\ ~TaskDue /\ ~BusDue /\ now' = RootTime
      /\ tasks' = tasks /\ pending' = pending /\ outcome' = outcome
      /\ started' = started /\ budget' = budget /\ phase' = "poll"
      /\ answered' = answered
  BY DEF ReadRecord
<1>3. TypeOK /\ BusSorted /\ n \in Nat /\ gap \in Nat
  BY BoundsAssumption DEF IInv
<1>4. /\ now \in Nat /\ now' \in Nat /\ now <= now' /\ now' = MarketTime
      /\ \A i \in DOMAIN bus : now' <= bus[i].at
  BY <1>2, <1>3, ComponentTypes, RootTimeFacts
<1>5. now' <= MarketTime'
  <2>1. MarketTime' \in {feed'[r] : r \in Sources}
    BY LeastFeed DEF TypeOK, MarketTime
  <2>2. \A r \in Sources : feed[r] <= feed'[r] /\ feed[r] \in Nat /\ feed'[r] \in Nat
    BY <1>1, <1>3 DEF TypeOK
  <2>3. \A r \in Sources : MarketTime <= feed[r]
    BY <1>3, MarketTimeFacts
  <2> QED BY <2>1, <2>2, <2>3, <1>4
<1>6. PICK d \in Entry : d = Stamped("data", NoOp, now') /\ d.at = now' + Delay
                         /\ d.sent = now' /\ d.kind = "data" /\ d.op = NoOp
  <2>1. Stamped("data", NoOp, now') \in Entry
    BY <1>4, DelayAssumption DEF Stamped, Entry
  <2> QED BY <2>1 DEF Stamped
<1>7. /\ \A i \in DOMAIN bus : i \in DOMAIN bus' /\ bus'[i] = bus[i]
      /\ \A i \in DOMAIN bus' :
           i \in DOMAIN bus \/ (bus'[i] = d /\ \A j \in DOMAIN bus : j < i)
  <2>1. bus' = bus \o [i \in 1..n |-> d] /\ bus \in Seq(Entry)
    BY <1>1, <1>3, <1>6 DEF TypeOK
  <2> QED BY <2>1, <1>3, CopiesFacts
<1>8. BusSorted'
  <2>1. SUFFICES ASSUME NEW i \in DOMAIN bus', NEW j \in DOMAIN bus', i < j
                 PROVE bus'[i].at <= bus'[j].at
    BY DEF BusSorted
  <2>2. i \in Nat /\ j \in Nat
    BY DEF TypeOK
  <2>3. CASE j \in DOMAIN bus
    <3>1. i \in DOMAIN bus
      BY <2>1, <2>2, <2>3, <1>7
    <3> QED BY <2>1, <2>3, <3>1, <1>3, <1>7 DEF BusSorted
  <2>4. CASE i \in DOMAIN bus /\ bus'[j] = d
    BY <2>4, <1>4, <1>6, <1>7, BusBound, DelayAssumption
  <2>5. CASE bus'[i] = d /\ bus'[j] = d
    BY <2>5, <1>4, <1>6, DelayAssumption
  <2> QED BY <2>3, <2>4, <2>5, <1>7
<1>9. \A i \in DOMAIN bus' : EntryInv(bus[i])'
  <2>1. SUFFICES ASSUME NEW i \in DOMAIN bus', NEW e \in Entry, e = bus'[i]
                 PROVE EntryInv(e)'
    BY DEF TypeOK
  <2>2. CASE i \in DOMAIN bus
    <3>1. EntryInv(e) /\ now' <= e.at
      BY <2>1, <2>2, <1>4, <1>7, BusBound
    <3> QED BY <3>1, <1>2, <1>3, <1>4, EntryKept DEF Known
  <2>3. CASE e = d
    BY <2>3, <1>4, <1>6, DelayAssumption DEF EntryInv
  <2> QED BY <2>1, <2>2, <2>3, <1>7
<1>10. \A t \in tasks' : TaskInv(t)'
  <2>1. SUFFICES ASSUME NEW t, t \in tasks PROVE TaskInv(t)'
    BY <1>2
  <2>2. TaskInv(t) /\ t.at \in Nat /\ t.born \in Nat
    BY <2>1, <1>3, ComponentTypes DEF IInv
  <2>3. now' < t.at /\ t.born <= now'
    BY <2>1, <2>2, <1>2, <1>4, RootTimeFacts DEF TaskDue, TaskInv
  <2>4. now' <= Due(t)
    BY <2>2, <2>3, <1>4 DEF Due, Max2
  <2>5. t.op # NoOp => t.op \in pending
    BY <2>2 DEF TaskInv
  <2> QED BY <2>1, <2>2, <2>3, <2>4, <2>5, <1>2, TaskKept
<1>11. \A o \in Ops : OpInv(o)'
  <2>1. SUFFICES ASSUME NEW o \in Ops PROVE OpInv(o)'
    OBVIOUS
  <2>2. OpInv(o) /\ started[o] \in Nat
    BY <1>3, ComponentTypes DEF IInv
  <2>3. started[o] <= now'
    BY <2>2, <1>4 DEF OpInv
  <2>4. o \in pending /\ o \in answered =>
          \E i \in DOMAIN bus' : bus'[i].kind = "reply" /\ bus'[i].op = o
    BY <2>2, <1>7 DEF OpInv
  <2> QED BY <2>2, <2>3, <2>4, <1>2 DEF OpInv, Known
<1>12. EverythingDueDone'
  BY <1>2 DEF EverythingDueDone
<1> QED BY <1>5, <1>8, <1>9, <1>10, <1>11, <1>12 DEF IInv

\* Steps that leave the bus and the operations alone, and may move the clock
\* within what is still queued, only have to answer for the tasks.
LEMMA QuietStep ==
  ASSUME IInv, TypeOK', feed' = feed, bus' = bus, pending' = pending,
         outcome' = outcome, started' = started, budget' = budget,
         answered' = answered, now <= now', now' <= MarketTime,
         \A i \in DOMAIN bus : now' <= bus[i].at,
         \A t \in tasks' : TaskInv(t)',
         \A t \in tasks : t.op # NoOp => t \in tasks',
         EverythingDueDone'
  PROVE  IInv'
<1>1. TypeOK /\ BusSorted /\ MarketTime' = MarketTime
  BY DEF IInv, MarketTime
<1>2. BusSorted'
  BY <1>1 DEF BusSorted
<1>3. \A i \in DOMAIN bus' : EntryInv(bus[i])'
  <2>1. SUFFICES ASSUME NEW i \in DOMAIN bus, NEW e \in Entry, e = bus[i]
                 PROVE EntryInv(e)'
    BY DEF TypeOK
  <2>2. EntryInv(e) /\ now' <= e.at
    BY <2>1 DEF IInv
  <2> QED BY <2>2, <1>1, EntryKept DEF Known
<1>4. \A o \in Ops : OpInv(o)'
  <2>1. SUFFICES ASSUME NEW o \in Ops PROVE OpInv(o)'
    OBVIOUS
  <2>2. OpInv(o) /\ started[o] \in Nat /\ now \in Nat /\ now' \in Nat
    BY <1>1, ComponentTypes DEF IInv, TypeOK
  <2>3. started[o] <= now'
    BY <2>2 DEF OpInv
  <2>4. o \in pending /\ budget[o] # Unlimited => \E t \in tasks' : t.op = o
    BY <2>2, OpsAssumption DEF OpInv
  <2> QED BY <2>2, <2>3, <2>4 DEF OpInv, Known
<1> QED BY <1>1, <1>2, <1>3, <1>4 DEF IInv

\* The loop is left only when neither a Task nor the bus has anything due.
LEMMA EofStep ==
  ASSUME IInv, TypeOK', Eof
  PROVE  IInv'
<1>1. /\ ~TaskDue /\ ~BusDue /\ now' = RootTime /\ feed' = feed /\ bus' = bus
      /\ tasks' = tasks /\ pending' = pending /\ outcome' = outcome
      /\ started' = started /\ budget' = budget /\ answered' = answered
  BY DEF Eof
<1>2. TypeOK
  BY DEF IInv
<1>3. /\ now \in Nat /\ now' \in Nat /\ now <= now' /\ now' = MarketTime
      /\ \A i \in DOMAIN bus : bus[i].at \in Nat /\ now' < bus[i].at
  BY <1>1, <1>2, ComponentTypes, RootTimeFacts
<1>4. \A t \in tasks : /\ t.at \in Nat /\ t.born \in Nat /\ now' < t.at
                       /\ t.born <= now' /\ now' <= Due(t)
  <2>1. SUFFICES ASSUME NEW t \in tasks
                 PROVE  /\ t.at \in Nat /\ t.born \in Nat /\ now' < t.at
                        /\ t.born <= now' /\ now' <= Due(t)
    OBVIOUS
  <2>2. t.at \in Nat /\ t.born \in Nat /\ t.born <= now
    BY <1>2, ComponentTypes DEF IInv, TaskInv
  <2>3. now' < t.at
    BY <2>2, <1>1, <1>3 DEF TaskDue
  <2> QED BY <2>2, <2>3, <1>3 DEF Due, Max2
<1>5. \A t \in tasks' : TaskInv(t)'
  <2>1. SUFFICES ASSUME NEW t, t \in tasks PROVE TaskInv(t)'
    BY <1>1
  <2>2. TaskInv(t) /\ (t.op # NoOp => t.op \in pending)
    BY <2>1 DEF IInv, TaskInv
  <2> QED BY <2>1, <2>2, <1>1, <1>4, TaskKept
<1>6. EverythingDueDone'
  BY <1>1, <1>3, <1>4 DEF EverythingDueDone
<1>7. \A i \in DOMAIN bus : now' <= bus[i].at
  BY <1>3
<1>8. now' <= MarketTime
  BY <1>3
<1> QED BY <1>1, <1>3, <1>5, <1>6, <1>7, <1>8, QuietStep

\* Steps of user code that only touch timers.
LEMMA TimerStep ==
  ASSUME IInv, TypeOK', SetTimer \/ CancelTimer
  PROVE  IInv'
<1>1. /\ phase' = phase /\ phase = "poll" /\ now' = now /\ feed' = feed /\ bus' = bus
      /\ pending' = pending /\ outcome' = outcome /\ started' = started
      /\ budget' = budget /\ answered' = answered
  BY DEF SetTimer, CancelTimer, UserTurn
<1>2. TypeOK /\ now \in Nat /\ now <= MarketTime
  BY ComponentTypes DEF IInv
<1>3. \A i \in DOMAIN bus : now <= bus[i].at
  BY DEF IInv, EntryInv
<1>4. \A t \in tasks : t.op # NoOp => t \in tasks'
  BY DEF SetTimer, CancelTimer
<1>5. ASSUME NEW t, t \in tasks' PROVE TaskInv(t)'
  <2>1. CASE t \in tasks
    <3>1. TaskInv(t) /\ t.op \in Ops \cup {NoOp}
      BY <2>1, <1>2, ComponentTypes DEF IInv
    <3>2. \A u \in tasks' : t.op # NoOp /\ u.op = t.op => u \in tasks
      BY DEF SetTimer, CancelTimer, Scheduled
    <3> QED BY <3>1, <3>2, <1>1 DEF TaskInv, Due, Max2
  <2>2. CASE t \notin tasks
    <3>1. PICK x \in 0..(now + MaxReach) : t = Scheduled(x, NoOp)
      BY <2>2, <1>5 DEF SetTimer, CancelTimer
    <3>2. x \in Nat /\ t.at = x /\ t.born = now /\ t.op = NoOp
      BY <3>1, <1>2, BoundsAssumption DEF Scheduled
    <3> QED BY <3>2, <1>1, <1>2 DEF TaskInv, Due, Max2
  <2> QED BY <2>1, <2>2
<1>6. EverythingDueDone'
  BY <1>1 DEF EverythingDueDone
<1> QED BY <1>1, <1>2, <1>3, <1>4, <1>5, <1>6, QuietStep

\* What is due at an instant does not depend on the loop's turn.
LEMMA IdleStep ==
  ASSUME IInv, TypeOK', EndPoll \/ UNCHANGED vars
  PROVE  IInv'
<1>1. /\ now' = now /\ feed' = feed /\ bus' = bus /\ tasks' = tasks
      /\ pending' = pending /\ outcome' = outcome /\ started' = started
      /\ budget' = budget /\ answered' = answered
      /\ phase' = "eof" => phase = "eof"
  BY DEF EndPoll, vars
<1>2. TypeOK /\ now \in Nat /\ now <= MarketTime
  BY ComponentTypes DEF IInv
<1>3. \A i \in DOMAIN bus : now <= bus[i].at
  BY DEF IInv, EntryInv
<1>4. \A t \in tasks' : TaskInv(t)'
  BY <1>1 DEF IInv, TaskInv, Due, Max2
<1>5. EverythingDueDone'
  BY <1>1 DEF IInv, EverythingDueDone
<1> QED BY <1>1, <1>2, <1>3, <1>4, <1>5, QuietStep

\* A new operation: nothing that is queued belongs to it yet, any request joins
\* the bus behind everything, and its Task lies its duration ahead at least,
\* because RootTime is never behind the present.
LEMMA StartOpStep ==
  ASSUME IInv, TypeOK', StartOp
  PROVE  IInv'
<1>1. PICK o \in Ops, w \in Waits \cup {Unlimited} :
        /\ o \notin pending /\ outcome[o] = "none"
        /\ IF w = Unlimited
           THEN UNCHANGED <<tasks, taskId>>
           ELSE /\ taskId < MaxTasks
                /\ tasks' = tasks \cup {Scheduled(RootTime + w, o)}
                /\ taskId' = taskId + 1
        /\ \/ bus' = Append(bus, Stamped("request", o, now))
           \/ UNCHANGED bus
        /\ pending' = pending \cup {o}
        /\ started' = [started EXCEPT ![o] = now]
        /\ budget' = [budget EXCEPT ![o] = w]
  BY DEF StartOp
<1>2. /\ phase = "poll" /\ phase' = "poll" /\ now' = now /\ feed' = feed
      /\ outcome' = outcome /\ answered' = answered
  BY DEF StartOp, UserTurn
<1>3. /\ TypeOK /\ BusSorted /\ now \in Nat /\ now <= MarketTime
      /\ MarketTime' = MarketTime /\ RootTime \in Nat /\ now <= RootTime
  BY <1>2, ComponentTypes, RootTimeFacts DEF IInv, MarketTime
<1>4. ~Known(o) /\ o # NoOp
  BY <1>1, OpsAssumption DEF Known
<1>5. \A p \in Ops : /\ started'[p] = IF p = o THEN now ELSE started[p]
                     /\ budget'[p] = IF p = o THEN w ELSE budget[p]
                     /\ p \in pending' <=> p \in pending \/ p = o
                     /\ Known(p) => Known(p)'
  BY <1>1, <1>2, <1>3 DEF TypeOK, Known
<1>6. PICK r \in Entry : /\ r = Stamped("request", o, now)
                         /\ r.at = now + Delay /\ r.sent = now
                         /\ r.kind = "request" /\ r.op = o
  <2>1. Stamped("request", o, now) \in Entry
    BY <1>3, DelayAssumption DEF Stamped, Entry
  <2> QED BY <2>1 DEF Stamped
<1>7. /\ \A i \in DOMAIN bus : i \in DOMAIN bus' /\ bus'[i] = bus[i]
      /\ \A i \in DOMAIN bus' :
           i \in DOMAIN bus \/ (bus'[i] = r /\ \A j \in DOMAIN bus' : j <= i)
  <2>1. CASE bus' = bus
    BY <2>1
  <2>2. CASE bus' = Append(bus, r)
    BY <2>2, <1>3, AppendFacts DEF TypeOK
  <2> QED BY <2>1, <2>2, <1>1, <1>6
<1>8. BusSorted'
  <2>1. SUFFICES ASSUME NEW i \in DOMAIN bus', NEW j \in DOMAIN bus', i < j
                 PROVE bus'[i].at <= bus'[j].at
    BY DEF BusSorted
  <2>2. i \in Nat /\ j \in Nat
    BY DEF TypeOK
  <2>3. i \in DOMAIN bus
    BY <2>1, <2>2, <1>7
  <2>4. CASE j \in DOMAIN bus
    BY <2>1, <2>3, <2>4, <1>3, <1>7 DEF BusSorted
  <2>5. CASE bus'[j] = r
    BY <2>3, <2>5, <1>6, <1>7, BusBound
  <2> QED BY <2>4, <2>5, <1>7
<1>9. \A i \in DOMAIN bus' : EntryInv(bus[i])'
  <2>1. SUFFICES ASSUME NEW i \in DOMAIN bus', NEW e \in Entry, e = bus'[i]
                 PROVE EntryInv(e)'
    BY DEF TypeOK
  <2>2. CASE i \in DOMAIN bus
    <3>1. EntryInv(e) /\ now' <= e.at
      BY <2>1, <2>2, <1>2, <1>7 DEF IInv, EntryInv
    <3>2. e.kind # "data" => e.op # o
      <4>1. e.kind \in {"request", "reply", "data"}
        BY DEF Entry
      <4> QED BY <4>1, <3>1, <1>4 DEF EntryInv
    <3>3. e.op \in Ops => e.kind # "data"
      BY OpsAssumption DEF Entry
    <3>4. e.op \in Ops => /\ started'[e.op] = started[e.op]
                          /\ budget'[e.op] = budget[e.op]
                          /\ Known(e.op) => Known(e.op)'
      BY <3>2, <3>3, <1>5
    <3> QED BY <3>1, <3>4, <1>2, <1>3, EntryKept
  <2>3. CASE e = r
    BY <2>3, <1>1, <1>2, <1>3, <1>5, <1>6, DelayAssumption DEF EntryInv, Known
  <2> QED BY <2>1, <2>2, <2>3, <1>7
<1>10. \A t \in tasks : t.op # o /\ TaskInv(t) /\ t.op \in Ops \cup {NoOp}
  BY <1>1, <1>3, <1>4, ComponentTypes DEF IInv, TaskInv
<1>11. w # Unlimited => w \in Nat
  BY WaitsAssumption
<1>12. \A t \in tasks' : TaskInv(t)'
  <2>1. SUFFICES ASSUME NEW t, t \in tasks' PROVE TaskInv(t)'
    OBVIOUS
  <2>2. \A u \in tasks' : u \in tasks \/ u.op = o
    BY <1>1 DEF Scheduled
  <2>3. CASE t \in tasks
    <3>1. TaskInv(t) /\ t.op # o /\ t.op \in Ops \cup {NoOp}
      BY <2>3, <1>10
    <3>2. t.op # NoOp => /\ t.op \in pending' /\ started'[t.op] = started[t.op]
                         /\ budget'[t.op] = budget[t.op]
      BY <3>1, <1>5 DEF TaskInv
    <3>3. \A u \in tasks' : u.op = t.op => u \in tasks
      BY <3>1, <2>2
    <3> QED BY <3>1, <3>2, <3>3, <1>2 DEF TaskInv, Due, Max2
  <2>4. CASE t \notin tasks
    <3>1. w # Unlimited /\ t = Scheduled(RootTime + w, o)
      BY <2>1, <2>4, <1>1
    <3>2. t.at = RootTime + w /\ t.born = now /\ t.op = o
      BY <3>1 DEF Scheduled
    <3>3. \A u \in tasks' : u.op = o => u = t
      BY <3>1, <1>1, <1>10
    <3>4. t.born <= now' /\ now' <= Due(t)
      BY <3>1, <3>2, <1>2, <1>3, <1>11 DEF Due, Max2
    <3>5. /\ o \in pending' /\ budget'[o] # Unlimited
          /\ started'[o] + budget'[o] <= t.at
      BY <3>1, <3>2, <1>3, <1>5, <1>11
    <3> QED BY <3>2, <3>3, <3>4, <3>5 DEF TaskInv, Due
  <2> QED BY <2>3, <2>4
<1>13. \A p \in Ops : OpInv(p)'
  <2>1. SUFFICES ASSUME NEW p \in Ops PROVE OpInv(p)'
    OBVIOUS
  <2>2. OpInv(p)
    BY DEF IInv
  <2>3. CASE p = o
    <3>1. o \notin answered
      BY <2>2, <2>3, <1>4 DEF OpInv
    <3>2. w # Unlimited => \E t \in tasks' : t.op = o
      <4>1. w # Unlimited => Scheduled(RootTime + w, o) \in tasks'
        BY <1>1
      <4>2. Scheduled(RootTime + w, o).op = o
        BY DEF Scheduled
      <4> QED BY <4>1, <4>2
    <3> QED BY <2>3, <3>1, <3>2, <1>1, <1>2, <1>3, <1>5 DEF OpInv, Known
  <2>4. CASE p # o
    <3>1. p \in pending' /\ p \in answered =>
            \E i \in DOMAIN bus' : bus'[i].kind = "reply" /\ bus'[i].op = p
      BY <2>2, <2>4, <1>5, <1>7 DEF OpInv
    <3>2. p \in pending' /\ budget[p] # Unlimited => \E t \in tasks' : t.op = p
      BY <2>2, <2>4, <1>1, <1>5 DEF OpInv
    <3> QED BY <2>2, <2>4, <3>1, <3>2, <1>2, <1>5 DEF OpInv, Known
  <2> QED BY <2>3, <2>4
<1>14. EverythingDueDone'
  BY <1>2 DEF EverythingDueDone
<1> QED BY <1>2, <1>3, <1>8, <1>9, <1>12, <1>13, <1>14 DEF IInv

\* A closing context takes the operation's record and Task with it; what is
\* still on the bus for it finds nobody.
LEMMA CloseOpStep ==
  ASSUME IInv, TypeOK', CloseOp
  PROVE  IInv'
<1>1. PICK o \in pending :
        /\ pending' = pending \ {o}
        /\ outcome' = [outcome EXCEPT ![o] = "closed"]
        /\ tasks' = {t \in tasks : t.op # o}
  BY DEF CloseOp, TasksWithout
<1>2. /\ phase' = phase /\ phase = "poll" /\ now' = now /\ feed' = feed /\ bus' = bus
      /\ started' = started /\ budget' = budget /\ answered' = answered
  BY DEF CloseOp, UserTurn
<1>3. /\ TypeOK /\ BusSorted /\ now \in Nat /\ now <= MarketTime
      /\ MarketTime' = MarketTime /\ o \in Ops
  BY <1>1, <1>2, ComponentTypes DEF IInv, MarketTime, TypeOK
<1>4. \A p \in Ops : /\ outcome'[p] = IF p = o THEN "closed" ELSE outcome[p]
                     /\ p \in pending' <=> p \in pending /\ p # o
                     /\ Known(p) => Known(p)'
  BY <1>1, <1>3 DEF TypeOK, Known
<1>5. BusSorted'
  BY <1>2, <1>3 DEF BusSorted
<1>6. \A i \in DOMAIN bus' : EntryInv(bus[i])'
  <2>1. SUFFICES ASSUME NEW i \in DOMAIN bus, NEW e \in Entry, e = bus[i]
                 PROVE EntryInv(e)'
    BY <1>2 DEF TypeOK
  <2>2. EntryInv(e) /\ now' <= e.at
    BY <2>1, <1>2 DEF IInv, EntryInv
  <2> QED BY <2>2, <1>2, <1>3, <1>4, EntryKept
<1>7. \A t \in tasks' : TaskInv(t)'
  <2>1. SUFFICES ASSUME NEW t, t \in tasks, t.op # o PROVE TaskInv(t)'
    BY <1>1
  <2>2. TaskInv(t) /\ t.op \in Ops \cup {NoOp}
    BY <2>1, <1>3, ComponentTypes DEF IInv
  <2>3. t.op # NoOp => t.op \in pending'
    BY <2>1, <2>2, <1>1 DEF TaskInv
  <2>4. t.born <= now' /\ now' <= Due(t)
    BY <2>2, <1>2 DEF TaskInv
  <2> QED BY <2>1, <2>2, <2>3, <2>4, <1>1, <1>2, TaskKept
<1>8. \A p \in Ops : OpInv(p)'
  <2>1. SUFFICES ASSUME NEW p \in Ops PROVE OpInv(p)'
    OBVIOUS
  <2>2. OpInv(p)
    BY DEF IInv
  <2>3. p \in pending' /\ budget[p] # Unlimited => \E t \in tasks' : t.op = p
    BY <2>2, <1>1, <1>4 DEF OpInv
  <2> QED BY <2>2, <2>3, <1>2, <1>4 DEF OpInv
<1>9. EverythingDueDone'
  BY <1>2 DEF EverythingDueDone
<1> QED BY <1>2, <1>3, <1>5, <1>6, <1>7, <1>8, <1>9 DEF IInv

LEMMA InvariantStep ==
  ASSUME IInv, [Next]_vars
  PROVE  IInv'
<1>1. TypeOK'
  BY TypeStep DEF IInv
<1>2. RunTask => IInv'
  BY <1>1, RunTaskStep
<1>3. DeliverRequest => IInv'
  BY <1>1, DeliverRequestStep
<1>4. DeliverCallback => IInv'
  BY <1>1, DeliverCallbackStep
<1>5. ReadRecord => IInv'
  BY <1>1, ReadRecordStep
<1>6. Eof => IInv'
  BY <1>1, EofStep
<1>7. SetTimer \/ CancelTimer => IInv'
  BY <1>1, TimerStep
<1>8. StartOp => IInv'
  BY <1>1, StartOpStep
<1>9. CloseOp => IInv'
  BY <1>1, CloseOpStep
<1>10. EndPoll \/ UNCHANGED vars => IInv'
  BY <1>1, IdleStep
<1> QED
  BY <1>2, <1>3, <1>4, <1>5, <1>6, <1>7, <1>8, <1>9, <1>10
     DEF Next, ProcessMarket, UserCode, Finished

LEMMA InvariantInit ==
  ASSUME Init
  PROVE  IInv
<1>1. TypeOK
  BY TypeInit
<1>2. now <= MarketTime
  BY <1>1, MarketTimeFacts DEF Init
<1>3. DOMAIN bus = {}
  BY DEF Init
<1>4. BusSorted /\ \A i \in DOMAIN bus : EntryInv(bus[i])
  BY <1>3 DEF BusSorted
<1>5. \A o \in Ops : OpInv(o)
  BY <1>1 DEF Init, TypeOK, OpInv
<1>6. (\A t \in tasks : TaskInv(t)) /\ EverythingDueDone
  BY DEF Init, EverythingDueDone
<1> QED BY <1>1, <1>2, <1>4, <1>5, <1>6 DEF IInv

-----------------------------------------------------------------------------
(* The theorems *)

\* The inductive invariant: types, sorted bus, what every queued entry, task
\* and pending operation knows of the others.
THEOREM InvariantCorrect == Spec => []IInv
<1>1. Init => IInv
  BY InvariantInit
<1>2. IInv /\ [Next]_vars => IInv'
  BY InvariantStep
<1> QED BY <1>1, <1>2, PTL DEF Spec

\* The FIFO queue of the EventBus is sorted by time, which process() relies on.
THEOREM BusSortedCorrect == Spec => []BusSorted
<1>1. IInv => BusSorted
  BY DEF IInv
<1> QED BY <1>1, InvariantCorrect, PTL

\* An operation's timeout Task lives exactly as long as its record.
THEOREM TimeoutArmedCorrect == Spec => []TimeoutArmed
<1>1. IInv => TimeoutArmed
  <2> SUFFICES ASSUME IInv PROVE TimeoutArmed
    OBVIOUS
  <2>1. \A t \in tasks : t.op # NoOp => t.op \in pending
    BY DEF IInv, TaskInv
  <2>2. ASSUME NEW o \in pending
        PROVE  budget[o] # Unlimited <=> \E t \in tasks : t.op = o
    <3>1. o \in Ops /\ OpInv(o) /\ o # NoOp
      BY OpsAssumption DEF IInv, TypeOK
    <3>2. \A t \in tasks : t.op = o => budget[o] # Unlimited
      BY <3>1 DEF IInv, TaskInv
    <3> QED BY <3>1, <3>2 DEF OpInv
  <2> QED BY <2>1, <2>2 DEF TimeoutArmed
<1> QED BY <1>1, InvariantCorrect, PTL

\* An operation the exchange has answered only times out when it was given no
\* more than one round trip.
THEOREM NoSpuriousTimeoutCorrect == Spec => []NoSpuriousTimeout
<1>1. IInv => NoSpuriousTimeout
  <2> SUFFICES ASSUME IInv, NEW o \in answered, outcome[o] = "timeout"
               PROVE  budget[o] # Unlimited /\ budget[o] <= 2 * Delay
    BY DEF NoSpuriousTimeout
  <2>1. o \in Ops
    BY DEF IInv, TypeOK
  <2> QED BY <2>1 DEF IInv, OpInv
<1> QED BY <1>1, InvariantCorrect, PTL

\* The loop is only left when everything that was due has been done.
THEOREM EverythingDueDoneCorrect == Spec => []EverythingDueDone
<1>1. IInv => EverythingDueDone
  BY DEF IInv
<1> QED BY <1>1, InvariantCorrect, PTL

\* m_datetime never decreases.
THEOREM ClockMonotoneCorrect == Spec => ClockMonotone
<1>1. IInv /\ [Next]_vars => now <= now'
  <2> SUFFICES ASSUME IInv, [Next]_vars PROVE now <= now'
    OBVIOUS
  <2>1. /\ now \in Nat /\ now <= RootTime /\ RootTime \in Nat
        /\ \A t \in tasks : t.at \in Nat
    BY ComponentTypes, RootTimeFacts DEF IInv
  <2>2. RunTask => now <= now'
    BY <2>1 DEF RunTask, Executed, Max2
  <2> QED BY <2>1, <2>2
     DEF Next, ProcessMarket, UserCode, DeliverRequest, DeliverCallback, ReadRecord,
         Eof, SetTimer, CancelTimer, StartOp, CloseOp, UserTurn, EndPoll, Finished, vars
<1>2. IInv /\ [Next]_vars => [now <= now']_vars
  BY <1>1
<1> QED BY <1>2, InvariantCorrect, PTL DEF Spec, ClockMonotone

\* Outcomes are only written by four actions, each for an operation that is
\* pending and so has none yet.
LEMMA OutcomeStep ==
  ASSUME IInv, [Next]_vars, NEW o \in Ops, outcome'[o] # outcome[o]
  PROVE  /\ outcome[o] = "none"
         /\ \/ DeliverCallback /\ outcome'[o] = "success"
            \/ RunTask /\ outcome'[o] = "timeout"
            \/ CloseOp /\ outcome'[o] = "closed"
<1>1. pending \subseteq Ops /\ outcome \in [Ops -> Outcomes]
  BY DEF IInv, TypeOK
<1>2. o \in pending => outcome[o] = "none"
  BY DEF IInv, OpInv
<1>3. RunTask => o \in pending /\ outcome'[o] = "timeout"
  BY <1>1 DEF RunTask, Executed, Waiting
<1>4. DeliverCallback => o \in pending /\ outcome'[o] = "success"
  BY <1>1 DEF DeliverCallback, Served
<1>5. CloseOp => o \in pending /\ outcome'[o] = "closed"
  BY <1>1 DEF CloseOp
<1>6. RunTask \/ DeliverCallback \/ CloseOp
  BY DEF Next, ProcessMarket, UserCode, DeliverRequest, ReadRecord, Eof, SetTimer,
         CancelTimer, StartOp, EndPoll, Finished, vars
<1> QED BY <1>2, <1>3, <1>4, <1>5, <1>6

\* An operation's outcome is final.
THEOREM OutcomeFinalCorrect == Spec => OutcomeFinal
<1>1. IInv /\ [Next]_vars
        => [\A o \in Ops : outcome[o] # "none" => outcome'[o] = outcome[o]]_vars
  BY OutcomeStep
<1> QED BY <1>1, InvariantCorrect, PTL DEF Spec, OutcomeFinal

\* An answer completes operations exactly two bus latencies after the start of
\* the one it answers, and no answered operation waits for longer, whatever the
\* other operations, timers and records did in between.
THEOREM RoundTripLatencyCorrect == Spec => RoundTripLatency
<1> DEFINE Prompt == \A o \in answered \cap pending : now <= started[o] + 2 * Delay
<1>1. ASSUME IInv, [Next]_vars, NEW o \in Ops, outcome'[o] = "success",
             outcome[o] # "success", Head(bus).kind = "reply"
      PROVE  now' = started[Head(bus).op] + 2 * Delay
  <2>1. DeliverCallback
    BY <1>1, OutcomeStep
  <2>2. BusDue /\ now' = RootTime
    BY <2>1 DEF DeliverCallback
  <2>3. Head(bus) = bus[1] /\ 1 \in DOMAIN bus /\ RootTime = bus[1].at
    BY <1>1, <2>2, RootTimeFacts
  <2>4. bus[1].op \in Ops /\ started[bus[1].op] \in Nat
    BY <1>1, <2>3, ComponentTypes DEF IInv
  <2>5. bus[1].at = started[bus[1].op] + Delay + Delay
    BY <1>1, <2>3 DEF IInv, EntryInv
  <2> QED BY <2>2, <2>3, <2>4, <2>5, DelayAssumption
<1>2. IInv => Prompt
  <2> SUFFICES ASSUME IInv, NEW o \in answered \cap pending
               PROVE  now <= started[o] + 2 * Delay
    OBVIOUS
  <2>1. o \in Ops /\ OpInv(o) /\ started[o] \in Nat
    BY ComponentTypes DEF IInv, TypeOK
  <2>2. PICK i \in DOMAIN bus : bus[i].kind = "reply" /\ bus[i].op = o
    BY <2>1 DEF OpInv
  <2>3. now <= bus[i].at /\ bus[i].at = started[o] + Delay + Delay
    BY <2>2 DEF IInv, EntryInv
  <2> QED BY <2>1, <2>3, DelayAssumption
<1>3. IInv /\ IInv' /\ [Next]_vars
        => [/\ \A o \in Ops :
                 outcome'[o] = "success" /\ outcome[o] # "success"
                     /\ Head(bus).kind = "reply"
                     => now' = started[Head(bus).op] + 2 * Delay
            /\ Prompt']_vars
  <2>1. IInv' => Prompt'
    BY <1>2, PTL
  <2> QED BY <1>1, <2>1
<1> QED BY <1>3, InvariantCorrect, PTL DEF Spec, RoundTripLatency

\* A timeout is reported no earlier than the duration the operation was given.
THEOREM NoEarlyTimeoutCorrect == Spec => NoEarlyTimeout
<1>1. ASSUME IInv, [Next]_vars, NEW o \in Ops, outcome'[o] = "timeout",
             outcome[o] # "timeout"
      PROVE  budget[o] # Unlimited /\ now' >= started[o] + budget[o]
  <2>1. RunTask
    BY <1>1, OutcomeStep
  <2>2. PICK t \in tasks : /\ now' = Max2(now, t.at)
                           /\ IF t.op \in pending
                              THEN outcome' = [outcome EXCEPT ![t.op] = "timeout"]
                              ELSE outcome' = outcome
    BY <2>1 DEF RunTask, Executed, Waiting
  <2>3. t.op = o
    BY <1>1, <2>2 DEF IInv, TypeOK
  <2>4. TaskInv(t) /\ o # NoOp /\ t.at \in Nat /\ now \in Nat /\ started[o] \in Nat
    BY <1>1, OpsAssumption, ComponentTypes DEF IInv
  <2>5. budget[o] # Unlimited /\ started[o] + budget[o] <= t.at
    BY <2>3, <2>4 DEF TaskInv
  <2>6. budget[o] \in Nat
    BY <1>1, <2>5, ComponentTypes DEF IInv
  <2> QED BY <2>2, <2>4, <2>5, <2>6 DEF Max2
<1>2. IInv /\ [Next]_vars
        => [\A o \in Ops : outcome'[o] = "timeout" /\ outcome[o] # "timeout"
               => budget[o] # Unlimited /\ now' >= started[o] + budget[o]]_vars
  BY <1>1
<1> QED BY <1>2, InvariantCorrect, PTL DEF Spec, NoEarlyTimeout

-----------------------------------------------------------------------------
(* The loop is a virtual clock *)

\* Nothing on the agenda lies behind the clock.
LEMMA AgendaAhead ==
  ASSUME IInv
  PROVE  now \in Nat /\ \A d \in Agenda : d \in Nat /\ now <= d
<1>1. TypeOK /\ now \in Nat /\ now <= MarketTime /\ MarketTime \in Nat
  BY MarketTimeFacts, ComponentTypes DEF IInv
<1>2. \A s \in Sources : feed[s] \in Nat /\ now <= feed[s]
  BY <1>1, MarketTimeFacts DEF TypeOK
<1>3. \A i \in DOMAIN bus : bus[i].at \in Nat /\ now <= bus[i].at
  BY <1>1, ComponentTypes DEF IInv, EntryInv
<1>4. \A t \in tasks : Due(t) \in Nat /\ now <= Due(t)
  BY <1>1, ComponentTypes DEF IInv, TaskInv, Due, Max2
<1> QED BY <1>1, <1>2, <1>3, <1>4 DEF Agenda

\* The clock stands still or jumps to the earliest instant of the agenda.
LEMMA ClockStep ==
  ASSUME IInv, [Next]_vars, now' # now
  PROVE  now' \in Agenda /\ \A d \in Agenda : now' <= d
<1>1. /\ TypeOK /\ now \in Nat /\ RootTime \in Nat /\ RootTime <= MarketTime
      /\ now <= RootTime /\ MarketTime \in Nat
      /\ \A s \in Sources : feed[s] \in Nat /\ MarketTime <= feed[s]
      /\ \A i \in DOMAIN bus : bus[i].at \in Nat /\ RootTime <= bus[i].at
      /\ \A t \in tasks : t.at \in Nat /\ t.born \in Nat /\ t.born <= now
                          /\ Due(t) \in Nat /\ t.at <= Due(t)
  BY RootTimeFacts, MarketTimeFacts, ComponentTypes DEF IInv, TypeOK, TaskInv, Due, Max2
<1>2. MarketTime \in {feed[s] : s \in Sources}
  BY <1>1, LeastFeed DEF MarketTime, TypeOK
<1>3. CASE RunTask
  <2>1. PICK t \in tasks : /\ t.at <= RootTime /\ now' = Max2(now, t.at)
                           /\ \A u \in tasks : Precedes(t, u)
    BY <1>3 DEF RunTask, Executed
  <2>2. now' = t.at /\ now' = Due(t)
    BY <2>1, <1>1 DEF Max2, Due
  <2>3. \A u \in tasks : t.at <= Due(u)
    <3>1. \A u \in tasks : t.at <= u.at
      BY <2>1, <1>1 DEF Precedes
    <3> QED BY <3>1, <1>1
  <2>4. /\ \A s \in Sources : t.at <= feed[s]
        /\ \A i \in DOMAIN bus : t.at <= bus[i].at
    BY <2>1, <1>1
  <2> QED BY <2>2, <2>3, <2>4 DEF Agenda
<1>4. CASE DeliverRequest \/ DeliverCallback \/ ReadRecord \/ Eof
  <2>1. now' = RootTime /\ ~TaskDue
    BY <1>4 DEF DeliverRequest, DeliverCallback, ReadRecord, Eof
  <2>2. RootTime \in Agenda
    <3>1. CASE BusDue
      BY <3>1, RootTimeFacts DEF Agenda
    <3>2. CASE ~BusDue
      BY <3>2, <1>2, RootTimeFacts DEF Agenda
    <3> QED BY <3>1, <3>2
  <2>3. \A t \in tasks : RootTime <= Due(t)
    BY <2>1, <1>1 DEF TaskDue
  <2>4. \A s \in Sources : RootTime <= feed[s]
    BY <1>1
  <2> QED BY <2>1, <2>2, <2>3, <2>4, <1>1 DEF Agenda
<1> QED
  BY <1>3, <1>4 DEF Next, ProcessMarket, UserCode, SetTimer, CancelTimer, StartOp,
     CloseOp, UserTurn, EndPoll, Finished, vars

\* process_market with its three sources of work implements one virtual clock.
THEOREM VirtualTimeRefined == Spec => ImplementsVirtualTime
<1> DEFINE Ahead == now \in Nat /\ \A d \in Agenda : d \in Nat /\ now <= d
<1>1. Init => Clock!Init
  BY InvariantInit, AgendaAhead DEF Clock!Init
<1>2. IInv => Ahead
  BY AgendaAhead
<1>3. IInv /\ Ahead' /\ [Next]_vars => [Clock!Next]_<<now, Agenda>>
  <2>1. SUFFICES ASSUME IInv, Ahead', [Next]_vars PROVE Clock!Next
    OBVIOUS
  <2>2. CASE now' = now
    BY <2>1, <2>2 DEF Clock!Next, Clock!Plan, Clock!Ahead
  <2>3. CASE now' # now
    BY <2>1, <2>3, ClockStep DEF Clock!Next, Clock!Advance, Clock!Ahead
  <2> QED BY <2>2, <2>3
<1> HIDE DEF Ahead
<1> QED
  BY <1>1, <1>2, <1>3, InvariantCorrect, PTL DEF Spec, ImplementsVirtualTime, Clock!Spec
=============================================================================
