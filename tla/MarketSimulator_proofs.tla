---------------------- MODULE MarketSimulator_proofs ----------------------
(****************************************************************************)
(* Proofs about MarketSimulator: for any ids, any finite set of prices and  *)
(* any bounds on volumes, what the simulator reports of an order adds up    *)
(* and is what m_orders keeps of it, prices are respected, a sweep and a    *)
(* deal are shared out as price and queue priority say, and the simulator   *)
(* implements Exchange.                                                     *)
(*                                                                          *)
(* The loops of the code are recursive functions over the positions of a    *)
(* sequence. What holds of every position is proved by the least position   *)
(* at which it fails (FirstFailure); what a loop computes is an invariant   *)
(* of it that is written down with it: TookBest for the sweep, PassedWell,  *)
(* Served and Shared for a deal.                                            *)
(*                                                                          *)
(* IInv says of every order that its reports are a life (Lived: each        *)
(* follows from the one before) and that m_orders keeps what the last of    *)
(* them leaves (Standing). That makes each step a matter of one report, and *)
(* LifeAddsUp turns it into the sums of the ledger.                         *)
(****************************************************************************)
EXTENDS MarketSimulator, TLAPS, FiniteSetTheorems, SequenceTheorems, WellFoundedInduction

-----------------------------------------------------------------------------
(* Numbers *)

\* A non-empty set of natural numbers has a least element: the induction of
\* this module.
LEMMA LeastOne ==
  ASSUME NEW S \in SUBSET Nat, S # {}
  PROVE  \E m \in S : \A k \in S : m <= k
<1>1. IsWellFoundedOn(OpToRel(<, Nat), Nat)
  BY NatLessThanWellFounded, Zenon
<1>2. PICK m \in S : \A k \in S : ~ (<<k, m>> \in OpToRel(<, Nat))
  BY <1>1, WFMin, Zenon
<1>3. ASSUME NEW k \in S PROVE m <= k
  <2>1. k < m => <<k, m>> \in OpToRel(<, Nat)
    BY Zenon DEF OpToRel
  <2>2. ~(k < m)
    BY <1>2, <2>1, Zenon
  <2> QED BY <2>2
<1> QED BY <1>3

\* What fails for some number fails for a first one.
LEMMA FirstFailure ==
  ASSUME NEW n \in Nat, NEW S \in SUBSET (0..n), 0 \in S, ~ (0..n) \subseteq S
  PROVE  \E k \in 1..n : k \notin S /\ k - 1 \in S
<1> DEFINE T == (0..n) \ S
<1>1. T \in SUBSET Nat /\ T # {}
  OBVIOUS
<1>2. PICK m \in T : \A k \in T : m <= k
  <2> HIDE DEF T
  <2> QED BY <1>1, LeastOne
<1>3. m # 0 /\ m \in 1..n /\ m \notin S
  BY <1>2
<1>4. m - 1 \in S
  BY <1>2, <1>3
<1> QED BY <1>3, <1>4

LEMMA MinOfTwo ==
  ASSUME NEW a \in Int, NEW b \in Int
  PROVE  Min({a, b}) = IF a <= b THEN a ELSE b
<1>1. \E x \in {a, b} : \A y \in {a, b} : x =< y
  OBVIOUS
<1>2. Min({a, b}) \in {a, b} /\ \A y \in {a, b} : Min({a, b}) =< y
  BY <1>1 DEF Min
<1> QED BY <1>2

LEMMA MaxOfTwo ==
  ASSUME NEW a \in Int, NEW b \in Int
  PROVE  Max({a, b}) = IF a >= b THEN a ELSE b
<1>1. \E x \in {a, b} : \A y \in {a, b} : x >= y
  OBVIOUS
<1>2. Max({a, b}) \in {a, b} /\ \A y \in {a, b} : Max({a, b}) >= y
  BY <1>1 DEF Max
<1> QED BY <1>2

LEMMA PartIs ==
  ASSUME NEW v \in Int, NEW whole \in Nat
  PROVE  Part(v, whole) = IF v <= 0 THEN 0 ELSE IF v <= whole THEN v ELSE whole
<1>1. Min({v, whole}) \in Int /\ Min({v, whole}) = IF v <= whole THEN v ELSE whole
  BY MinOfTwo
<1>2. Max({0, Min({v, whole})}) = IF 0 >= Min({v, whole}) THEN 0 ELSE Min({v, whole})
  BY <1>1, MaxOfTwo
<1> QED BY <1>1, <1>2 DEF Part

-----------------------------------------------------------------------------
(* Sums *)

\* g is the function of the sums of f.
Sums(g, f, n) == g = [k \in 0..n |-> IF k = 0 THEN 0 ELSE g[k - 1] + f[k]]

LEMMA SumsExist ==
  ASSUME NEW n \in Nat, NEW f
  PROVE  \E g : Sums(g, f, n)
<1> DEFINE S == {k \in 0..n : \E g : Sums(g, f, k)}
<1>1. 0 \in S
  <2>1. Sums([k \in 0..0 |-> 0], f, 0)
    BY DEF Sums
  <2> QED BY <2>1
<1>2. ASSUME NEW m \in 1..n, m - 1 \in S PROVE m \in S
  <2>1. PICK g : Sums(g, f, m - 1)
    BY <1>2
  <2> DEFINE h == [k \in 0..m |-> IF k = m THEN g[m - 1] + f[m] ELSE g[k]]
  <2>2. ASSUME NEW k \in 0..m
        PROVE  h[k] = IF k = 0 THEN 0 ELSE h[k - 1] + f[k]
    <3>1. CASE k = m
      BY <3>1
    <3>2. CASE k # m
      <4>1. k \in 0..(m - 1) /\ (k # 0 => k - 1 \in 0..(m - 1))
        BY <3>2
      <4>2. g[k] = IF k = 0 THEN 0 ELSE g[k - 1] + f[k]
        BY <2>1, <4>1 DEF Sums
      <4>3. h[k] = g[k] /\ (k # 0 => h[k - 1] = g[k - 1])
        BY <3>2, <4>1
      <4> QED BY <4>2, <4>3
    <3> QED BY <3>1, <3>2
  <2>3. h = [k \in 0..m |-> IF k = 0 THEN 0 ELSE h[k - 1] + f[k]]
    <3>1. h = [k \in 0..m |-> h[k]]
      OBVIOUS
    <3> HIDE DEF h
    <3> QED BY <3>1, <2>2
  <2>4. Sums(h, f, m)
    BY <2>3 DEF Sums
  <2> QED BY <2>4
<1> HIDE DEF S
<1>3. S \in SUBSET (0..n)
  BY DEF S
<1>4. n \in S
  BY <1>1, <1>2, <1>3, FirstFailure
<1> QED BY <1>4 DEF S

\* The sums of functions that agree agree.
LEMMA SumsUnique ==
  ASSUME NEW n \in Nat, NEW m \in Nat, n <= m, NEW f, NEW h, \A k \in 1..n : f[k] = h[k],
         NEW g1, NEW g2, Sums(g1, f, n), Sums(g2, h, m)
  PROVE  g1[n] = g2[n]
<1> DEFINE S == {k \in 0..n : g1[k] = g2[k]}
<1>1. 0 \in S
  BY DEF Sums
<1>2. ASSUME NEW k \in 1..n, k - 1 \in S PROVE k \in S
  <2>1. g1[k] = g1[k - 1] + f[k] /\ g2[k] = g2[k - 1] + h[k]
    BY DEF Sums
  <2> QED BY <1>2, <2>1
<1> HIDE DEF S
<1>3. S \in SUBSET (0..n)
  BY DEF S
<1>4. n \in S
  BY <1>1, <1>2, <1>3, FirstFailure
<1> QED BY <1>4 DEF S

LEMMA TotalIs ==
  ASSUME NEW n \in Nat, NEW f
  PROVE  \E g : Sums(g, f, n) /\ Total(f, n) = g[n]
<1> DEFINE g == CHOOSE g : Sums(g, f, n)
<1>1. Sums(g, f, n)
  BY SumsExist
<1>2. Total(f, n) = g[n]
  BY Zenon DEF Total, Sums
<1> QED BY <1>1, <1>2

LEMMA TotalZero ==
  ASSUME NEW f
  PROVE  Total(f, 0) = 0
BY TotalIs DEF Sums

LEMMA TotalSame ==
  ASSUME NEW n \in Nat, NEW f, NEW h, \A k \in 1..n : f[k] = h[k]
  PROVE  Total(f, n) = Total(h, n)
BY TotalIs, SumsUnique

LEMMA TotalNext ==
  ASSUME NEW n \in Nat, NEW f, NEW h, \A k \in 1..n : f[k] = h[k]
  PROVE  Total(f, n + 1) = Total(h, n) + f[n + 1]
<1>1. PICK g : Sums(g, f, n + 1) /\ Total(f, n + 1) = g[n + 1]
  BY TotalIs
<1>2. PICK g2 : Sums(g2, h, n) /\ Total(h, n) = g2[n]
  BY TotalIs
<1>3. g2[n] = g[n]
  BY <1>1, <1>2, SumsUnique, n <= n + 1, n + 1 \in Nat
<1>4. g[n + 1] = g[n] + f[n + 1]
  BY <1>1, n + 1 \in 0..(n + 1), n + 1 # 0, (n + 1) - 1 = n DEF Sums
<1> QED BY <1>1, <1>2, <1>3, <1>4

LEMMA TotalType ==
  ASSUME NEW n \in Nat, NEW f, \A k \in 1..n : f[k] \in Int
  PROVE  Total(f, n) \in Int /\ ((\A k \in 1..n : f[k] >= 0) => Total(f, n) >= 0)
<1>1. PICK g : Sums(g, f, n) /\ Total(f, n) = g[n]
  BY TotalIs
<1> DEFINE S == {k \in 0..n : g[k] \in Int /\ ((\A j \in 1..n : f[j] >= 0) => g[k] >= 0)}
<1>2. 0 \in S
  BY <1>1 DEF Sums
<1>3. ASSUME NEW k \in 1..n, k - 1 \in S PROVE k \in S
  <2>1. g[k] = g[k - 1] + f[k]
    BY <1>1 DEF Sums
  <2> QED BY <1>3, <2>1
<1> HIDE DEF S
<1>4. S \in SUBSET (0..n)
  BY DEF S
<1>5. n \in S
  BY <1>2, <1>3, <1>4, FirstFailure
<1> QED BY <1>1, <1>5 DEF S

LEMMA TotalZeros ==
  ASSUME NEW n \in Nat, NEW f, \A k \in 1..n : f[k] = 0
  PROVE  Total(f, n) = 0
<1> DEFINE S == {k \in 0..n : Total(f, k) = 0}
<1>1. 0 \in S
  BY TotalZero
<1>2. ASSUME NEW k \in 1..n, k - 1 \in S PROVE k \in S
  <2>1. Total(f, (k - 1) + 1) = Total(f, k - 1) + f[(k - 1) + 1] /\ (k - 1) + 1 = k /\ k - 1 \in Nat
    BY TotalNext, k - 1 \in Nat, (k - 1) + 1 = k
  <2> QED BY <1>2, <2>1
<1>3. S \in SUBSET (0..n)
  OBVIOUS
<1> HIDE DEF S
<1>4. n \in S
  BY <1>1, <1>2, <1>3, FirstFailure
<1> QED BY <1>4 DEF S

\* A sum in which one term changes
LEMMA TotalChanges ==
  ASSUME NEW n \in Nat, NEW f, NEW h, NEW x \in 1..n, NEW c \in Int, h[x] = f[x] + c,
         \A k \in 1..n : f[k] \in Int, \A k \in 1..n : k # x => h[k] = f[k]
  PROVE  Total(h, n) = Total(f, n) + c
<1> DEFINE S == {k \in 0..n : Total(h, k) = Total(f, k) + (IF x <= k THEN c ELSE 0)}
<1>1. \A k \in 0..n : Total(f, k) \in Int
  BY TotalType
<1>2. 0 \in S
  BY TotalZero
<1>3. ASSUME NEW k \in 1..n, k - 1 \in S PROVE k \in S
  <2>1. k - 1 \in Nat /\ (k - 1) + 1 = k /\ k - 1 \in 0..n
    OBVIOUS
  <2>2. Total(f, k) = Total(f, k - 1) + f[k] /\ Total(h, k) = Total(h, k - 1) + h[k]
    BY <2>1, TotalNext
  <2>3. Total(f, k - 1) \in Int /\ f[k] \in Int
    BY <1>1, <2>1
  <2>4. Total(h, k - 1) = Total(f, k - 1) + (IF x <= k - 1 THEN c ELSE 0)
    BY <1>3
  <2>5. CASE k = x
    BY <2>2, <2>3, <2>4, <2>5
  <2>6. CASE k # x
    <3>1. h[k] = f[k] /\ (x <= k <=> x <= k - 1)
      BY <2>6
    <3> QED BY <2>2, <2>3, <2>4, <3>1
  <2> QED BY <2>5, <2>6
<1>4. S \in SUBSET (0..n)
  OBVIOUS
<1> HIDE DEF S
<1>5. n \in S
  BY <1>2, <1>3, <1>4, FirstFailure
<1> QED BY <1>1, <1>5 DEF S

-----------------------------------------------------------------------------
(* Quotes in the order of their prices *)

\* The aggressor's order of prices is strict and total.
LEMMA BeforeOrders ==
  ASSUME NEW d \in Dirs, NEW p \in Nat, NEW q \in Nat, NEW r \in Nat
  PROVE  /\ ~Before(d, p, p)
         /\ Before(d, p, q) \/ p = q \/ Before(d, q, p)
         /\ Before(d, p, q) => ~Before(d, q, p) /\ p # q
         /\ Before(d, p, q) /\ Before(d, q, r) => Before(d, p, r)
BY DEF Dirs, Before

LEMMA WorstExists ==
  ASSUME NEW d \in Dirs, NEW S \in SUBSET Nat, IsFiniteSet(S), S # {}
  PROVE  \E w \in S : \A q \in S : q # w => Before(d, q, w)
<1> DEFINE Has(T) == \E w \in T : \A q \in T : q # w => Before(d, q, w)
           Bad == {n \in Nat : \E T \in SUBSET Nat : /\ IsFiniteSet(T) /\ T # {}
                                                     /\ Cardinality(T) = n /\ ~Has(T)}
<1>1. ASSUME Bad # {} PROVE FALSE
  <2>1. Bad \in SUBSET Nat
    OBVIOUS
  <2>2. PICK n \in Bad : \A m \in Bad : n <= m
    <3> HIDE DEF Bad
    <3> QED BY <1>1, <2>1, LeastOne
  <2>3. PICK T \in SUBSET Nat : IsFiniteSet(T) /\ T # {} /\ Cardinality(T) = n /\ ~Has(T)
    BY <2>2
  <2>4. PICK x \in T : TRUE
    BY <2>3
  <2> DEFINE U == T \ {x}
  <2>5. IsFiniteSet(U) /\ Cardinality(U) = n - 1 /\ Cardinality(U) \in Nat /\ U \in SUBSET Nat
    BY <2>3, <2>4, FS_RemoveElement, FS_CardinalityType
  <2>6. U # {}
    <3> SUFFICES ASSUME U = {} PROVE FALSE
      OBVIOUS
    <3>1. \A q \in T : q = x
      OBVIOUS
    <3> QED BY <2>3, <2>4, <3>1
  <2>7. Has(U)
    <3>1. n - 1 \in Nat /\ ~(n <= n - 1)
      BY <2>2, <2>5
    <3>2. n - 1 \notin Bad
      BY <2>2, <3>1
    <3> QED BY <2>5, <2>6, <3>1, <3>2
  <2>8. PICK w \in U : \A q \in U : q # w => Before(d, q, w)
    BY <2>7
  <2>9. x \in Nat /\ w \in Nat /\ w # x
    BY <2>3, <2>4
  <2>10. CASE Before(d, x, w)
    <3>1. \A q \in T : q # w => Before(d, q, w)
      BY <2>8, <2>10
    <3> QED BY <2>3, <3>1
  <2>11. CASE Before(d, w, x)
    <3>1. ASSUME NEW q \in T, q # x PROVE Before(d, q, x)
      <4>1. q \in Nat /\ (q = w \/ Before(d, q, w))
        BY <2>3, <2>8, <3>1
      <4> QED BY <2>9, <2>11, <4>1, BeforeOrders
    <3> QED BY <2>3, <2>4, <3>1
  <2> QED BY <2>9, <2>10, <2>11, BeforeOrders
<1>2. Cardinality(S) \in Nat /\ Cardinality(S) \notin Bad
  BY <1>1, FS_CardinalityType
<1> QED BY <1>2

Increasing(d, s) == \A a, b \in DOMAIN s : a < b => Before(d, s[a], s[b])

LEMMA SortedExists ==
  ASSUME NEW d \in Dirs, NEW S \in SUBSET Nat, IsFiniteSet(S)
  PROVE  \E s \in SetToSeqs(S) : Increasing(d, s)
<1> DEFINE Has(T) == \E s \in SetToSeqs(T) : Increasing(d, s)
           Bad == {n \in Nat : \E T \in SUBSET Nat : IsFiniteSet(T) /\ Cardinality(T) = n /\ ~Has(T)}
<1>1. ASSUME Bad # {} PROVE FALSE
  <2>1. Bad \in SUBSET Nat
    OBVIOUS
  <2>2. PICK n \in Bad : \A m \in Bad : n <= m
    <3> HIDE DEF Bad
    <3> QED BY <1>1, <2>1, LeastOne
  <2>3. PICK T \in SUBSET Nat : IsFiniteSet(T) /\ Cardinality(T) = n /\ ~Has(T)
    BY <2>2
  <2>4. n \in Nat
    BY <2>2
  <2>5. CASE n = 0
    <3>1. 1..Cardinality(T) = {}
      BY <2>3, <2>5
    <3>2. <<>> \in [1..Cardinality(T) -> T]
      BY <3>1
    <3>3. <<>> \in SetToSeqs(T)
      BY <3>1, <3>2 DEF SetToSeqs
    <3>4. Increasing(d, <<>>)
      BY DEF Increasing
    <3> QED BY <2>3, <3>3, <3>4
  <2>6. CASE n # 0
    <3>1. T # {}
      BY <2>3, <2>6, FS_EmptySet
    <3>2. PICK w \in T : \A q \in T : q # w => Before(d, q, w)
      BY <2>3, <3>1, WorstExists
    <3> DEFINE U == T \ {w}
    <3>3. IsFiniteSet(U) /\ Cardinality(U) = n - 1 /\ Cardinality(U) \in Nat /\ U \in SUBSET Nat
      BY <2>3, <3>2, FS_RemoveElement, FS_CardinalityType
    <3>4. Has(U)
      <4>1. n - 1 \in Nat /\ ~(n <= n - 1)
        BY <2>4, <3>3
      <4>2. n - 1 \notin Bad
        BY <2>2, <4>1
      <4> QED BY <3>3, <4>1, <4>2
    <3>5. PICK u \in SetToSeqs(U) : Increasing(d, u)
      BY <3>4
    <3>6. u \in [1..(n - 1) -> U] /\ \A a, b \in 1..(n - 1) : a # b => u[a] # u[b]
      BY <3>3, <3>5 DEF SetToSeqs
    <3> DEFINE s == [k \in 1..n |-> IF k = n THEN w ELSE u[k]]
    <3>7. \A k \in 1..n : k = n \/ k \in 1..(n - 1)
      BY <2>4
    <3>8. s \in [1..n -> T]
      BY <3>6, <3>7
    <3>9. \A a \in 1..n : (a = n => s[a] = w) /\ (a # n => s[a] = u[a] /\ s[a] \in U)
      BY <3>6, <3>7
    <3>10. ASSUME NEW a \in 1..n, NEW b \in 1..n, a # b PROVE s[a] # s[b]
      <4> HIDE DEF s
      <4> QED BY <3>6, <3>7, <3>9, <3>10
    <3>11. s \in SetToSeqs(T)
      <4> HIDE DEF s
      <4> QED BY <2>3, <3>8, <3>10 DEF SetToSeqs
    <3>12. ASSUME NEW a \in 1..n, NEW b \in 1..n, a < b PROVE Before(d, s[a], s[b])
      <4> HIDE DEF s
      <4>1. a # n /\ a \in 1..(n - 1)
        BY <3>7, <3>12
      <4>2. CASE b = n
        <5>1. s[a] \in T /\ s[a] # w /\ s[b] = w
          BY <3>9, <4>1, <4>2
        <5> QED BY <3>2, <5>1
      <4>3. CASE b # n
        <5>1. b \in 1..(n - 1) /\ s[a] = u[a] /\ s[b] = u[b]
          BY <3>7, <3>9, <4>1, <4>3
        <5>2. DOMAIN u = 1..(n - 1)
          BY <3>6
        <5> QED BY <3>5, <3>12, <4>1, <5>1, <5>2 DEF Increasing
      <4> QED BY <4>2, <4>3
    <3>13. Increasing(d, s)
      <4>1. DOMAIN s = 1..n
        OBVIOUS
      <4> HIDE DEF s
      <4> QED BY <3>12, <4>1 DEF Increasing
    <3> QED BY <2>3, <3>11, <3>13
  <2> QED BY <2>5, <2>6
<1>2. Cardinality(S) \in Nat /\ Cardinality(S) \notin Bad
  BY <1>1, FS_CardinalityType
<1> QED BY <1>2

\* A sequence of all elements of a finite set
LEMMA ListOf ==
  ASSUME NEW S, IsFiniteSet(S), NEW s \in SetToSeqs(S)
  PROVE  /\ s \in Seq(S) /\ Len(s) = Cardinality(S) /\ Len(s) \in Nat /\ DOMAIN s = 1..Len(s)
         /\ \A a \in 1..Len(s) : s[a] \in S
         /\ \A a, b \in 1..Len(s) : a # b => s[a] # s[b]
         /\ \A x \in S : \E a \in 1..Len(s) : s[a] = x
<1> DEFINE n == Cardinality(S)
<1>1. n \in Nat
  BY FS_CardinalityType
<1>2. s \in [1..n -> S] /\ \A a, b \in 1..n : a # b => s[a] # s[b]
  BY DEF SetToSeqs
<1>3. s \in Seq(S) /\ Len(s) = n /\ DOMAIN s = 1..n
  BY <1>1, <1>2
<1>4. \A x \in S : \E a \in 1..n : s[a] = x
  <2>1. s \in Injection(1..n, S)
    BY <1>2 DEF Injection, IsInjective
  <2>2. IsFiniteSet(1..n) /\ Cardinality(1..n) = n
    BY <1>1, FS_Interval
  <2>3. s \in Surjection(1..n, S)
    BY <2>1, <2>2, FS_Injection
  <2> QED BY <2>3 DEF Surjection
<1> QED BY <1>1, <1>2, <1>3, <1>4

Booked == book \in [Prices -> -MaxQuote..MaxQuote]

LEMMA QuotedType ==
  ASSUME Booked, NEW d \in Dirs, NEW p \in Prices
  PROVE  /\ p \in Nat \ {0} /\ Quoted(d, p) \in Int /\ Quoted(d, p) <= MaxQuote
         /\ QueueAt(d, p) \in 0..MaxQuote
<1>1. book[p] \in -MaxQuote..MaxQuote /\ MaxQuote \in Nat /\ p \in Nat \ {0}
  BY PricesAssumption, VolumesAssumption DEF Booked
<1>2. Quoted(d, p) \in Int /\ Quoted(d, p) <= MaxQuote /\ -Quoted(d, p) <= MaxQuote
  BY <1>1 DEF Quoted
<1>3. QueueAt(d, p) = IF 0 >= -Quoted(d, p) THEN 0 ELSE -Quoted(d, p)
  BY <1>2, MaxOfTwo, -Quoted(d, p) \in Int DEF QueueAt
<1> QED BY <1>1, <1>2, <1>3

LEMMA BestFirstLists ==
  ASSUME Booked, NEW d \in Dirs
  PROVE  /\ IsFiniteSet(Offers(d)) /\ Offers(d) \in SUBSET Nat
         /\ BestFirst(d) \in SetToSeqs(Offers(d)) /\ Increasing(d, BestFirst(d))
         /\ Len(BestFirst(d)) \in Nat
         /\ \A k \in 1..Len(BestFirst(d)) : BestFirst(d)[k] \in Offers(d)
<1>1. IsFiniteSet(Offers(d)) /\ Offers(d) \in SUBSET Nat
  BY PricesAssumption, FS_Subset, Offers(d) \in SUBSET Prices DEF Offers
<1>2. \E s \in SetToSeqs(Offers(d)) : \A a, b \in DOMAIN s : a < b => Before(d, s[a], s[b])
  BY <1>1, SortedExists DEF Increasing
<1>3. BestFirst(d) \in SetToSeqs(Offers(d)) /\ Increasing(d, BestFirst(d))
  BY <1>2 DEF BestFirst, Increasing
<1> QED BY <1>1, <1>3, ListOf

-----------------------------------------------------------------------------
(* The loop over the quotes *)

SweptBy(g, o) ==
    g = [k \in 0..Len(BestFirst(o.dir)) |->
            IF k = 0 THEN [volume |-> o.volume, beyond |-> FALSE, fills |-> <<>>]
            ELSE Take(o, g[k - 1], BestFirst(o.dir)[k])]

\* The loop over the quotes has a state after each quote.
LEMMA SweptExists ==
  ASSUME NEW o, Len(BestFirst(o.dir)) \in Nat
  PROVE  SweptBy(Swept(o), o)
<1> DEFINE n == Len(BestFirst(o.dir))
           start == [volume |-> o.volume, beyond |-> FALSE, fills |-> <<>>]
           Upto(g, m) == g = [k \in 0..m |-> IF k = 0 THEN start
                                             ELSE Take(o, g[k - 1], BestFirst(o.dir)[k])]
           S == {k \in 0..n : \E g : Upto(g, k)}
<1>1. 0 \in S
  <2>1. Upto([k \in 0..0 |-> start], 0)
    <3> HIDE DEF start
    <3> QED OBVIOUS
  <2> HIDE DEF Upto
  <2> QED BY <2>1
<1>2. ASSUME NEW m \in 1..n, m - 1 \in S PROVE m \in S
  <2>1. PICK g : Upto(g, m - 1)
    BY <1>2
  <2> HIDE DEF start
  <2> DEFINE h == [k \in 0..m |-> IF k = m THEN Take(o, g[m - 1], BestFirst(o.dir)[m]) ELSE g[k]]
  <2>2. ASSUME NEW k \in 0..m
        PROVE  h[k] = IF k = 0 THEN start ELSE Take(o, h[k - 1], BestFirst(o.dir)[k])
    <3>1. CASE k = m
      BY <3>1
    <3>2. CASE k # m
      <4>1. k \in 0..(m - 1) /\ (k # 0 => k - 1 \in 0..(m - 1))
        BY <3>2
      <4>2. g[k] = IF k = 0 THEN start ELSE Take(o, g[k - 1], BestFirst(o.dir)[k])
        BY <2>1, <4>1
      <4>3. h[k] = g[k] /\ (k # 0 => h[k - 1] = g[k - 1])
        BY <3>2, <4>1
      <4> QED BY <4>2, <4>3
    <3> QED BY <3>1, <3>2
  <2>3. Upto(h, m)
    <3>1. h = [k \in 0..m |-> h[k]]
      OBVIOUS
    <3> HIDE DEF h
    <3> QED BY <3>1, <2>2
  <2> HIDE DEF Upto
  <2> QED BY <2>3
<1>3. n \in S
  <2>1. S \in SUBSET (0..n)
    OBVIOUS
  <2>2. n \in 0..n
    OBVIOUS
  <2> HIDE DEF S, n
  <2> QED BY <1>1, <1>2, <2>1, <2>2, FirstFailure DEF n
<1>4. PICK g : SweptBy(g, o)
  BY <1>3 DEF SweptBy
<1> QED BY <1>4, Zenon DEF Swept, SweptBy

-----------------------------------------------------------------------------
(* What the sweep takes *)

LEMMA TopPrice == Max(Prices) \in Nat /\ \A p \in Prices : p \in 1..Max(Prices)
<1>1. Prices \in SUBSET Nat /\ IsFiniteSet(Prices) /\ Prices # {} /\ 0 \notin Prices
  BY PricesAssumption
<1>2. PICK w \in Prices : \A q \in Prices : q # w => Before("Bid", q, w)
  BY <1>1, WorstExists DEF Dirs
<1>3. \A q \in Prices : w >= q
  BY <1>1, <1>2 DEF Before
<1>4. Max(Prices) \in Prices /\ \A q \in Prices : Max(Prices) >= q
  BY <1>3, Zenon DEF Max
<1>5. ASSUME NEW p \in Prices PROVE p \in Nat /\ p # 0 /\ Max(Prices) \in Nat /\ Max(Prices) >= p
  BY <1>1, <1>4
<1>6. Max(Prices) \in Nat
  BY <1>1, <1>4
<1>7. ASSUME NEW p \in Prices PROVE p \in 1..Max(Prices)
  BY <1>5
<1> QED BY <1>6, <1>7

LEMMA QuotedNone ==
  ASSUME NEW d
  PROVE  QuotedIn(d, {}) = 0
BY TopPrice, TotalZeros DEF QuotedIn

LEMMA QuotedMore ==
  ASSUME Booked, NEW d \in Dirs, NEW S \in SUBSET Prices, NEW x \in Prices, x \notin S
  PROVE  /\ QuotedIn(d, S \cup {x}) = QuotedIn(d, S) + Quoted(d, x)
         /\ QuotedIn(d, S) \in Int
<1> DEFINE n == Max(Prices)
           f(T) == [p \in 1..n |-> IF p \in T THEN Quoted(d, p) ELSE 0]
<1>1. n \in Nat /\ x \in 1..n
  BY TopPrice
<1>2. \A p \in Prices : Quoted(d, p) \in Int
  BY QuotedType
<1>3. \A k \in 1..n : f(S)[k] \in Int
  BY <1>2
<1>4. f(S \cup {x})[x] = f(S)[x] + Quoted(d, x)
  <2>1. f(S \cup {x})[x] = Quoted(d, x) /\ f(S)[x] = 0
    BY <1>1
  <2> HIDE DEF f
  <2> QED BY <1>2, <2>1
<1>5. \A k \in 1..n : k # x => f(S \cup {x})[k] = f(S)[k]
  OBVIOUS
<1>6. \A T : QuotedIn(d, T) = Total(f(T), n)
  BY DEF QuotedIn
<1> HIDE DEF f, n
<1>7. Total(f(S \cup {x}), n) = Total(f(S), n) + Quoted(d, x)
  BY <1>1, <1>2, <1>3, <1>4, <1>5, TotalChanges
<1>8. Total(f(S), n) \in Int
  BY <1>1, <1>3, TotalType
<1> QED BY <1>6, <1>7, <1>8

FillReports == {Filled(v, r, p) : v \in Int, r \in Int, p \in Prices}

LEMMA TakenMore ==
  ASSUME NEW h \in Seq(FillReports), NEW v \in Int, NEW r \in Int, NEW p \in Prices, NEW q
  PROVE  /\ Append(h, Filled(v, r, p)) \in Seq(FillReports)
         /\ TakenAt(Append(h, Filled(v, r, p)), q) = TakenAt(h, q) + (IF q = p THEN v ELSE 0)
         /\ TakenAt(h, q) \in Int
<1> DEFINE e == Filled(v, r, p)
           hh == Append(h, e)
           n == Len(h)
           f(g) == [k \in DOMAIN g |-> IF g[k].at = q THEN g[k].volume ELSE 0]
<1>1. e \in FillReports /\ e.at = p /\ e.volume = v
  BY DEF FillReports, Filled
<1> HIDE DEF e
<1>2. hh \in Seq(FillReports) /\ Len(hh) = n + 1 /\ hh[n + 1] = e /\ n \in Nat
      /\ \A k \in 1..n : hh[k] = h[k]
  BY <1>1, AppendProperties
<1>3. DOMAIN h = 1..n /\ DOMAIN hh = 1..(n + 1)
  BY <1>2
<1> HIDE DEF hh
<1>4. \A k \in 1..n : h[k].volume \in Int
  <2>1. \A k \in 1..n : h[k] \in FillReports
    BY ElementOfSeq
  <2>2. \A x \in FillReports : x.volume \in Int
    BY DEF FillReports, Filled
  <2> QED BY <2>1, <2>2
<1>5. \A k \in 1..n : f(h)[k] \in Int /\ f(hh)[k] = f(h)[k]
  BY <1>2, <1>3, <1>4
<1>6. f(hh)[n + 1] = IF q = p THEN v ELSE 0
  BY <1>1, <1>2, <1>3
<1>7. TakenAt(h, q) = Total(f(h), n) /\ TakenAt(hh, q) = Total(f(hh), n + 1)
  BY <1>2 DEF TakenAt
<1> HIDE DEF f, n
<1>8. Total(f(hh), n + 1) = Total(f(h), n) + f(hh)[n + 1]
  BY <1>2, <1>5, TotalNext
<1>9. Total(f(h), n) \in Int
  BY <1>2, <1>5, TotalType
<1> QED BY <1>2, <1>6, <1>7, <1>8, <1>9 DEF hh, e

LEMMA TakenNone == ASSUME NEW q PROVE TakenAt(<<>>, q) = 0
BY TotalZero DEF TakenAt

FrontOf(s, k) == {s[a] : a \in 1..k}

\* After k quotes order o has taken what it should of each of them; unless it
\* went no further, what is left of it is what they left.
TookBest(o, k, acc) ==
    LET front == FrontOf(BestFirst(o.dir), k) IN
    /\ acc \in [volume : Nat, beyond : BOOLEAN, fills : Seq(FillReports)]
    /\ \A p \in Prices : TakenAt(acc.fills, p) =
          IF p \in front /\ ~Before(o.dir, o.price, p)
          THEN Part(o.volume - QuotedIn(o.dir, BetterOffers(o.dir, p)), Quoted(o.dir, p)) ELSE 0
    /\ ~acc.beyond => acc.volume = IF o.volume <= QuotedIn(o.dir, front) THEN 0
                                   ELSE o.volume - QuotedIn(o.dir, front)
    /\ acc.beyond => \E a \in 1..k : Before(o.dir, o.price, BestFirst(o.dir)[a])

LEMMA Fronts ==
  ASSUME Booked, NEW d \in Dirs, NEW k \in 1..Len(BestFirst(d))
  PROVE  LET s == BestFirst(d) IN
         /\ s[k] \in Offers(d) /\ FrontOf(s, k - 1) \in SUBSET Prices /\ s[k] \notin FrontOf(s, k - 1)
         /\ FrontOf(s, k) = FrontOf(s, k - 1) \cup {s[k]}
         /\ BetterOffers(d, s[k]) = FrontOf(s, k - 1)
<1> DEFINE s == BestFirst(d)
           n == Len(s)
<1>1. /\ n \in Nat /\ DOMAIN s = 1..n /\ Offers(d) \subseteq Prices /\ Prices \subseteq Nat
      /\ \A a \in 1..n : s[a] \in Offers(d)
      /\ \A x \in Offers(d) : \E a \in 1..n : s[a] = x
  <2>1. IsFiniteSet(Offers(d)) /\ s \in SetToSeqs(Offers(d))
    BY BestFirstLists
  <2>2. Offers(d) \subseteq Prices /\ Prices \subseteq Nat
    BY PricesAssumption DEF Offers
  <2> HIDE DEF s
  <2> QED BY <2>1, <2>2, ListOf
<1>2. \A a, b \in 1..n : a < b => Before(d, s[a], s[b])
  BY <1>1, BestFirstLists DEF Increasing
<1>3. \A a \in 1..n : s[a] \in Nat
  BY <1>1
<1> HIDE DEF s
<1>4. \A a \in 1..(k - 1) : a \in 1..n /\ a < k
  BY <1>1 DEF s
<1>5. k \in 1..n /\ s[k] \in Offers(d) /\ s[k] \in Nat
  BY <1>1, <1>3 DEF s
<1>6. \A a \in 1..(k - 1) : Before(d, s[a], s[k]) /\ s[a] # s[k] /\ s[a] \in Offers(d)
  BY <1>1, <1>2, <1>3, <1>4, <1>5, BeforeOrders
<1>7. FrontOf(s, k) = FrontOf(s, k - 1) \cup {s[k]}
  <2>1. \A a \in 1..k : a = k \/ a \in 1..(k - 1)
    BY <1>5
  <2>2. k \in 1..k /\ \A a \in 1..(k - 1) : a \in 1..k
    BY <1>5
  <2> QED BY <2>1, <2>2 DEF FrontOf
<1>8. ASSUME NEW x \in Offers(d), Before(d, x, s[k]) PROVE x \in FrontOf(s, k - 1)
  <2>1. PICK a \in 1..n : s[a] = x
    BY <1>1
  <2>2. ~(k < a) /\ a # k
    BY <1>2, <1>3, <1>5, <1>8, <2>1, BeforeOrders
  <2>3. a \in 1..(k - 1)
    BY <1>5, <2>2
  <2> QED BY <2>1, <2>3 DEF FrontOf
<1>9. BetterOffers(d, s[k]) = FrontOf(s, k - 1)
  BY <1>6, <1>8 DEF BetterOffers, FrontOf
<1>10. FrontOf(s, k - 1) \in SUBSET Prices /\ s[k] \notin FrontOf(s, k - 1)
  BY <1>1, <1>6 DEF FrontOf
<1> QED BY <1>5, <1>7, <1>9, <1>10 DEF s

LEMMA TakeTakesBest ==
  ASSUME Booked, NEW o \in Request, o.type # "Market", NEW k \in 1..Len(BestFirst(o.dir)),
         NEW acc, TookBest(o, k - 1, acc)
  PROVE  TookBest(o, k, Take(o, acc, BestFirst(o.dir)[k]))
<1> DEFINE d == o.dir
           s == BestFirst(d)
           x == s[k]
           Q == Quoted(d, x)
           W == QuotedIn(d, FrontOf(s, k - 1))
           W2 == QuotedIn(d, FrontOf(s, k))
           right(p) == Part(o.volume - QuotedIn(d, BetterOffers(d, p)), Quoted(d, p))
           new == Take(o, acc, x)
<1>1. /\ d \in Dirs /\ o.volume \in Nat /\ o.price \in Nat
  <2>1. /\ d \in Dirs /\ o.volume \in 0..MaxVolume /\ o.price \in Prices \cup {0}
    BY DEF Request
  <2>2. Prices \cup {0} \subseteq Nat
    BY PricesAssumption
  <2>3. o.volume \in Nat
    BY <2>1, VolumesAssumption
  <2> QED BY <2>1, <2>2, <2>3, Zenon
<1>2. /\ x \in Offers(d) /\ FrontOf(s, k - 1) \in SUBSET Prices /\ x \notin FrontOf(s, k - 1)
      /\ FrontOf(s, k) = FrontOf(s, k - 1) \cup {x}
      /\ BetterOffers(d, x) = FrontOf(s, k - 1)
  BY <1>1, Fronts
<1>3. x \in Prices /\ x \in Nat /\ Q \in Nat /\ Q > 0
  <2>1. x \in Prices /\ Q > 0
    BY <1>2 DEF Offers
  <2> QED BY <1>1, <2>1, QuotedType
<1>4. W2 = W + Q /\ W \in Int /\ right(x) = Part(o.volume - W, Q)
  BY <1>1, <1>2, <1>3, QuotedMore
<1>5. /\ acc \in [volume : Nat, beyond : BOOLEAN, fills : Seq(FillReports)]
      /\ acc.volume \in Nat /\ acc.beyond \in BOOLEAN /\ acc.fills \in Seq(FillReports)
      /\ \A p \in Prices : TakenAt(acc.fills, p) =
            IF p \in FrontOf(s, k - 1) /\ ~Before(d, o.price, p) THEN right(p) ELSE 0
      /\ ~acc.beyond => acc.volume = IF o.volume <= W THEN 0 ELSE o.volume - W
      /\ acc.beyond => \E a \in 1..(k - 1) : Before(d, o.price, s[a])
  BY DEF TookBest
<1>6. right(x) = IF o.volume - W <= 0 THEN 0 ELSE IF o.volume - W <= Q THEN o.volume - W ELSE Q
  BY <1>1, <1>3, <1>4, PartIs
<1>7. Beyond(o, x) <=> Before(d, o.price, x)
  BY DEF Beyond
<1>8. new = IF acc.volume = 0 \/ acc.beyond THEN acc
            ELSE IF Beyond(o, x) THEN [acc EXCEPT !.beyond = TRUE]
            ELSE [acc EXCEPT !.volume = @ - Min({Q, acc.volume}),
                             !.fills = Append(@, Filled(Min({Q, acc.volume}),
                                                        acc.volume - Min({Q, acc.volume}), x))]
  BY DEF Take
<1>9. \A a \in 1..(k - 1) : a \in 1..k
  OBVIOUS
<1>10. k \in 1..k
  OBVIOUS
<1>11. acc.beyond => Before(d, o.price, x)
  <2> SUFFICES ASSUME NEW a \in 1..(k - 1), Before(d, o.price, s[a]) PROVE Before(d, o.price, x)
    BY <1>5
  <2>1. s[a] \in BetterOffers(d, x) /\ s[a] \in Nat
    <3>1. s[a] \in FrontOf(s, k - 1)
      BY DEF FrontOf
    <3>2. s[a] \in Prices
      BY <1>2, <3>1
    <3> QED BY <1>2, <3>1, <3>2, PricesAssumption
  <2>2. Before(d, s[a], x)
    BY <2>1 DEF BetterOffers
  <2> HIDE DEF d, s, x
  <2> QED BY <1>1, <1>3, <2>1, <2>2, BeforeOrders
<1>12. ASSUME NEW b, b \in [volume : Nat, beyond : BOOLEAN, fills : Seq(FillReports)],
              \A p \in Prices : p # x => TakenAt(b.fills, p) = TakenAt(acc.fills, p),
              TakenAt(b.fills, x) = IF Before(d, o.price, x) THEN 0 ELSE right(x),
              ~b.beyond => b.volume = IF o.volume <= W2 THEN 0 ELSE o.volume - W2,
              b.beyond => acc.beyond \/ Before(d, o.price, x)
       PROVE  TookBest(o, k, b)
  <2> HIDE DEF s, x, W, W2, right
  <2>1. ASSUME NEW p \in Prices
        PROVE  TakenAt(b.fills, p) = IF p \in FrontOf(s, k) /\ ~Before(d, o.price, p) THEN right(p) ELSE 0
    <3>1. CASE p = x
      BY <1>2, <1>12, <3>1
    <3>2. CASE p # x
      BY <1>2, <1>5, <1>12, <3>2
    <3> QED BY <3>1, <3>2
  <2>2. b.beyond => \E a \in 1..k : Before(d, o.price, s[a])
    BY <1>5, <1>9, <1>10, <1>12 DEF x
  <2> QED BY <1>12, <2>1, <2>2 DEF TookBest, s, W2, right
<1>13. TakenAt(acc.fills, x) = 0
  BY <1>2, <1>3, <1>5
<1> SUFFICES TookBest(o, k, new)
  OBVIOUS
<1> HIDE DEF d, s, x, Q, W, W2, right, new
<1>14. CASE acc.beyond
  <2>1. new = acc
    BY <1>8, <1>14
  <2> QED BY <1>5, <1>11, <1>12, <1>13, <1>14, <2>1
<1>15. CASE ~acc.beyond /\ acc.volume = 0
  <2>1. new = acc
    BY <1>8, <1>15
  <2>2. o.volume <= W
    BY <1>1, <1>4, <1>5, <1>15
  <2>3. right(x) = 0 /\ o.volume <= W2
    BY <1>1, <1>3, <1>4, <1>6, <2>2
  <2> QED BY <1>5, <1>12, <1>13, <1>15, <2>1, <2>3
<1>16. CASE ~acc.beyond /\ acc.volume # 0 /\ Before(d, o.price, x)
  <2>1. new = [acc EXCEPT !.beyond = TRUE]
    BY <1>7, <1>8, <1>16
  <2>2. /\ new \in [volume : Nat, beyond : BOOLEAN, fills : Seq(FillReports)]
        /\ new.fills = acc.fills /\ new.beyond
    BY <1>5, <2>1
  <2> QED BY <1>12, <1>13, <1>16, <2>2
<1>17. CASE ~acc.beyond /\ acc.volume # 0 /\ ~Before(d, o.price, x)
  <2> DEFINE v == Min({Q, acc.volume})
             r == acc.volume - v
  <2>1. new = [acc EXCEPT !.volume = r, !.fills = Append(acc.fills, Filled(v, r, x))]
    BY <1>7, <1>8, <1>17
  <2>2. acc.volume = o.volume - W /\ o.volume > W
    BY <1>1, <1>4, <1>5, <1>17
  <2>3. v = IF Q <= acc.volume THEN Q ELSE acc.volume
    BY <1>3, <1>5, MinOfTwo
  <2>4. v \in Int /\ r \in Nat /\ r \in Int
    BY <1>3, <1>5, <2>3
  <2>5. v = right(x)
    BY <1>1, <1>3, <1>4, <1>6, <2>2, <2>3
  <2>6. r = IF o.volume <= W2 THEN 0 ELSE o.volume - W2
    BY <1>1, <1>3, <1>4, <2>2, <2>3
  <2> HIDE DEF v, r
  <2>7. /\ Append(acc.fills, Filled(v, r, x)) \in Seq(FillReports)
        /\ \A q : /\ TakenAt(Append(acc.fills, Filled(v, r, x)), q)
                        = TakenAt(acc.fills, q) + (IF q = x THEN v ELSE 0)
                  /\ TakenAt(acc.fills, q) \in Int
    BY <1>3, <1>5, <2>4, TakenMore
  <2>8. /\ new \in [volume : Nat, beyond : BOOLEAN, fills : Seq(FillReports)]
        /\ new.fills = Append(acc.fills, Filled(v, r, x)) /\ new.volume = r /\ ~new.beyond
    BY <1>5, <1>17, <2>1, <2>4, <2>7
  <2>9. TakenAt(new.fills, x) = right(x)
    BY <1>13, <2>4, <2>5, <2>7, <2>8
  <2>10. \A p \in Prices : p # x => TakenAt(new.fills, p) = TakenAt(acc.fills, p)
    BY <2>7, <2>8
  <2> QED BY <1>12, <1>17, <2>6, <2>8, <2>9, <2>10
<1> QED BY <1>5, <1>14, <1>15, <1>16, <1>17

LEMMA BestTaken == Booked => SweepTakesBest
<1> SUFFICES ASSUME Booked, NEW o \in Request, o.type # "Market", NEW p \in Prices
    PROVE  TakenAt(Sweep(o).fills, p) =
               IF Before(o.dir, o.price, p) \/ p \notin Offers(o.dir) THEN 0
               ELSE Part(o.volume - QuotedIn(o.dir, BetterOffers(o.dir, p)), Quoted(o.dir, p))
  BY DEF SweepTakesBest
<1> DEFINE g == Swept(o)
           s == BestFirst(o.dir)
           n == Len(s)
           S == {k \in 0..n : TookBest(o, k, g[k])}
<1>1. o.dir \in Dirs /\ o.volume \in Nat
  <2>1. o.dir \in Dirs /\ o.volume \in 0..MaxVolume
    BY DEF Request
  <2> QED BY <2>1
<1>2. /\ n \in Nat /\ s \in SetToSeqs(Offers(o.dir)) /\ IsFiniteSet(Offers(o.dir))
  BY <1>1, BestFirstLists
<1>3. SweptBy(g, o)
  BY <1>2, SweptExists
<1> HIDE DEF g, s, n
<1>4. 0 \in 0..n /\ \A k \in 1..n : k \in 0..n /\ k # 0
  BY <1>2
<1>5. /\ g[0] = [volume |-> o.volume, beyond |-> FALSE, fills |-> <<>>]
      /\ \A k \in 1..n : g[k] = Take(o, g[k - 1], BestFirst(o.dir)[k])
  <2>1. g = [k \in 0..n |-> IF k = 0 THEN [volume |-> o.volume, beyond |-> FALSE, fills |-> <<>>]
                            ELSE Take(o, g[k - 1], BestFirst(o.dir)[k])]
    BY <1>3 DEF SweptBy, n, s
  <2>2. ASSUME NEW k \in 1..n PROVE g[k] = Take(o, g[k - 1], BestFirst(o.dir)[k])
    BY <1>4, <2>1
  <2> QED BY <1>4, <2>1, <2>2
<1>6. 0 \in S
  <2>1. FrontOf(s, 0) = {}
    BY DEF FrontOf
  <2>2. QuotedIn(o.dir, {}) = 0 /\ \A q \in Prices : TakenAt(<<>>, q) = 0
    BY QuotedNone, TakenNone
  <2>3. <<>> \in Seq(FillReports)
    OBVIOUS
  <2> DEFINE acc == [volume |-> o.volume, beyond |-> FALSE, fills |-> <<>>]
  <2>4. /\ acc \in [volume : Nat, beyond : BOOLEAN, fills : Seq(FillReports)]
        /\ acc.volume = o.volume /\ acc.beyond = FALSE /\ acc.fills = <<>>
    BY <1>1, <2>3
  <2> HIDE DEF acc
  <2>5. TookBest(o, 0, acc)
    <3>1. o.volume = IF o.volume <= 0 THEN 0 ELSE o.volume - 0
      BY <1>1
    <3> QED BY <2>1, <2>2, <2>4, <3>1 DEF TookBest, s
  <2> QED BY <1>4, <1>5, <2>5 DEF acc
<1>7. ASSUME NEW k \in 1..n, k - 1 \in S PROVE k \in S
  <2>1. TookBest(o, k, Take(o, g[k - 1], BestFirst(o.dir)[k]))
    BY <1>7, TakeTakesBest DEF n, s
  <2> QED BY <1>4, <1>5, <2>1
<1>8. n \in S
  <2>1. S \in SUBSET (0..n) /\ n \in 0..n
    BY <1>2
  <2> HIDE DEF S
  <2> QED BY <1>2, <1>6, <1>7, <2>1, FirstFailure
<1>9. TookBest(o, n, Sweep(o))
  BY <1>8 DEF Sweep, g, n, s
<1>10. FrontOf(s, n) = Offers(o.dir)
  <2>1. /\ \A a \in 1..n : s[a] \in Offers(o.dir)
        /\ \A x \in Offers(o.dir) : \E a \in 1..n : s[a] = x
    BY <1>2, ListOf DEF n
  <2> QED BY <2>1 DEF FrontOf
<1> QED BY <1>9, <1>10 DEF TookBest, s

-----------------------------------------------------------------------------
(* The life of an order *)

\* What a report leaves of the order
Left(r) == IF r.status = "Cancel" THEN r.volume ELSE r.rest

\* Report q may follow report r.
Follows(r, q) ==
    /\ ~IsOver(r)
    /\ q.status \in {"Fill", "Cancel"}
    /\ q.status = "Fill" => q.rest = r.rest - q.volume
    /\ q.status = "Cancel" => q.volume = r.rest

\* The reports of an order of volume v are a life of it.
Lived(h, v) ==
    /\ h # <<>> /\ h[1] = Accepted(v)
    /\ \A k \in 2..Len(h) : Follows(h[k - 1], h[k])

FairPrice(r, o) == r.status = "Fill" /\ o.type # "Market" => ~Before(o.dir, o.price, r.at)
FairPrices(h, o) == \A k \in DOMAIN h : FairPrice(h[k], o)

LEMMA ReportFacts ==
  /\ MaxVolume \in Nat
  /\ \A v \in 1..MaxVolume : Accepted(v) \in Report /\ Cancelled(v) \in Report
  /\ \A v \in 1..MaxVolume, r \in 0..MaxVolume, p \in Prices : Filled(v, r, p) \in Report
BY VolumesAssumption DEF Accepted, Cancelled, Filled, Report

LEMMA LifeBegins ==
  ASSUME NEW v \in 1..MaxVolume, NEW o
  PROVE  LET h == <<Accepted(v)>> IN
         /\ h \in Seq(Report) /\ Lived(h, v) /\ FairPrices(h, o)
         /\ Last(h) = Accepted(v) /\ Left(Last(h)) = v /\ ~IsOver(Last(h))
<1> DEFINE h == <<Accepted(v)>>
<1>1. MaxVolume \in Nat /\ Accepted(v) \in Report
  BY ReportFacts
<1>2. h \in Seq(Report) /\ Len(h) = 1 /\ h[1] = Accepted(v) /\ DOMAIN h = {1} /\ h # <<>>
  BY <1>1
<1>3. Last(h) = Accepted(v)
  BY <1>2 DEF Last
<1>4. Left(Accepted(v)) = v /\ ~IsOver(Accepted(v)) /\ Accepted(v).status = "Add"
  BY DEF Left, IsOver, Accepted
<1>5. Lived(h, v)
  BY <1>2 DEF Lived
<1>6. FairPrices(h, o)
  BY <1>2, <1>4 DEF FairPrices, FairPrice
<1> QED BY <1>2, <1>3, <1>4, <1>5, <1>6

LEMMA LifeGoesOn ==
  ASSUME NEW h \in Seq(Report), NEW v, NEW o, Lived(h, v), FairPrices(h, o),
         NEW r \in Report, Follows(Last(h), r), FairPrice(r, o)
  PROVE  LET hh == Append(h, r) IN
         hh \in Seq(Report) /\ Lived(hh, v) /\ FairPrices(hh, o) /\ Last(hh) = r
<1> DEFINE hh == Append(h, r)
           n == Len(h)
<1>1. /\ hh \in Seq(Report) /\ hh # <<>> /\ Len(hh) = n + 1 /\ hh[n + 1] = r
      /\ \A k \in 1..n : hh[k] = h[k]
  BY AppendProperties
<1>2. n \in Nat /\ n >= 1 /\ DOMAIN h = 1..n /\ DOMAIN hh = 1..(n + 1)
  <2>1. n \in Nat /\ DOMAIN h = 1..n /\ DOMAIN hh = 1..Len(hh)
    BY <1>1
  <2>2. n # 0
    BY EmptySeq DEF Lived
  <2> QED BY <1>1, <2>1, <2>2
<1> HIDE DEF hh
<1>3. Last(hh) = r /\ Last(h) = h[n]
  BY <1>1 DEF Last
<1>4. ASSUME NEW k \in 2..(n + 1) PROVE Follows(hh[k - 1], hh[k])
  <2>1. CASE k = n + 1
    BY <1>1, <1>2, <1>3, <2>1
  <2>2. CASE k # n + 1
    <3>1. k \in 2..n /\ k - 1 \in 1..n /\ k \in 1..n
      BY <1>2, <2>2
    <3> QED BY <1>1, <3>1 DEF Lived
  <2> QED BY <2>1, <2>2
<1>5. Lived(hh, v)
  BY <1>1, <1>2, <1>4 DEF Lived
<1>6. ASSUME NEW k \in 1..(n + 1) PROVE FairPrice(hh[k], o)
  <2>1. k = n + 1 \/ k \in 1..n
    BY <1>2
  <2> QED BY <1>1, <1>2, <2>1 DEF FairPrices
<1>7. FairPrices(hh, o)
  BY <1>2, <1>6 DEF FairPrices
<1> QED BY <1>1, <1>3, <1>5, <1>7 DEF hh

\* In a life, what the last report leaves is the volume less what was filled.
LEMMA LifeAddsUp ==
  ASSUME NEW h \in Seq(Report), NEW v \in Int, Lived(h, v), NEW n \in 1..Len(h)
  PROVE  Executed(h, n) = v - Left(h[n])
<1> DEFINE f(m) == [k \in 1..m |-> IF h[k].status = "Fill" THEN h[k].volume ELSE 0]
           N == Len(h)
           S == {m \in 0..(N - 1) : Total(f(m + 1), m + 1) = v - Left(h[m + 1])}
<1>1. N \in Nat /\ N - 1 \in Nat /\ n - 1 \in 0..(N - 1)
  OBVIOUS
<1>2. \A k \in 1..N : h[k] \in Report /\ h[k].volume \in Int /\ h[k].rest \in Int
  <2>1. \A r \in Report : r.volume \in Int /\ r.rest \in Int
    BY VolumesAssumption DEF Report
  <2>2. \A k \in 1..N : h[k] \in Report
    BY ElementOfSeq
  <2> QED BY <2>1, <2>2
<1>3. 0 \in S
  <2>1. h[1] = Accepted(v)
    BY DEF Lived
  <2>2. h[1].status = "Add" /\ Left(h[1]) = v
    BY <2>1 DEF Accepted, Left
  <2>3. Total(f(1), 0 + 1) = Total(f(1), 0) + f(1)[0 + 1]
    BY TotalNext
  <2>4. Total(f(1), 0) = 0 /\ f(1)[1] = 0
    BY <2>2, TotalZero
  <2>5. Total(f(1), 1) = 0
    BY <2>3, <2>4
  <2> QED BY <1>1, <2>2, <2>5
<1>4. ASSUME NEW m \in 1..(N - 1), m - 1 \in S PROVE m \in S
  <2>1. Total(f(m), m) = v - Left(h[m])
    BY <1>4
  <2>2. \A k \in 1..m : f(m + 1)[k] = f(m)[k]
    OBVIOUS
  <2>3. Total(f(m + 1), m + 1) = Total(f(m), m) + f(m + 1)[m + 1]
    <3> HIDE DEF f
    <3> QED BY <2>2, TotalNext
  <2>4. m \in 1..N /\ m + 1 \in 2..N /\ m + 1 \in 1..N /\ (m + 1) - 1 = m
    BY <1>1
  <2>5. Follows(h[m], h[m + 1])
    BY <2>4 DEF Lived
  <2>6. f(m + 1)[m + 1] = IF h[m + 1].status = "Fill" THEN h[m + 1].volume ELSE 0
    BY <1>1
  <2>7. Left(h[m]) = h[m].rest
    BY <2>5 DEF Follows, IsOver, Left
  <2>8. Left(h[m + 1]) = h[m].rest - f(m + 1)[m + 1]
    <3> HIDE DEF f
    <3> QED BY <1>2, <2>4, <2>5, <2>6 DEF Follows, Left
  <2>9. h[m].rest \in Int /\ f(m + 1)[m + 1] \in Int
    <3>1. h[m].rest \in Int /\ h[m + 1].volume \in Int
      BY <1>2, <2>4
    <3> HIDE DEF f
    <3> QED BY <2>6, <3>1
  <2>10. Total(f(m + 1), m + 1) = v - Left(h[m + 1])
    <3> HIDE DEF f
    <3> QED BY <2>1, <2>3, <2>7, <2>8, <2>9
  <2> HIDE DEF f
  <2> QED BY <2>10
<1>5. n - 1 \in S
  <2> HIDE DEF S
  <2>1. S \in SUBSET (0..(N - 1))
    BY DEF S
  <2>2. 0..(N - 1) \subseteq S
    BY <1>1, <1>3, <1>4, <2>1, FirstFailure
  <2> QED BY <1>1, <2>2
<1>6. Total(f(n), n) = v - Left(h[n])
  <2>1. (n - 1) + 1 = n
    OBVIOUS
  <2> HIDE DEF f
  <2> QED BY <1>5, <2>1
<1> QED BY <1>6 DEF Executed

-----------------------------------------------------------------------------
(* What the sweep does with an order *)

\* The loop over the quotes has brought order o so far: with its acceptance,
\* what was filled is a life of it, at fair prices.
SweptWell(o, acc) ==
    /\ acc \in [volume : 0..o.volume, beyond : BOOLEAN, fills : Seq(Report)]
    /\ LET h == <<Accepted(o.volume)>> \o acc.fills
       IN  /\ Lived(h, o.volume) /\ FairPrices(h, o)
           /\ Left(Last(h)) = acc.volume /\ Last(h).status # "Cancel"

LEMMA ConcatGrows ==
  ASSUME NEW a \in Seq(Report), NEW b \in Seq(Report), NEW r \in Report
  PROVE  a \o b \in Seq(Report) /\ a \o Append(b, r) = Append(a \o b, r)
<1>1. a \o b \in Seq(Report)
  BY ConcatProperties
<1>2. <<r>> \in Seq(Report) /\ Append(b, r) = b \o <<r>> /\ Append(a \o b, r) = (a \o b) \o <<r>>
  BY <1>1, AppendIsConcat
<1> QED BY <1>1, <1>2, ConcatAssociative

\* A life whose last report is no cancellation is over when nothing is left.
LEMMA OverIsNothingLeft ==
  ASSUME NEW h \in Seq(Report), NEW v \in 1..MaxVolume, Lived(h, v), Last(h).status # "Cancel"
  PROVE  /\ Last(h) \in Report /\ Left(Last(h)) = Last(h).rest
         /\ IsOver(Last(h)) <=> Last(h).rest = 0
<1>1. Len(h) \in Nat /\ Len(h) # 0 /\ Last(h) = h[Len(h)] /\ Last(h) \in Report
  <2>1. Len(h) \in Nat /\ Len(h) # 0
    BY EmptySeq DEF Lived
  <2> QED BY <2>1, ElementOfSeq DEF Last
<1>2. Last(h).status \in {"Add", "Fill"}
  BY <1>1 DEF Report
<1>3. CASE Last(h).status = "Fill"
  BY <1>1, <1>3 DEF IsOver, Left
<1>4. CASE Last(h).status = "Add"
  <2>1. Len(h) = 1
    <3> SUFFICES ASSUME Len(h) # 1 PROVE FALSE
      OBVIOUS
    <3>1. \A n \in Nat : n # 0 /\ n # 1 => n \in 2..n
      OBVIOUS
    <3>2. Len(h) \in 2..Len(h)
      BY <1>1, <3>1
    <3>3. Follows(h[Len(h) - 1], h[Len(h)])
      BY <3>2 DEF Lived
    <3> QED BY <1>1, <1>4, <3>3 DEF Follows
  <2>2. Last(h) = Accepted(v)
    BY <1>1, <2>1 DEF Lived
  <2>3. Last(h).rest = v /\ ~IsOver(Last(h)) /\ v # 0
    BY <2>2 DEF Accepted, IsOver
  <2> QED BY <1>1, <1>4, <2>3 DEF Left
<1> QED BY <1>2, <1>3, <1>4

Asked(o) == o \in Request /\ o.volume > 0

LEMMA AskedFacts ==
  ASSUME NEW o, Asked(o)
  PROVE  o.dir \in Dirs /\ o.volume \in 1..MaxVolume /\ o.price \in Nat
<1>1. o.dir \in Dirs /\ o.volume \in 0..MaxVolume /\ o.price \in Prices \cup {0}
  BY DEF Asked, Request
<1>2. o.volume > 0 /\ MaxVolume \in Nat /\ Prices \subseteq Nat
  BY VolumesAssumption, PricesAssumption DEF Asked
<1>3. \A v \in 0..MaxVolume : v > 0 => v \in 1..MaxVolume
  BY <1>2
<1>4. o.price \in Nat
  <2>1. 0 \in Nat
    OBVIOUS
  <2> QED BY <1>1, <1>2, <2>1, Zenon
<1> QED BY <1>1, <1>2, <1>3, <1>4

LEMMA TakeKeeps ==
  ASSUME Booked, NEW o, Asked(o), NEW acc, SweptWell(o, acc), NEW p \in Offers(o.dir)
  PROVE  SweptWell(o, Take(o, acc, p))
<1>1. /\ acc.volume \in 0..o.volume /\ acc.beyond \in BOOLEAN /\ acc.fills \in Seq(Report)
      /\ acc \in [volume : 0..o.volume, beyond : BOOLEAN, fills : Seq(Report)]
  BY DEF SweptWell
<1>2. o.dir \in Dirs /\ o.volume \in 1..MaxVolume /\ MaxVolume \in Nat
  BY AskedFacts, VolumesAssumption
<1>3. CASE acc.volume = 0 \/ acc.beyond
  BY <1>3 DEF Take
<1>4. CASE ~(acc.volume = 0 \/ acc.beyond) /\ Beyond(o, p)
  <2> DEFINE b == [acc EXCEPT !.beyond = TRUE]
  <2>1. Take(o, acc, p) = b
    BY <1>4 DEF Take
  <2>2. b.fills = acc.fills /\ b.volume = acc.volume
    BY <1>1
  <2>3. b \in [volume : 0..o.volume, beyond : BOOLEAN, fills : Seq(Report)]
    BY <1>1
  <2> HIDE DEF b
  <2> QED BY <2>1, <2>2, <2>3 DEF SweptWell
<1>5. CASE ~(acc.volume = 0 \/ acc.beyond) /\ ~Beyond(o, p)
  <2> DEFINE v == Min({Quoted(o.dir, p), acc.volume})
             r == Filled(v, acc.volume - v, p)
             b == [acc EXCEPT !.volume = @ - v, !.fills = Append(@, r)]
             h == <<Accepted(o.volume)>> \o acc.fills
  <2>1. Take(o, acc, p) = b
    BY <1>5 DEF Take
  <2>2. p \in Prices /\ Quoted(o.dir, p) \in Int /\ Quoted(o.dir, p) > 0
    BY <1>2, QuotedType DEF Offers
  <2>3. v \in 1..acc.volume
    <3>1. acc.volume \in Int /\ acc.volume > 0
      BY <1>1, <1>2, <1>5
    <3>2. v = IF Quoted(o.dir, p) <= acc.volume THEN Quoted(o.dir, p) ELSE acc.volume
      BY <2>2, <3>1, MinOfTwo
    <3> HIDE DEF v
    <3> QED BY <2>2, <3>1, <3>2
  <2> HIDE DEF v
  <2>4. v \in 1..MaxVolume /\ acc.volume - v \in 0..MaxVolume /\ acc.volume - v \in 0..o.volume
    BY <1>1, <1>2, <2>3
  <2>5. r \in Report
    BY <2>2, <2>4, ReportFacts
  <2>6. /\ r.status = "Fill" /\ r.volume = v /\ r.rest = acc.volume - v /\ r.at = p
    BY DEF Filled
  <2> HIDE DEF r
  <2>7. b.volume = acc.volume - v /\ b.fills = Append(acc.fills, r)
        /\ b \in [volume : 0..o.volume, beyond : BOOLEAN, fills : Seq(Report)]
    <3>1. Append(acc.fills, r) \in Seq(Report)
      BY <1>1, <2>5, AppendProperties
    <3> QED BY <1>1, <2>4, <3>1
  <2> HIDE DEF b
  <2>8. <<Accepted(o.volume)>> \in Seq(Report)
    BY <1>2, LifeBegins
  <2>9. h \in Seq(Report) /\ <<Accepted(o.volume)>> \o b.fills = Append(h, r)
    BY <1>1, <2>5, <2>7, <2>8, ConcatGrows
  <2>10. Lived(h, o.volume) /\ FairPrices(h, o) /\ Left(Last(h)) = acc.volume /\ Last(h).status # "Cancel"
    BY DEF SweptWell
  <2> HIDE DEF h
  <2>11. Follows(Last(h), r)
    <3>1. Last(h).rest = acc.volume /\ ~IsOver(Last(h))
      BY <1>2, <1>5, <2>9, <2>10, OverIsNothingLeft
    <3> QED BY <2>6, <3>1 DEF Follows
  <2>12. FairPrice(r, o)
    BY <1>5, <2>6 DEF FairPrice, Beyond
  <2>13. LET hh == Append(h, r) IN Lived(hh, o.volume) /\ FairPrices(hh, o) /\ Last(hh) = r
    BY <2>5, <2>9, <2>10, <2>11, <2>12, LifeGoesOn
  <2>14. Left(r) = b.volume /\ r.status # "Cancel"
    BY <2>6, <2>7 DEF Left
  <2>15. SweptWell(o, b)
    BY <2>7, <2>9, <2>13, <2>14 DEF SweptWell
  <2> QED BY <2>1, <2>15
<1> QED BY <1>3, <1>4, <1>5

\* The sweep tells a life of the order.
LEMMA SweepLives ==
  ASSUME Booked, NEW o, Asked(o)
  PROVE  SweptWell(o, Sweep(o))
<1> DEFINE g == Swept(o)
           n == Len(BestFirst(o.dir))
           S == {k \in 0..n : SweptWell(o, g[k])}
<1>1. o.dir \in Dirs /\ o.volume \in 1..MaxVolume
  BY AskedFacts
<1>2. n \in Nat /\ \A k \in 1..n : BestFirst(o.dir)[k] \in Offers(o.dir)
  BY <1>1, BestFirstLists
<1>3. g = [k \in 0..n |-> IF k = 0 THEN [volume |-> o.volume, beyond |-> FALSE, fills |-> <<>>]
                          ELSE Take(o, g[k - 1], BestFirst(o.dir)[k])]
  BY <1>2, SweptExists DEF SweptBy
<1> HIDE DEF g, n
<1>4. 0 \in S
  <2>1. g[0] = [volume |-> o.volume, beyond |-> FALSE, fills |-> <<>>]
    BY <1>2, <1>3
  <2>2. <<Accepted(o.volume)>> \o <<>> = <<Accepted(o.volume)>>
    BY <1>1, LifeBegins, ConcatEmptySeq
  <2>3. LET h == <<Accepted(o.volume)>> IN
        Lived(h, o.volume) /\ FairPrices(h, o) /\ Left(Last(h)) = o.volume /\ Last(h).status # "Cancel"
    BY <1>1, LifeBegins DEF Accepted
  <2>4. [volume |-> o.volume, beyond |-> FALSE, fills |-> <<>>]
            \in [volume : 0..o.volume, beyond : BOOLEAN, fills : Seq(Report)]
    BY <1>1, VolumesAssumption
  <2>5. SweptWell(o, [volume |-> o.volume, beyond |-> FALSE, fills |-> <<>>])
    BY <2>2, <2>3, <2>4 DEF SweptWell
  <2> QED BY <1>2, <2>1, <2>5
<1>5. ASSUME NEW k \in 1..n, k - 1 \in S PROVE k \in S
  <2>1. g[k] = Take(o, g[k - 1], BestFirst(o.dir)[k])
    <3>1. k \in 0..n /\ k # 0
      BY <1>2
    <3> QED BY <1>3, <3>1
  <2>2. SweptWell(o, g[k])
    BY <1>2, <1>5, <2>1, TakeKeeps
  <2> QED BY <1>2, <2>2
<1>6. n \in S
  <2>1. S \in SUBSET (0..n) /\ n \in 0..n
    BY <1>2
  <2> HIDE DEF S
  <2> QED BY <1>2, <1>4, <1>5, <2>1, FirstFailure
<1> QED BY <1>6 DEF Sweep, g, n

-----------------------------------------------------------------------------
(* The invariant *)

\* What rests of an order is what its reports left of it.
Standing(i, live, h, o) ==
    i \in DOMAIN live =>
        /\ o.type = "Limit" /\ live[i].dir = o.dir /\ live[i].price = o.price
        /\ h # <<>> /\ ~IsOver(Last(h)) /\ live[i].volume = Left(Last(h))

\* What was told of order o with id i is a life of it, and fits what is kept.
OrderWell(i, live, h, o, ref, stopped) ==
    /\ o = NoOrder => h = <<>> /\ i \notin DOMAIN live /\ i \notin ref
    /\ i \in ref => h = <<>>
    /\ h # <<>> =>
          /\ Lived(h, o.volume) /\ FairPrices(h, o)
          /\ o.type = "FillOrKill" => Left(Last(h)) \in {0, o.volume}
          /\ i \notin DOMAIN live => stopped \/ IsOver(Last(h))
    /\ Standing(i, live, h, o)

Well(live, told, ref, plc, stopped) ==
    /\ DOMAIN live \subseteq Ids /\ IsFiniteSet(DOMAIN live)
    /\ live \in [DOMAIN live -> Resting]
    /\ told \in [Ids -> Seq(Report)]
    /\ ref \subseteq Ids
    /\ stopped \in BOOLEAN
    /\ plc \in [Ids -> Request \cup {NoOrder}]
    /\ \A i \in Ids : OrderWell(i, live, told[i], plc[i], ref, stopped)

\* The inductive invariant
IInv == Booked /\ Well(orders, history, refused, placed, halted)

\* What it says of an order that was accepted
LEMMA AcceptedWell ==
  ASSUME IInv, NEW i \in Ids, history[i] # <<>>
  PROVE  /\ placed[i] \in Request /\ placed[i].volume \in 1..MaxVolume
         /\ history[i] \in Seq(Report) /\ Lived(history[i], placed[i].volume)
         /\ FairPrices(history[i], placed[i])
         /\ Len(history[i]) \in Nat \ {0} /\ Last(history[i]) = history[i][Len(history[i])]
         /\ Last(history[i]) \in Report
<1> DEFINE h == history[i]
<1>1. h \in Seq(Report) /\ OrderWell(i, orders, h, placed[i], refused, halted)
      /\ placed[i] \in Request \cup {NoOrder}
  BY DEF IInv, Well
<1>2. placed[i] \in Request /\ Lived(h, placed[i].volume) /\ FairPrices(h, placed[i])
  BY <1>1 DEF OrderWell
<1>3. Len(h) \in Nat \ {0}
  BY <1>1, EmptySeq
<1>4. Last(h) = h[Len(h)] /\ Last(h) \in Report
  <2>1. Len(h) \in 1..Len(h)
    BY <1>3
  <2> QED BY <1>1, <2>1, ElementOfSeq DEF Last
<1>5. h[1] = Accepted(placed[i].volume) /\ h[1] \in Report
  <2>1. 1 \in 1..Len(h)
    BY <1>3
  <2> QED BY <1>1, <1>2, <2>1, ElementOfSeq DEF Lived
<1>6. placed[i].volume \in 1..MaxVolume
  <2>1. Accepted(placed[i].volume).volume = placed[i].volume
    BY DEF Accepted
  <2>2. \A r \in Report : r.volume \in 1..MaxVolume
    BY DEF Report
  <2> QED BY <1>5, <2>1, <2>2
<1> QED BY <1>1, <1>2, <1>3, <1>4, <1>6

LEMMA LedgerFollows == IInv => LedgerInv
<1> SUFFICES ASSUME IInv PROVE LedgerInv
  OBVIOUS
<1>1. TypeOK
  BY DEF IInv, Booked, Well, TypeOK, Live
<1>2. ASSUME NEW i \in Ids, history[i] # <<>>, NEW n \in 1..Len(history[i])
      PROVE  /\ Executed(history[i], n) = placed[i].volume - Left(history[i][n])
             /\ placed[i].volume - Executed(history[i], n) = Left(history[i][n])
             /\ Left(history[i][n]) \in Int
  <2>1. /\ placed[i].volume \in Int /\ history[i] \in Seq(Report)
        /\ Lived(history[i], placed[i].volume)
    BY <1>2, AcceptedWell, VolumesAssumption
  <2>2. Executed(history[i], n) = placed[i].volume - Left(history[i][n])
    BY <2>1, LifeAddsUp
  <2>3. Left(history[i][n]) \in Int
    <3>1. history[i][n] \in Report
      BY <2>1, ElementOfSeq
    <3>2. \A r \in Report : r.rest \in Int /\ r.volume \in Int
      BY VolumesAssumption DEF Report
    <3> QED BY <3>1, <3>2 DEF Left
  <2> QED BY <2>1, <2>2, <2>3
<1>3. OrderLedger
  <2> SUFFICES ASSUME NEW i \in Ids, history[i] # <<>>
      PROVE  LET h == history[i]
                 left(n) == placed[i].volume - Executed(h, n)
                 last == h[Len(h)]
             IN  /\ h[1] = Accepted(placed[i].volume)
                 /\ \A k \in 2..Len(h) :
                      /\ h[k].status # "Add" /\ ~IsOver(h[k - 1])
                      /\ h[k].status = "Fill" => h[k].rest = left(k)
                      /\ h[k].status = "Cancel" => h[k].volume = left(k)
                 /\ i \in Live => ~IsOver(last) /\ orders[i].volume = left(Len(h))
                 /\ i \notin Live /\ ~halted => IsOver(last)
                 /\ i \notin refused
    BY DEF OrderLedger
  <2> DEFINE h == history[i]
             left(n) == placed[i].volume - Executed(h, n)
  <2>1. /\ h \in Seq(Report) /\ Lived(h, placed[i].volume)
        /\ Len(h) \in Nat \ {0} /\ Last(h) = h[Len(h)]
    BY AcceptedWell
  <2>2. \A n \in 1..Len(h) : left(n) = Left(h[n])
    BY <1>2
  <2>3. OrderWell(i, orders, h, placed[i], refused, halted)
    BY DEF IInv, Well
  <2>4. h[1] = Accepted(placed[i].volume)
    BY <2>1 DEF Lived
  <2>5. ASSUME NEW k \in 2..Len(h)
        PROVE  /\ h[k].status # "Add" /\ ~IsOver(h[k - 1])
               /\ h[k].status = "Fill" => h[k].rest = left(k)
               /\ h[k].status = "Cancel" => h[k].volume = left(k)
    <3>1. Follows(h[k - 1], h[k])
      BY <2>1 DEF Lived
    <3>2. left(k) = Left(h[k])
      BY <2>2, k \in 1..Len(h)
    <3> HIDE DEF left
    <3> QED BY <3>1, <3>2 DEF Follows, Left
  <2>6. Len(h) \in 1..Len(h) /\ left(Len(h)) = Left(Last(h))
    BY <2>1, <2>2
  <2>7. /\ i \in Live => ~IsOver(h[Len(h)]) /\ orders[i].volume = left(Len(h))
        /\ i \notin Live /\ ~halted => IsOver(h[Len(h)])
        /\ i \notin refused
    <3> HIDE DEF left
    <3> QED BY <2>1, <2>3, <2>6 DEF OrderWell, Standing, Live
  <2> QED BY <2>4, <2>5, <2>7
<1>4. AllOrNothing
  <2> SUFFICES ASSUME NEW i \in Ids, history[i] # <<>>, placed[i].type = "FillOrKill"
      PROVE  Executed(history[i], Len(history[i])) \in {0, placed[i].volume}
    BY DEF AllOrNothing
  <2> DEFINE h == history[i]
  <2>1. Len(h) \in Nat \ {0} /\ Last(h) = h[Len(h)] /\ placed[i].volume \in Int
    BY AcceptedWell, VolumesAssumption
  <2>2. Executed(h, Len(h)) = placed[i].volume - Left(Last(h))
    <3>1. Len(h) \in 1..Len(h)
      BY <2>1
    <3> QED BY <1>2, <2>1, <3>1
  <2>3. Left(Last(h)) \in {0, placed[i].volume}
    BY DEF IInv, Well, OrderWell
  <2> QED BY <2>1, <2>2, <2>3
<1> QED BY <1>1, <1>3, <1>4 DEF LedgerInv

LEMMA FairFollows == IInv => NeverWorseThanLimit
<1> SUFFICES ASSUME IInv, NEW i \in Ids, NEW k \in DOMAIN history[i],
                    history[i][k].status = "Fill", placed[i].type # "Market"
    PROVE  ~Before(placed[i].dir, placed[i].price, history[i][k].at)
  BY DEF NeverWorseThanLimit
<1>1. history[i] # <<>>
  OBVIOUS
<1> QED BY <1>1, AcceptedWell DEF FairPrices, FairPrice

LEMMA InitWell == Init => IInv
<1> SUFFICES ASSUME Init PROVE IInv
  OBVIOUS
<1>1. orders = <<>> /\ DOMAIN orders = {} /\ IsFiniteSet(DOMAIN orders) /\ orders \in [DOMAIN orders -> Resting]
  BY FS_EmptySet DEF Init
<1>2. \A i \in Ids : history[i] = <<>> /\ placed[i] = NoOrder
  BY DEF Init
<1>3. history \in [Ids -> Seq(Report)] /\ placed \in [Ids -> Request \cup {NoOrder}]
  BY DEF Init
<1>4. refused = {} /\ halted = FALSE /\ Booked
  BY DEF Init, Booked
<1> QED BY <1>1, <1>2, <1>3, <1>4 DEF IInv, Well, OrderWell, Standing

\* A step changes what is kept and told of order i only.
OnlyChanges(i, live, told, ref, plc, live2, told2, ref2, plc2) ==
    /\ DOMAIN live2 \subseteq DOMAIN live \cup {i} /\ live2 \in [DOMAIN live2 -> Resting]
    /\ told2 \in [Ids -> Seq(Report)] /\ plc2 \in [Ids -> Request \cup {NoOrder}]
    /\ ref2 \subseteq Ids
    /\ \A j \in Ids \ {i} :
          /\ j \in DOMAIN live <=> j \in DOMAIN live2
          /\ j \in DOMAIN live => live2[j] = live[j]
          /\ told2[j] = told[j] /\ plc2[j] = plc[j]
          /\ j \in ref2 <=> j \in ref

\* A step about one order leaves the others well.
LEMMA OneChanges ==
  ASSUME NEW live, NEW told, NEW ref, NEW plc, Well(live, told, ref, plc, FALSE),
         NEW i \in Ids, NEW live2, NEW told2, NEW ref2, NEW plc2, NEW stopped2 \in BOOLEAN,
         OnlyChanges(i, live, told, ref, plc, live2, told2, ref2, plc2),
         OrderWell(i, live2, told2[i], plc2[i], ref2, stopped2)
  PROVE  Well(live2, told2, ref2, plc2, stopped2)
<1>1. DOMAIN live2 \subseteq Ids /\ IsFiniteSet(DOMAIN live2)
  <2>1. IsFiniteSet(DOMAIN live \cup {i}) /\ DOMAIN live \subseteq Ids
    BY FS_AddElement DEF Well
  <2> QED BY <2>1, FS_Subset DEF OnlyChanges
<1>2. ASSUME NEW j \in Ids, j # i
      PROVE  OrderWell(j, live2, told2[j], plc2[j], ref2, stopped2)
  <2>1. OrderWell(j, live, told[j], plc[j], ref, FALSE)
    BY DEF Well
  <2>2. /\ j \in DOMAIN live <=> j \in DOMAIN live2
        /\ j \in DOMAIN live => live2[j] = live[j]
        /\ told2[j] = told[j] /\ plc2[j] = plc[j]
        /\ j \in ref2 <=> j \in ref
    BY <1>2 DEF OnlyChanges
  <2>3. Standing(j, live2, told2[j], plc2[j])
    BY <2>1, <2>2 DEF OrderWell, Standing
  <2> QED BY <2>1, <2>2, <2>3 DEF OrderWell
<1> QED BY <1>1, <1>2 DEF Well, OnlyChanges

-----------------------------------------------------------------------------
(* The steps *)

\* An order that rests
LEMMA RestingWell ==
  ASSUME IInv, NEW i \in Live
  PROVE  /\ i \in Ids /\ orders[i] \in Resting /\ history[i] \in Seq(Report)
         /\ placed[i] \in Request /\ placed[i].type = "Limit"
         /\ orders[i].dir = placed[i].dir /\ orders[i].price = placed[i].price
         /\ history[i] # <<>> /\ Lived(history[i], placed[i].volume)
         /\ FairPrices(history[i], placed[i])
         /\ ~IsOver(Last(history[i])) /\ Last(history[i]) \in Report
         /\ Last(history[i]).status # "Cancel" /\ Last(history[i]).rest = orders[i].volume
         /\ placed[i].volume \in 1..MaxVolume
<1>1. i \in Ids /\ orders[i] \in Resting /\ OrderWell(i, orders, history[i], placed[i], refused, halted)
  BY DEF IInv, Well, Live
<1>2. /\ placed[i].type = "Limit" /\ orders[i].dir = placed[i].dir /\ orders[i].price = placed[i].price
      /\ history[i] # <<>> /\ ~IsOver(Last(history[i])) /\ orders[i].volume = Left(Last(history[i]))
  BY <1>1 DEF OrderWell, Standing, Live
<1>3. Last(history[i]).status # "Cancel" /\ Last(history[i]).rest = orders[i].volume
  BY <1>2 DEF IsOver, Left
<1> QED BY <1>1, <1>2, <1>3, AcceptedWell

LEMMA DeletionKeeps ==
  ASSUME IInv, ~halted, NEW i \in Live
  PROVE  Well(Without(i), CancelReported(i), refused, placed, FALSE)
<1> DEFINE h == history[i]
           r == Cancelled(orders[i].volume)
<1>1. /\ i \in Ids /\ orders[i] \in Resting /\ h \in Seq(Report)
      /\ placed[i] \in Request
      /\ h # <<>> /\ Lived(h, placed[i].volume) /\ FairPrices(h, placed[i])
      /\ ~IsOver(Last(h)) /\ Last(h).rest = orders[i].volume
      /\ placed[i].type = "Limit"
  BY RestingWell
<1>2. Well(orders, history, refused, placed, FALSE)
  BY DEF IInv, Well
<1>3. r \in Report /\ r.status = "Cancel" /\ r.volume = orders[i].volume
  BY <1>1, ReportFacts DEF Resting, Cancelled
<1>4. Follows(Last(h), r) /\ FairPrice(r, placed[i]) /\ IsOver(r)
  BY <1>1, <1>3 DEF Follows, FairPrice, IsOver
<1> HIDE DEF r
<1>5. LET hh == Append(h, r) IN
      hh \in Seq(Report) /\ Lived(hh, placed[i].volume) /\ FairPrices(hh, placed[i]) /\ Last(hh) = r
  BY <1>1, <1>3, <1>4, LifeGoesOn
<1>6. CancelReported(i) = [history EXCEPT ![i] = Append(h, r)] /\ history \in [Ids -> Seq(Report)]
  BY <1>2 DEF CancelReported, Well, r
<1> DEFINE told2 == CancelReported(i)
           live2 == Without(i)
<1>7. /\ told2 \in [Ids -> Seq(Report)] /\ told2[i] = Append(h, r)
      /\ \A j \in Ids \ {i} : told2[j] = history[j]
  BY <1>1, <1>5, <1>6
<1>8. /\ live2 = [j \in Live \ {i} |-> orders[j]] /\ DOMAIN live2 = Live \ {i}
      /\ live2 \in [DOMAIN live2 -> Resting]
  BY <1>2 DEF Without, Restrict, Live, Well
<1>9. i \notin refused
  BY <1>1, <1>2 DEF Well, OrderWell
<1>10. Append(h, r) # <<>>
  BY <1>5 DEF Lived
<1> HIDE DEF told2, live2
<1>11. OrderWell(i, live2, told2[i], placed[i], refused, FALSE)
  BY <1>1, <1>4, <1>5, <1>7, <1>8, <1>9, <1>10, NoOrderAssumption DEF OrderWell, Standing
<1>12. Well(live2, told2, refused, placed, FALSE)
  <2>1. placed \in [Ids -> Request \cup {NoOrder}] /\ refused \subseteq Ids
    BY <1>2 DEF Well
  <2>2. \A j \in Ids \ {i} :
            /\ j \in DOMAIN orders <=> j \in DOMAIN live2
            /\ j \in DOMAIN orders => live2[j] = orders[j]
            /\ told2[j] = history[j]
    BY <1>7, <1>8 DEF Live
  <2>3. DOMAIN live2 \subseteq DOMAIN orders \cup {i}
    BY <1>8 DEF Live
  <2>4. OnlyChanges(i, orders, history, refused, placed, live2, told2, refused, placed)
    BY <1>7, <1>8, <2>1, <2>2, <2>3, Zenon DEF OnlyChanges
  <2> QED BY <1>1, <1>2, <1>11, <2>4, OneChanges, Zenon
<1> QED BY <1>12 DEF told2, live2

\* What is reported of an order the sweep decided is a life of it; what is left
\* of it then rests.
LEMMA ExecutionsLive ==
  ASSUME NEW o, Asked(o), NEW s, SweptWell(o, s), s.volume = 0 \/ s.beyond
  PROVE  LET h == <<Accepted(o.volume)>> \o Executions(o, s) IN
         /\ h \in Seq(Report) /\ h # <<>> /\ Lived(h, o.volume) /\ FairPrices(h, o)
         /\ Last(h) \in Report
         /\ o.type = "FillOrKill" => Left(Last(h)) \in {0, o.volume}
         /\ s.volume > 0 /\ o.type = "Limit" =>
               ~IsOver(Last(h)) /\ Left(Last(h)) = s.volume /\ s.volume \in 1..MaxVolume
         /\ ~(s.volume > 0 /\ o.type = "Limit") => IsOver(Last(h))
<1> DEFINE a == <<Accepted(o.volume)>>
           h == a \o s.fills
<1>1. o.volume \in 1..MaxVolume /\ MaxVolume \in Nat
  BY AskedFacts, VolumesAssumption
<1>2. s.volume \in 0..o.volume /\ s.fills \in Seq(Report) /\ s.volume \in Nat /\ s.volume \in 0..MaxVolume
  BY <1>1 DEF SweptWell
<1>3. /\ a \in Seq(Report) /\ Lived(a, o.volume) /\ FairPrices(a, o)
      /\ Last(a) = Accepted(o.volume) /\ Left(Last(a)) = o.volume /\ ~IsOver(Last(a))
  BY <1>1, LifeBegins
<1>4. h \in Seq(Report)
  BY <1>2, <1>3, ConcatProperties
<1>5. Lived(h, o.volume) /\ FairPrices(h, o) /\ Left(Last(h)) = s.volume /\ Last(h).status # "Cancel"
  BY DEF SweptWell
<1> HIDE DEF a, h
<1>6. Last(h) \in Report /\ Last(h).rest = s.volume /\ (IsOver(Last(h)) <=> s.volume = 0)
  BY <1>1, <1>4, <1>5, OverIsNothingLeft
<1>7. CASE s.volume = 0 \/ o.type = "Limit"
  <2>1. Executions(o, s) = s.fills
    BY <1>7 DEF Executions
  <2>2. h # <<>> /\ (s.volume > 0 => s.volume \in 1..MaxVolume)
    BY <1>1, <1>2, <1>5 DEF Lived
  <2> QED BY <1>2, <1>4, <1>5, <1>6, <1>7, <2>1, <2>2 DEF a, h
<1>8. CASE s.volume > 0 /\ o.type # "Limit" /\ o.type = "Counter"
  <2> DEFINE r == Cancelled(s.volume)
  <2>1. Executions(o, s) = Append(s.fills, r)
    BY <1>2, <1>8 DEF Executions
  <2>2. r \in Report /\ r.status = "Cancel" /\ r.volume = s.volume
    BY <1>1, <1>2, <1>8, ReportFacts DEF Cancelled
  <2> HIDE DEF r
  <2>3. a \o Executions(o, s) = Append(h, r)
    BY <1>2, <1>3, <2>1, <2>2, ConcatGrows DEF h
  <2>4. Follows(Last(h), r) /\ FairPrice(r, o) /\ IsOver(r)
    BY <1>6, <1>8, <2>2 DEF Follows, FairPrice, IsOver
  <2>5. LET hh == Append(h, r) IN
        hh \in Seq(Report) /\ Lived(hh, o.volume) /\ FairPrices(hh, o) /\ Last(hh) = r
    BY <1>4, <1>5, <2>2, <2>4, LifeGoesOn
  <2>6. Append(h, r) # <<>>
    BY <2>5 DEF Lived
  <2> QED BY <1>8, <2>2, <2>3, <2>4, <2>5, <2>6 DEF a
<1>9. CASE s.volume > 0 /\ o.type # "Limit" /\ o.type # "Counter"
  <2> DEFINE r == Cancelled(o.volume)
  <2>1. Executions(o, s) = <<r>>
    BY <1>2, <1>9 DEF Executions
  <2>2. r \in Report /\ r.status = "Cancel" /\ r.volume = o.volume
    BY <1>1, ReportFacts DEF Cancelled
  <2> HIDE DEF r
  <2>3. a \o Executions(o, s) = Append(a, r)
    BY <1>3, <2>1, <2>2, AppendIsConcat
  <2>4. Follows(Last(a), r) /\ FairPrice(r, o) /\ IsOver(r) /\ Left(r) = o.volume
    BY <1>3, <2>2 DEF Follows, FairPrice, IsOver, Accepted, Left
  <2>5. LET hh == Append(a, r) IN
        hh \in Seq(Report) /\ Lived(hh, o.volume) /\ FairPrices(hh, o) /\ Last(hh) = r
    BY <1>3, <2>2, <2>4, LifeGoesOn
  <2>6. Append(a, r) # <<>>
    BY <2>5 DEF Lived
  <2> QED BY <1>9, <2>2, <2>3, <2>4, <2>5, <2>6 DEF a
<1>10. s.volume = 0 \/ s.volume > 0
  BY <1>2
<1> QED BY <1>7, <1>8, <1>9, <1>10

LEMMA SubmissionKeeps ==
  ASSUME Booked, NEW live, NEW told, Well(live, told, refused, placed, FALSE), ~halted,
         NEW i \in Ids, NEW o \in Request, o.price = 0 => o.type = "Market",
         placed[i] = NoOrder, Submit(i, o, live, told)
  PROVE  Well(orders', history', refused', [placed EXCEPT ![i] = o], halted')
<1> DEFINE plc2 == [placed EXCEPT ![i] = o]
           s == Sweep(o)
           added == [told EXCEPT ![i] = Append(@, Accepted(o.volume))]
<1>1. /\ told[i] = <<>> /\ i \notin DOMAIN live /\ i \notin refused
      /\ told \in [Ids -> Seq(Report)] /\ live \in [DOMAIN live -> Resting] /\ refused \subseteq Ids
      /\ placed \in [Ids -> Request \cup {NoOrder}]
  BY DEF Well, OrderWell
<1>2. /\ plc2 \in [Ids -> Request \cup {NoOrder}] /\ plc2[i] = o /\ o # NoOrder
      /\ \A j \in Ids \ {i} : plc2[j] = placed[j]
  BY <1>1, NoOrderAssumption
<1>3. o.volume \in 0..MaxVolume /\ MaxVolume \in Nat /\ o.dir \in Dirs
  BY VolumesAssumption DEF Request
<1> SUFFICES Well(orders', history', refused', plc2, halted')
  OBVIOUS
<1> HIDE DEF plc2
<1>4. ASSUME orders' = live, history' = told, refused' \in {refused, refused \cup {i}}, halted' = halted
      PROVE  Well(orders', history', refused', plc2, halted')
  <2>1. OrderWell(i, orders', history'[i], plc2[i], refused', FALSE)
    BY <1>1, <1>2, <1>4 DEF OrderWell, Standing
  <2>2. \A j \in Ids \ {i} : j \in refused' <=> j \in refused
    BY <1>4
  <2>3. halted' = FALSE /\ refused' \subseteq Ids
    BY <1>1, <1>4 DEF Well
  <2> HIDE DEF s, added
  <2>4. OnlyChanges(i, live, told, refused, placed, orders', history', refused', plc2)
    BY <1>1, <1>2, <1>4, <2>2, <2>3 DEF OnlyChanges
  <2> QED BY <2>1, <2>3, <2>4, OneChanges, Zenon
<1>5. ASSUME o.volume > 0
      PROVE  /\ Asked(o) /\ o.volume \in 1..MaxVolume
             /\ added = [told EXCEPT ![i] = <<Accepted(o.volume)>>]
             /\ Accepted(o.volume) \in Report
  <2>1. o.volume \in 1..MaxVolume
    BY <1>3, <1>5
  <2>2. Append(<<>>, Accepted(o.volume)) = <<Accepted(o.volume)>>
    OBVIOUS
  <2> QED BY <1>1, <1>5, <2>1, <2>2, ReportFacts DEF Asked
<1>6. CASE o.volume > 0 /\ halted' = TRUE /\ orders' = live /\ history' = added /\ refused' = refused
  <2>1. o.volume \in 1..MaxVolume
    BY <1>5, <1>6
  <2>2. LET h == <<Accepted(o.volume)>> IN
        /\ h \in Seq(Report) /\ Lived(h, o.volume) /\ FairPrices(h, o)
        /\ Last(h) = Accepted(o.volume) /\ Left(Last(h)) = o.volume /\ ~IsOver(Last(h))
    BY <2>1, LifeBegins
  <2>3. /\ history' \in [Ids -> Seq(Report)] /\ history'[i] = <<Accepted(o.volume)>>
        /\ \A j \in Ids \ {i} : history'[j] = told[j]
    BY <1>1, <1>5, <1>6, <2>2
  <2>4. OrderWell(i, orders', history'[i], plc2[i], refused', TRUE)
    BY <1>1, <1>2, <1>6, <2>2, <2>3 DEF OrderWell, Standing
  <2> HIDE DEF s, added
  <2>5. OnlyChanges(i, live, told, refused, placed, orders', history', refused', plc2)
    BY <1>1, <1>2, <1>6, <2>3 DEF OnlyChanges
  <2>6. TRUE \in BOOLEAN /\ halted' = TRUE
    BY <1>6
  <2> QED BY <2>4, <2>5, <2>6, OneChanges, Zenon
<1>7. CASE /\ o.volume > 0
           /\ s.volume = 0 \/ s.beyond
           /\ history' = [added EXCEPT ![i] = @ \o Executions(o, s)]
           /\ orders' = IF s.volume > 0 /\ o.type = "Limit" THEN Rested(i, o, s.volume, live) ELSE live
           /\ refused' = refused /\ halted' = halted
  <2> DEFINE h == <<Accepted(o.volume)>> \o Executions(o, s)
  <2>1. Asked(o) /\ SweptWell(o, s)
    BY <1>5, <1>7, SweepLives
  <2> HIDE DEF s
  <2>2. /\ h \in Seq(Report) /\ h # <<>> /\ Lived(h, o.volume) /\ FairPrices(h, o)
        /\ o.type = "FillOrKill" => Left(Last(h)) \in {0, o.volume}
        /\ s.volume > 0 /\ o.type = "Limit" =>
               ~IsOver(Last(h)) /\ Left(Last(h)) = s.volume /\ s.volume \in 1..MaxVolume
        /\ ~(s.volume > 0 /\ o.type = "Limit") => IsOver(Last(h))
    BY <1>7, <2>1, ExecutionsLive
  <2>3. /\ history' \in [Ids -> Seq(Report)] /\ history'[i] = h
        /\ \A j \in Ids \ {i} : history'[j] = told[j]
    BY <1>1, <1>5, <1>7, <2>2
  <2> HIDE DEF h, added
  <2>4. halted' = FALSE
    BY <1>7 DEF Well
  <2>5. CASE s.volume > 0 /\ o.type = "Limit"
    <3>1. /\ orders' = Rested(i, o, s.volume, live) /\ s.volume \in 1..MaxVolume
          /\ o.price \in Prices \cup {0}
      BY <1>7, <2>2, <2>5 DEF Request
    <3>2. /\ DOMAIN orders' = DOMAIN live \cup {i}
          /\ orders'[i] = [dir |-> o.dir, price |-> o.price, volume |-> s.volume,
                           before |-> QueueAt(o.dir, o.price)]
          /\ \A j \in DOMAIN live \ {i} : orders'[j] = live[j]
          /\ orders' = [j \in DOMAIN live \cup {i} |-> orders'[j]]
      BY <3>1 DEF Rested
    <3>3. o.price \in Prices /\ QueueAt(o.dir, o.price) \in 0..MaxQuote
      <4>1. o.price \in Prices
        BY <2>5, <3>1
      <4> QED BY <1>3, <4>1, QuotedType
    <3>4. orders'[i] \in Resting
      BY <1>3, <3>1, <3>2, <3>3 DEF Resting
    <3>5. orders' \in [DOMAIN orders' -> Resting]
      <4>1. \A j \in DOMAIN live \cup {i} : orders'[j] \in Resting
        BY <1>1, <3>2, <3>4
      <4> QED BY <3>2, <4>1
    <3>6. orders'[i].dir = o.dir /\ orders'[i].price = o.price /\ orders'[i].volume = s.volume
      BY <3>2
    <3>7. OrderWell(i, orders', history'[i], plc2[i], refused', FALSE)
      BY <1>1, <1>2, <1>7, <2>2, <2>3, <2>5, <3>2, <3>6 DEF OrderWell, Standing
    <3>8. OnlyChanges(i, live, told, refused, placed, orders', history', refused', plc2)
      BY <1>1, <1>2, <1>7, <2>3, <3>2, <3>5 DEF OnlyChanges
    <3> QED BY <2>4, <3>7, <3>8, OneChanges, Zenon
  <2>6. CASE ~(s.volume > 0 /\ o.type = "Limit")
    <3>1. orders' = live
      BY <1>7, <2>6
    <3>2. OrderWell(i, orders', history'[i], plc2[i], refused', FALSE)
      BY <1>1, <1>2, <1>7, <2>2, <2>3, <2>6, <3>1 DEF OrderWell, Standing
    <3>3. OnlyChanges(i, live, told, refused, placed, orders', history', refused', plc2)
      BY <1>1, <1>2, <1>7, <2>3, <3>1 DEF OnlyChanges
    <3> QED BY <2>4, <3>2, <3>3, OneChanges, Zenon
  <2> QED BY <2>5, <2>6
<1> QED BY <1>4, <1>6, <1>7, Zenon DEF Submit, plc2

-----------------------------------------------------------------------------
(* The loop of a deal over the resting orders *)

VisitsBy(g, d, p, v, s) ==
    g = [k \in 0..Len(s) |->
            IF k = 0 THEN [volume |-> v, orders |-> orders, told |-> history,
                           started |-> FALSE, finished |-> FALSE]
            ELSE Visit(d, p, g[k - 1], s[k])]

\* The loop over the orders has a state after each order.
LEMMA VisitsExist ==
  ASSUME NEW d, NEW p, NEW v, NEW s, Len(s) \in Nat
  PROVE  VisitsBy(Visits(d, p, v, s), d, p, v, s)
<1> DEFINE n == Len(s)
           start == [volume |-> v, orders |-> orders, told |-> history,
                     started |-> FALSE, finished |-> FALSE]
           Upto(g, m) == g = [k \in 0..m |-> IF k = 0 THEN start ELSE Visit(d, p, g[k - 1], s[k])]
           S == {k \in 0..n : \E g : Upto(g, k)}
<1>1. 0 \in S
  <2>1. Upto([k \in 0..0 |-> start], 0)
    <3> HIDE DEF start
    <3> QED OBVIOUS
  <2> HIDE DEF Upto
  <2> QED BY <2>1
<1>2. ASSUME NEW m \in 1..n, m - 1 \in S PROVE m \in S
  <2>1. PICK g : Upto(g, m - 1)
    BY <1>2
  <2> HIDE DEF start
  <2> DEFINE h == [k \in 0..m |-> IF k = m THEN Visit(d, p, g[m - 1], s[m]) ELSE g[k]]
  <2>2. ASSUME NEW k \in 0..m
        PROVE  h[k] = IF k = 0 THEN start ELSE Visit(d, p, h[k - 1], s[k])
    <3>1. CASE k = m
      BY <3>1
    <3>2. CASE k # m
      <4>1. k \in 0..(m - 1) /\ (k # 0 => k - 1 \in 0..(m - 1))
        BY <3>2
      <4>2. g[k] = IF k = 0 THEN start ELSE Visit(d, p, g[k - 1], s[k])
        BY <2>1, <4>1
      <4>3. h[k] = g[k] /\ (k # 0 => h[k - 1] = g[k - 1])
        BY <3>2, <4>1
      <4> QED BY <4>2, <4>3
    <3> QED BY <3>1, <3>2
  <2>3. Upto(h, m)
    <3>1. h = [k \in 0..m |-> h[k]]
      OBVIOUS
    <3> HIDE DEF h
    <3> QED BY <3>1, <2>2
  <2> HIDE DEF Upto
  <2> QED BY <2>3
<1>3. n \in S
  <2>1. S \in SUBSET (0..n)
    OBVIOUS
  <2>2. n \in 0..n
    OBVIOUS
  <2> HIDE DEF S, n
  <2> QED BY <1>1, <1>2, <2>1, <2>2, FirstFailure DEF n
<1>4. PICK g : VisitsBy(g, d, p, v, s)
  BY <1>3 DEF VisitsBy
<1> QED BY <1>4, Zenon DEF Visits, VisitsBy

\* An order during a deal: it may be filled completely and still be there.
Partly == [dir : Dirs, price : Prices, volume : 0..MaxVolume, before : 0..MaxQuote]

Loop == [volume : 0..MaxTick, orders : [Live -> Partly], told : [Ids -> Seq(Report)],
         started : BOOLEAN, finished : BOOLEAN]

\* The deal has brought the order of id i so far.
Passed(i, e, h) ==
    /\ e.dir = orders[i].dir /\ e.price = orders[i].price /\ e.volume <= orders[i].volume
    /\ Lived(h, placed[i].volume) /\ FairPrices(h, placed[i])
    /\ Last(h).status # "Cancel" /\ Last(h).rest = e.volume
    /\ h = history[i] \/ (Last(h).status = "Fill" /\ e.volume < orders[i].volume)

PassedWell(acc) ==
    /\ acc \in Loop
    /\ \A i \in Ids \ Live : acc.told[i] = history[i]
    /\ \A i \in Live : Passed(i, acc.orders[i], acc.told[i])

LEMMA OnePasses ==
  ASSUME IInv, NEW acc, PassedWell(acc), NEW i \in Live, NEW b \in Loop,
         \A j \in Live \ {i} : b.orders[j] = acc.orders[j],
         \A j \in Ids \ {i} : b.told[j] = acc.told[j],
         Passed(i, b.orders[i], b.told[i])
  PROVE  PassedWell(b)
<1>1. i \in Ids /\ Live \subseteq Ids
  BY DEF IInv, Well, Live
<1>2. \A j \in Ids \ Live : b.told[j] = history[j]
  BY DEF PassedWell
<1>3. ASSUME NEW j \in Live PROVE Passed(j, b.orders[j], b.told[j])
  <2>1. CASE j = i
    BY <2>1
  <2>2. CASE j # i
    <3>1. b.orders[j] = acc.orders[j] /\ b.told[j] = acc.told[j]
      BY <1>1, <2>2
    <3> QED BY <3>1 DEF PassedWell
  <2> QED BY <2>1, <2>2
<1> QED BY <1>2, <1>3 DEF PassedWell

\* The queue counter of an order changes, and the flag of the loop.
LEMMA FrontKeeps ==
  ASSUME IInv, NEW acc, PassedWell(acc), NEW i \in Live, NEW b0 \in 0..MaxQuote, NEW st \in BOOLEAN,
         NEW b, b = [[acc EXCEPT !.started = st] EXCEPT !.orders[i].before = b0]
  PROVE  PassedWell(b)
<1>1. acc \in Loop /\ acc.orders \in [Live -> Partly] /\ acc.orders[i] \in Partly
  BY DEF PassedWell, Loop
<1> DEFINE e == [acc.orders[i] EXCEPT !.before = b0]
<1>2. /\ b.volume = acc.volume /\ b.told = acc.told /\ b.orders = [acc.orders EXCEPT ![i] = e]
  BY <1>1 DEF Loop
<1>3. e \in Partly /\ e.dir = acc.orders[i].dir /\ e.price = acc.orders[i].price
      /\ e.volume = acc.orders[i].volume
  BY <1>1 DEF Partly
<1>4. b \in Loop
  <2>1. [acc.orders EXCEPT ![i] = e] \in [Live -> Partly]
    BY <1>1, <1>3
  <2> HIDE DEF e
  <2>2. b = [[acc EXCEPT !.started = st] EXCEPT !.orders = [acc.orders EXCEPT ![i] = e]]
    BY <1>1 DEF Loop, e
  <2> QED BY <1>1, <2>1, <2>2 DEF Loop
<1> HIDE DEF e
<1>5. b.orders[i] = e /\ \A j \in Live \ {i} : b.orders[j] = acc.orders[j]
  BY <1>1, <1>2
<1>6. Passed(i, b.orders[i], b.told[i])
  BY <1>2, <1>3, <1>5 DEF PassedWell, Passed
<1> QED BY <1>2, <1>4, <1>5, <1>6, OnePasses

LEMMA ExecuteKeeps ==
  ASSUME IInv, NEW acc, PassedWell(acc), NEW i \in Live,
         NEW w \in Nat, w <= acc.volume, w <= acc.orders[i].volume
  PROVE  PassedWell(Execute(acc, i, w))
<1>1. acc \in Loop /\ acc.orders \in [Live -> Partly] /\ acc.orders[i] \in Partly
      /\ acc.volume \in 0..MaxTick /\ acc.told \in [Ids -> Seq(Report)] /\ MaxTick \in Nat
      /\ MaxVolume \in Nat
  BY VolumesAssumption DEF PassedWell, Loop
<1>2. CASE w = 0
  BY <1>2 DEF Execute
<1>3. CASE w # 0
  <2> DEFINE e == acc.orders[i]
             h == acc.told[i]
             r == Filled(w, e.volume - w, e.price)
             e2 == [e EXCEPT !.volume = @ - w]
             b == Execute(acc, i, w)
  <2>1. i \in Ids /\ orders[i] \in Resting /\ placed[i].volume \in 1..MaxVolume
        /\ orders[i].price = placed[i].price /\ orders[i].dir = placed[i].dir
        /\ placed[i].volume \in Int /\ orders[i].volume \in Int
    BY <1>1, RestingWell DEF Resting
  <2>2. h \in Seq(Report) /\ Passed(i, e, h) /\ e.volume \in 0..MaxVolume /\ e.price \in Prices
    BY <1>1, <2>1 DEF PassedWell, Partly
  <2>3. w \in 1..MaxVolume /\ e.volume - w \in 0..MaxVolume /\ acc.volume - w \in 0..MaxTick
    BY <1>1, <1>3, <2>2
  <2>4. r \in Report
    BY <2>2, <2>3, ReportFacts
  <2>5. r.status = "Fill" /\ r.volume = w /\ r.rest = e.volume - w /\ r.at = e.price
    BY DEF Filled
  <2> HIDE DEF r
  <2>6. e2 \in Partly /\ e2.dir = e.dir /\ e2.price = e.price /\ e2.volume = e.volume - w
    BY <1>1, <2>3 DEF Partly
  <2> HIDE DEF e2
  <2>7. Append(h, r) \in Seq(Report)
    BY <2>2, <2>4, AppendProperties
  <2>8. b = [acc EXCEPT !.volume = acc.volume - w, !.orders = [acc.orders EXCEPT ![i] = e2],
                        !.told = [acc.told EXCEPT ![i] = Append(h, r)]]
    BY <1>1, <1>3, <2>1 DEF Execute, Loop, r, e2
  <2>9. /\ [acc.orders EXCEPT ![i] = e2] \in [Live -> Partly]
        /\ [acc.told EXCEPT ![i] = Append(h, r)] \in [Ids -> Seq(Report)]
    BY <1>1, <2>6, <2>7
  <2> HIDE DEF b
  <2>10. b \in Loop
    BY <1>1, <2>3, <2>8, <2>9 DEF Loop
  <2>11. /\ b.orders = [acc.orders EXCEPT ![i] = e2]
         /\ b.told = [acc.told EXCEPT ![i] = Append(h, r)]
    BY <1>1, <2>8 DEF Loop
  <2>12. /\ b.orders[i] = e2 /\ b.told[i] = Append(h, r)
         /\ \A j \in Live \ {i} : b.orders[j] = acc.orders[j]
         /\ \A j \in Ids \ {i} : b.told[j] = acc.told[j]
    BY <1>1, <2>1, <2>11
  <2>13. Follows(Last(h), r)
    <3>1. Last(h).rest = e.volume /\ Last(h).status # "Cancel" /\ Lived(h, placed[i].volume)
      BY <2>2 DEF Passed
    <3>2. IsOver(Last(h)) <=> Last(h).rest = 0
      BY <2>1, <2>2, <3>1, OverIsNothingLeft
    <3>3. e.volume # 0
      BY <1>3, <2>2
    <3> QED BY <2>5, <3>1, <3>2, <3>3 DEF Follows
  <2>14. FairPrice(r, placed[i])
    <3>1. r.at = placed[i].price /\ placed[i].price \in Nat
      BY <2>1, <2>2, <2>5, PricesAssumption DEF Passed
    <3>2. placed[i].dir \in Dirs
      BY <2>1 DEF Resting
    <3> QED BY <3>1, <3>2, BeforeOrders DEF FairPrice
  <2>15. LET hh == Append(h, r) IN
         hh \in Seq(Report) /\ Lived(hh, placed[i].volume) /\ FairPrices(hh, placed[i]) /\ Last(hh) = r
    <3>1. Lived(h, placed[i].volume) /\ FairPrices(h, placed[i])
      BY <2>2 DEF Passed
    <3> QED BY <2>2, <2>4, <2>13, <2>14, <3>1, LifeGoesOn
  <2>16. e2.volume < orders[i].volume
    BY <1>3, <2>1, <2>2, <2>6 DEF Passed
  <2>17. Passed(i, b.orders[i], b.told[i])
    <3>1. e.dir = orders[i].dir /\ e.price = orders[i].price
      BY <2>2 DEF Passed
    <3>2. e2.volume \in Int /\ e2.volume <= orders[i].volume
      BY <2>1, <2>2, <2>6, <2>16
    <3> QED BY <2>5, <2>6, <2>12, <2>15, <2>16, <3>1, <3>2 DEF Passed
  <2>18. PassedWell(b)
    BY <2>10, <2>12, <2>17, OnePasses
  <2> QED BY <2>18 DEF b
<1> QED BY <1>2, <1>3

\* The loop that ends early, and the one that has come to the other direction
LEMMA FlagsKeep ==
  ASSUME NEW acc, PassedWell(acc)
  PROVE  PassedWell([acc EXCEPT !.finished = TRUE])
<1>1. acc \in Loop
  BY DEF PassedWell
<1>2. [acc EXCEPT !.finished = TRUE] \in Loop
  BY <1>1 DEF Loop
<1>3. /\ [acc EXCEPT !.finished = TRUE].orders = acc.orders
      /\ [acc EXCEPT !.finished = TRUE].told = acc.told
  BY <1>1 DEF Loop
<1> QED BY <1>2, <1>3 DEF PassedWell

LEMMA VisitKeeps ==
  ASSUME IInv, NEW d \in Dirs, NEW p \in Prices, NEW acc, PassedWell(acc), NEW i \in Live
  PROVE  PassedWell(Visit(d, p, acc, i))
<1> DEFINE e == acc.orders[i]
           st == acc.started \/ e.dir = Opposite(d)
           here == [acc EXCEPT !.started = @ \/ e.dir = Opposite(d)]
           front == [here EXCEPT !.orders[i].before = 0]
           past == [here EXCEPT !.orders[i].before = @ - acc.volume]
<1>1. acc \in Loop /\ acc.orders \in [Live -> Partly] /\ e \in Partly /\ acc.volume \in 0..MaxTick
      /\ acc.volume \in Nat /\ e.before \in 0..MaxQuote /\ e.volume \in 0..MaxVolume /\ e.volume \in Nat
      /\ MaxQuote \in Nat /\ st \in BOOLEAN
  BY VolumesAssumption DEF PassedWell, Loop, Partly
<1>2. here = [acc EXCEPT !.started = st] /\ here.orders = acc.orders /\ here.volume = acc.volume
  BY <1>1 DEF Loop
<1> HIDE DEF here, st
<1>3. PassedWell(front) /\ front.volume = acc.volume /\ front.orders[i].volume = e.volume
  <2>1. front = [[acc EXCEPT !.started = st] EXCEPT !.orders[i].before = 0]
    BY <1>2
  <2>2. 0 \in 0..MaxQuote
    BY <1>1
  <2>3. st \in BOOLEAN
    BY <1>1
  <2> HIDE DEF front
  <2>4. PassedWell(front)
    BY <2>1, <2>2, <2>3, FrontKeeps
  <2>5. front.volume = acc.volume
    BY <1>1, <2>1 DEF Loop
  <2>6. front.orders[i].volume = acc.orders[i].volume
    BY <1>1, <2>1 DEF Loop, Partly
  <2> QED BY <2>4, <2>5, <2>6
<1>4. ASSUME PastQueue(acc.volume, e) <= 0 PROVE PassedWell(past)
  <2>1. e.before - acc.volume \in 0..MaxQuote
    BY <1>1, <1>4 DEF PastQueue
  <2>2. past = [[acc EXCEPT !.started = st] EXCEPT !.orders[i].before = e.before - acc.volume]
    BY <1>2
  <2> HIDE DEF past
  <2> QED BY <1>1, <2>1, <2>2, FrontKeeps
<1>5. ASSUME NEW v \in Nat, v <= acc.volume
      PROVE  PassedWell(Execute(front, i, Min({v, e.volume})))
  <2>1. Min({v, e.volume}) \in Nat /\ Min({v, e.volume}) <= v /\ Min({v, e.volume}) <= e.volume
    BY <1>1, MinOfTwo
  <2>2. Min({v, e.volume}) <= acc.volume
    BY <1>1, <1>5, <2>1
  <2> HIDE DEF front
  <2> QED BY <1>3, <2>1, <2>2, ExecuteKeeps
<1>6. PassedWell([acc EXCEPT !.finished = TRUE])
  BY FlagsKeep
<1>7. Visit(d, p, acc, i) =
          IF acc.finished \/ ~here.started THEN acc
          ELSE IF Before(d, p, e.price) THEN [acc EXCEPT !.finished = TRUE]
          ELSE IF Before(d, e.price, p)
          THEN Execute(front, i, Min({acc.volume, e.volume}))
          ELSE IF acc.volume <= 0 THEN [acc EXCEPT !.finished = TRUE]
          ELSE IF PastQueue(acc.volume, e) <= 0 THEN past
          ELSE Execute(front, i, Min({PastQueue(acc.volume, e), e.volume}))
  BY DEF Visit, here
<1>8. PassedWell(Execute(front, i, Min({acc.volume, e.volume})))
  BY <1>1, <1>5
<1>9. PastQueue(acc.volume, e) > 0 => PassedWell(Execute(front, i, Min({PastQueue(acc.volume, e), e.volume})))
  <2>1. PastQueue(acc.volume, e) \in Int /\ PastQueue(acc.volume, e) <= acc.volume
    BY <1>1 DEF PastQueue
  <2> HIDE DEF front, e
  <2> QED BY <1>5, <2>1
<1>10. PastQueue(acc.volume, e) \in Int
  BY <1>1 DEF PastQueue
<1> HIDE DEF front, past, e
<1> QED BY <1>4, <1>6, <1>7, <1>8, <1>9, <1>10

\* The list of the resting orders that a deal passes
LEMMA SortedLists ==
  ASSUME IInv, NEW d, NEW s \in Sorted(d, orders)
  PROVE  /\ s \in Seq(Live) /\ Len(s) \in Nat /\ DOMAIN s = 1..Len(s)
         /\ \A a \in 1..Len(s) : s[a] \in Live
         /\ \A a, b \in 1..Len(s) : a # b => s[a] # s[b]
         /\ \A x \in Live : \E a \in 1..Len(s) : s[a] = x
<1>1. s \in SetToSeqs(Live) /\ IsFiniteSet(Live)
  BY DEF Sorted, Live, IInv, Well
<1> QED BY <1>1, ListOf

\* What a loop preserves it has after every visit.
LEMMA VisitsWell ==
  ASSUME IInv, NEW d \in Dirs, NEW p \in Prices, NEW v \in 1..MaxTick, NEW s \in Sorted(d, orders)
  PROVE  /\ VisitsBy(Visits(d, p, v, s), d, p, v, s)
         /\ \A k \in 0..Len(s) : PassedWell(Visits(d, p, v, s)[k])
<1> DEFINE g == Visits(d, p, v, s)
           n == Len(s)
           S == {k \in 0..n : PassedWell(g[k])}
<1>1. n \in Nat /\ \A a \in 1..n : s[a] \in Live
  BY SortedLists
<1>2. VisitsBy(g, d, p, v, s)
  BY <1>1, VisitsExist
<1> HIDE DEF g
<1>3. g = [k \in 0..n |->
             IF k = 0 THEN [volume |-> v, orders |-> orders, told |-> history,
                            started |-> FALSE, finished |-> FALSE]
             ELSE Visit(d, p, g[k - 1], s[k])]
  BY <1>2 DEF VisitsBy
<1> HIDE DEF n
<1>4. 0 \in S
  <2> DEFINE acc == [volume |-> v, orders |-> orders, told |-> history,
                     started |-> FALSE, finished |-> FALSE]
  <2>1. orders \in [Live -> Partly]
    <3>1. orders \in [Live -> Resting]
      BY DEF IInv, Well, Live
    <3>2. Resting \subseteq Partly
      BY VolumesAssumption DEF Resting, Partly
    <3> QED BY <3>1, <3>2
  <2>2. acc \in Loop
    BY <2>1, VolumesAssumption DEF Loop, IInv, Well
  <2>3. ASSUME NEW i \in Live PROVE Passed(i, orders[i], history[i])
    <3>1. orders[i].volume \in Int
      BY RestingWell, VolumesAssumption DEF Resting
    <3> QED BY <3>1, RestingWell DEF Passed
  <2>4. PassedWell(acc)
    BY <2>2, <2>3 DEF PassedWell
  <2>5. g[0] = acc
    BY <1>1, <1>3
  <2> QED BY <1>1, <2>4, <2>5
<1>5. ASSUME NEW k \in 1..n, k - 1 \in S PROVE k \in S
  <2>1. k \in 0..n /\ k # 0
    BY <1>1
  <2>2. g[k] = Visit(d, p, g[k - 1], s[k])
    BY <1>3, <2>1
  <2>3. PassedWell(g[k])
    BY <1>1, <1>5, <2>2, VisitKeeps
  <2> QED BY <2>1, <2>3
<1>6. 0..n \subseteq S
  <2>1. S \in SUBSET (0..n)
    OBVIOUS
  <2> HIDE DEF S
  <2> QED BY <1>1, <1>4, <1>5, <2>1, FirstFailure
<1> QED BY <1>2, <1>6 DEF g, n

-----------------------------------------------------------------------------
(* How a deal is shared *)

\* What a visit to the order of id i may make of the state of the loop
Served(d, p, acc, i, b) ==
    LET e == acc.orders[i]
        f == b.orders[i]
    IN  /\ \A j \in Live : j # i => b.orders[j] = acc.orders[j]
        /\ b.volume = acc.volume - (e.volume - f.volume)
        /\ acc.finished \/ ~(acc.started \/ e.dir = Opposite(d)) => b = acc
        /\ b.started => acc.started \/ e.dir = Opposite(d)
        /\ b.finished => acc.finished \/ Before(d, p, e.price) \/ (e.price = p /\ b.volume = 0)
        /\ Before(d, p, e.price) => f = e
        /\ ~acc.finished /\ e.dir = Opposite(d) /\ Before(d, e.price, p) =>
              /\ f.volume = e.volume - Part(acc.volume, e.volume)
              /\ f.before = 0
        /\ ~acc.finished /\ e.dir = Opposite(d) /\ e.price = p =>
              /\ f.volume = e.volume - Part(acc.volume - e.before, e.volume)
              /\ f.before = e.before - Part(acc.volume, e.before)

LEMMA ExecuteIs ==
  ASSUME NEW acc \in Loop, NEW i \in Live, NEW w \in Nat,
         acc.told[i] \in Seq(Report)
  PROVE  LET b == Execute(acc, i, w) IN
         /\ b.volume = acc.volume - w
         /\ b.started = acc.started /\ b.finished = acc.finished
         /\ \A j \in Live : j # i => b.orders[j] = acc.orders[j]
         /\ b.orders[i].volume = acc.orders[i].volume - w
         /\ b.orders[i].before = acc.orders[i].before
<1>1. /\ acc.orders \in [Live -> Partly] /\ acc.orders[i] \in Partly
      /\ acc.volume \in Int /\ acc.orders[i].volume \in Int
  BY VolumesAssumption DEF Loop, Partly
<1>2. CASE w = 0
  BY <1>1, <1>2 DEF Execute
<1>3. CASE w # 0
  BY <1>1, <1>3 DEF Execute, Loop, Partly
<1> QED BY <1>2, <1>3

LEMMA VisitServes ==
  ASSUME IInv, NEW d \in Dirs, NEW p \in Prices, NEW acc, PassedWell(acc), NEW i \in Live
  PROVE  Served(d, p, acc, i, Visit(d, p, acc, i))
<1> DEFINE e == acc.orders[i]
           st == acc.started \/ e.dir = Opposite(d)
           here == [acc EXCEPT !.started = @ \/ e.dir = Opposite(d)]
           front == [here EXCEPT !.orders[i].before = 0]
           past == [here EXCEPT !.orders[i].before = @ - acc.volume]
           V == Visit(d, p, acc, i)
<1>1. /\ acc \in Loop /\ acc.orders \in [Live -> Partly] /\ e \in Partly
      /\ acc.volume \in Nat /\ e.before \in Nat /\ e.volume \in Nat /\ st \in BOOLEAN
      /\ acc.started \in BOOLEAN /\ acc.finished \in BOOLEAN
      /\ e.price \in Nat /\ p \in Nat
  BY VolumesAssumption, PricesAssumption DEF PassedWell, Loop, Partly
<1>2. /\ Before(d, e.price, p) \/ e.price = p \/ Before(d, p, e.price)
      /\ Before(d, e.price, p) => ~Before(d, p, e.price) /\ e.price # p
      /\ Before(d, p, e.price) => e.price # p
  BY <1>1, BeforeOrders
<1>3. here \in Loop /\ here.started = st /\ here.orders = acc.orders /\ here.volume = acc.volume
      /\ here.finished = acc.finished /\ here.told = acc.told
  BY <1>1 DEF Loop
<1>4. V = IF acc.finished \/ ~here.started THEN acc
          ELSE IF Before(d, p, e.price) THEN [acc EXCEPT !.finished = TRUE]
          ELSE IF Before(d, e.price, p)
          THEN Execute(front, i, Min({acc.volume, e.volume}))
          ELSE IF acc.volume <= 0 THEN [acc EXCEPT !.finished = TRUE]
          ELSE IF PastQueue(acc.volume, e) <= 0 THEN past
          ELSE Execute(front, i, Min({PastQueue(acc.volume, e), e.volume}))
  BY DEF Visit
<1> SUFFICES Served(d, p, acc, i, V)
  OBVIOUS
<1> HIDE DEF V, here
<1>5. /\ front \in Loop /\ front.volume = acc.volume /\ front.started = st
      /\ front.finished = acc.finished /\ front.told = acc.told
      /\ \A j \in Live : j # i => front.orders[j] = acc.orders[j]
      /\ front.orders[i].volume = e.volume /\ front.orders[i].before = 0
  <2> DEFINE f == [e EXCEPT !.before = 0]
  <2>1. front = [here EXCEPT !.orders = [acc.orders EXCEPT ![i] = f]]
    BY <1>3
  <2>2. f \in Partly /\ f.volume = e.volume /\ f.before = 0
    BY <1>1, VolumesAssumption DEF Partly
  <2> HIDE DEF f, front
  <2>3. [acc.orders EXCEPT ![i] = f] \in [Live -> Partly]
    BY <1>1, <2>2
  <2>4. front \in Loop /\ front.orders = [acc.orders EXCEPT ![i] = f]
        /\ front.volume = acc.volume /\ front.started = st
        /\ front.finished = acc.finished /\ front.told = acc.told
    BY <1>3, <2>1, <2>3 DEF Loop
  <2>5. front.orders[i] = f /\ \A j \in Live : j # i => front.orders[j] = acc.orders[j]
    BY <1>1, <2>4
  <2> QED BY <2>2, <2>4, <2>5
<1>6. /\ past.volume = acc.volume /\ past.started = st
      /\ past.finished = acc.finished
      /\ \A j \in Live : j # i => past.orders[j] = acc.orders[j]
      /\ past.orders[i].volume = e.volume /\ past.orders[i].before = e.before - acc.volume
  BY <1>1, <1>3 DEF Loop, Partly
<1>7. LET b == [acc EXCEPT !.finished = TRUE] IN
      /\ b.orders = acc.orders /\ b.volume = acc.volume /\ b.started = acc.started
  BY <1>1 DEF Loop
<1> HIDE DEF front, past, e, st
<1>8. Part(acc.volume, e.volume) = Min({acc.volume, e.volume})
      /\ Min({acc.volume, e.volume}) \in Nat
  BY <1>1, PartIs, MinOfTwo
<1>9. /\ Part(acc.volume, e.before) = IF acc.volume <= e.before THEN acc.volume ELSE e.before
      /\ Part(acc.volume - e.before, e.volume) =
            IF acc.volume - e.before <= 0 THEN 0
            ELSE IF acc.volume - e.before <= e.volume THEN acc.volume - e.before ELSE e.volume
  BY <1>1, PartIs
<1>10. PastQueue(acc.volume, e) = acc.volume - e.before
  BY DEF PastQueue
<1>11. acc.told[i] \in Seq(Report)
  BY <1>1, RestingWell DEF Loop
<1>12. CASE acc.finished \/ ~st
  <2>1. V = acc
    BY <1>3, <1>4, <1>12
  <2> QED BY <1>1, <1>2, <1>12, <2>1 DEF Served, e, st
<1>13. CASE ~acc.finished /\ st /\ Before(d, p, e.price)
  <2>1. V = [acc EXCEPT !.finished = TRUE]
    BY <1>3, <1>4, <1>13
  <2>2. V.orders = acc.orders /\ V.volume = acc.volume /\ V.started = acc.started
    BY <1>7, <2>1
  <2> QED BY <1>1, <1>2, <1>13, <2>2 DEF Served, st, e
<1>14. CASE ~acc.finished /\ st /\ Before(d, e.price, p)
  <2>1. V = Execute(front, i, Min({acc.volume, e.volume}))
    BY <1>2, <1>3, <1>4, <1>14
  <2>2. /\ V.volume = front.volume - Min({acc.volume, e.volume})
        /\ V.started = front.started /\ V.finished = front.finished
        /\ \A j \in Live : j # i => V.orders[j] = front.orders[j]
        /\ V.orders[i].volume = front.orders[i].volume - Min({acc.volume, e.volume})
        /\ V.orders[i].before = front.orders[i].before
    BY <1>5, <1>8, <1>11, <2>1, ExecuteIs
  <2> QED BY <1>1, <1>2, <1>5, <1>8, <1>14, <2>2 DEF Served, st, e
<1>15. CASE ~acc.finished /\ st /\ e.price = p /\ acc.volume <= 0
  <2>1. V = [acc EXCEPT !.finished = TRUE]
    BY <1>2, <1>3, <1>4, <1>15
  <2>2. V.orders = acc.orders /\ V.volume = acc.volume /\ V.started = acc.started
    BY <1>7, <2>1
  <2> QED BY <1>1, <1>2, <1>9, <1>15, <2>2 DEF Served, st, e
<1>16. CASE ~acc.finished /\ st /\ e.price = p /\ acc.volume > 0 /\ acc.volume - e.before <= 0
  <2>1. V = past
    BY <1>1, <1>2, <1>3, <1>4, <1>10, <1>16
  <2> QED BY <1>1, <1>2, <1>6, <1>9, <1>16, <2>1 DEF Served, e, st
<1>17. CASE ~acc.finished /\ st /\ e.price = p /\ acc.volume > 0 /\ acc.volume - e.before > 0
  <2> DEFINE w == Min({PastQueue(acc.volume, e), e.volume})
  <2>1. V = Execute(front, i, w)
    BY <1>1, <1>2, <1>3, <1>4, <1>10, <1>17
  <2>2. w \in Nat /\ w = Part(acc.volume - e.before, e.volume)
    <3>1. PastQueue(acc.volume, e) \in Int
      BY <1>1, <1>10
    <3>2. w = IF PastQueue(acc.volume, e) <= e.volume THEN PastQueue(acc.volume, e) ELSE e.volume
      BY <1>1, <3>1, MinOfTwo
    <3> QED BY <1>1, <1>9, <1>10, <1>17, <3>2
  <2> HIDE DEF w
  <2>3. /\ V.volume = front.volume - w
        /\ V.started = front.started /\ V.finished = front.finished
        /\ \A j \in Live : j # i => V.orders[j] = front.orders[j]
        /\ V.orders[i].volume = front.orders[i].volume - w
        /\ V.orders[i].before = front.orders[i].before
    BY <1>5, <1>11, <2>1, <2>2, ExecuteIs
  <2> QED BY <1>1, <1>2, <1>5, <1>9, <1>17, <2>2, <2>3 DEF Served, st, e
<1> QED BY <1>1, <1>2, <1>12, <1>13, <1>14, <1>15, <1>16, <1>17 DEF V

\* The visits of a deal one after the other: each finds its order as it rested,
\* and what it leaves of it stays.
LEMMA DealGoes ==
  ASSUME IInv, NEW d \in Dirs, NEW p \in Prices, NEW v \in 1..MaxTick, NEW s \in Sorted(d, orders),
         NEW g, g = Visits(d, p, v, s), NEW a \in 1..Len(s)
  PROVE  /\ PassedWell(g[a - 1]) /\ PassedWell(g[a])
         /\ Served(d, p, g[a - 1], s[a], g[a])
         /\ g[a - 1].orders[s[a]] = orders[s[a]]
         /\ g[Len(s)].orders[s[a]] = g[a].orders[s[a]]
<1> DEFINE n == Len(s)
<1>1. /\ n \in Nat /\ \A k \in 1..n : s[k] \in Live
      /\ \A k, m \in 1..n : k # m => s[k] # s[m]
  BY SortedLists
<1>2. VisitsBy(g, d, p, v, s) /\ \A k \in 0..n : PassedWell(g[k])
  BY VisitsWell
<1>3. g[0].orders = orders /\ \A k \in 1..n : g[k] = Visit(d, p, g[k - 1], s[k])
  <2>1. 0 \in 0..n /\ \A k \in 1..n : k \in 0..n /\ k # 0
    BY <1>1
  <2>2. g[0].orders = orders
    BY <1>2, <2>1 DEF VisitsBy
  <2>3. ASSUME NEW k \in 1..n PROVE g[k] = Visit(d, p, g[k - 1], s[k])
    BY <1>2, <2>1 DEF VisitsBy
  <2> QED BY <2>2, <2>3
<1>4. ASSUME NEW k \in 1..n
      PROVE  Served(d, p, g[k - 1], s[k], g[k]) /\ PassedWell(g[k - 1]) /\ PassedWell(g[k])
  <2>1. PassedWell(g[k - 1]) /\ PassedWell(g[k]) /\ s[k] \in Live
    BY <1>1, <1>2
  <2> QED BY <1>3, <2>1, VisitServes
<1>5. ASSUME NEW k \in 1..n, k # a PROVE g[k].orders[s[a]] = g[k - 1].orders[s[a]]
  BY <1>1, <1>4, <1>5 DEF Served
<1> DEFINE S == {k \in 0..n : k < a => g[k].orders[s[a]] = orders[s[a]]}
           T == {k \in 0..n : k >= a => g[k].orders[s[a]] = g[a].orders[s[a]]}
<1>6. 0..n \subseteq S
  <2>1. 0 \in S
    BY <1>1, <1>3
  <2>2. ASSUME NEW k \in 1..n, k - 1 \in S PROVE k \in S
    BY <1>5, <2>2
  <2>3. S \in SUBSET (0..n)
    OBVIOUS
  <2> HIDE DEF S
  <2> QED BY <1>1, <2>1, <2>2, <2>3, FirstFailure
<1>7. 0..n \subseteq T
  <2>1. 0 \in T
    BY <1>1
  <2>2. ASSUME NEW k \in 1..n, k - 1 \in T PROVE k \in T
    BY <1>5, <2>2
  <2>3. T \in SUBSET (0..n)
    OBVIOUS
  <2> HIDE DEF T
  <2> QED BY <1>1, <2>1, <2>2, <2>3, FirstFailure
<1>8. a - 1 \in 0..n /\ a - 1 < a /\ n \in 0..n /\ n >= a
  BY <1>1
<1> QED BY <1>4, <1>6, <1>7, <1>8

\* Shares add up.
LEMMA SharedNext ==
  ASSUME IInv, NEW t \in [Live -> Partly], NEW s, NEW m \in Nat
  PROVE  /\ (\A a \in 1..m : s[a] \in Live) => Shared(t, s, m) \in Int
         /\ s[m + 1] \in Live => Share(t, s[m + 1]) \in Int
         /\ Shared(t, s, m + 1) = Shared(t, s, m) + Share(t, s[m + 1])
<1> DEFINE f(k) == [a \in 1..k |-> Share(t, s[a])]
<1>1. ASSUME NEW i \in Live PROVE Share(t, i) \in Int
  <2>1. orders[i].volume \in Int /\ t[i].volume \in Int
    BY RestingWell, VolumesAssumption DEF Resting, Partly
  <2> QED BY <2>1 DEF Share
<1>2. m + 1 \in 1..(m + 1) /\ \A a \in 1..m : a \in 1..(m + 1) /\ f(m + 1)[a] = f(m)[a]
  OBVIOUS
<1>3. f(m + 1)[m + 1] = Share(t, s[m + 1]) /\ \A a \in 1..m : f(m)[a] = Share(t, s[a])
  OBVIOUS
<1>4. \A k \in Nat : Shared(t, s, k) = Total(f(k), k)
  BY DEF Shared
<1> HIDE DEF f
<1>5. Total(f(m + 1), m + 1) = Total(f(m), m) + f(m + 1)[m + 1]
  BY <1>2, TotalNext
<1>6. (\A a \in 1..m : s[a] \in Live) => Total(f(m), m) \in Int
  BY <1>1, <1>3, TotalType
<1> QED BY <1>1, <1>3, <1>4, <1>5, <1>6, m + 1 \in Nat

\* What is left of the deal is what the orders passed have not got of it.
LEMMA DealLeaves ==
  ASSUME IInv, NEW d \in Dirs, NEW p \in Prices, NEW v \in 1..MaxTick, NEW s \in Sorted(d, orders),
         NEW g, g = Visits(d, p, v, s), NEW k \in 0..Len(s)
  PROVE  /\ g[k].volume = v - Shared(g[Len(s)].orders, s, k)
         /\ Shared(g[Len(s)].orders, s, k) = v - g[k].volume
         /\ g[k].volume \in Nat
<1> DEFINE n == Len(s)
           t == g[n].orders
           S == {m \in 0..n : g[m].volume = v - Shared(t, s, m)}
<1>1. n \in Nat /\ \A m \in 1..n : s[m] \in Live
  BY SortedLists
<1>2. VisitsBy(g, d, p, v, s) /\ \A m \in 0..n : PassedWell(g[m])
  BY VisitsWell
<1>3. \A m \in 0..n : g[m].volume \in Nat /\ g[m].orders \in [Live -> Partly]
  BY <1>2, VolumesAssumption DEF PassedWell, Loop
<1>4. t \in [Live -> Partly] /\ v \in Int
  BY <1>1, <1>3, VolumesAssumption
<1>5. \A m \in 0..n : Shared(t, s, m) \in Int
  <2> HIDE DEF t
  <2> QED BY <1>1, <1>4, SharedNext
<1>6. 0 \in S
  <2>1. g[0].volume = v
    BY <1>1, <1>2 DEF VisitsBy
  <2>2. Shared(t, s, 0) = 0
    BY TotalZero DEF Shared
  <2> HIDE DEF t
  <2> QED BY <1>1, <1>4, <2>1, <2>2
<1>7. ASSUME NEW m \in 1..n, m - 1 \in S PROVE m \in S
  <2>1. /\ Served(d, p, g[m - 1], s[m], g[m])
        /\ g[m - 1].orders[s[m]] = orders[s[m]]
        /\ t[s[m]] = g[m].orders[s[m]]
    BY DealGoes
  <2>2. g[m].volume = g[m - 1].volume - Share(t, s[m])
    BY <2>1 DEF Served, Share
  <2>3. m - 1 \in Nat /\ (m - 1) + 1 = m /\ s[m] \in Live
    BY <1>1
  <2>4. g[m - 1].volume = v - Shared(t, s, m - 1)
    BY <1>7
  <2> HIDE DEF t
  <2>5. Share(t, s[m]) \in Int /\ Shared(t, s, m) = Shared(t, s, m - 1) + Share(t, s[m])
    BY <1>4, <2>3, SharedNext
  <2>6. Shared(t, s, m - 1) \in Int
    BY <1>5, <2>3, m - 1 \in 0..n
  <2> QED BY <1>4, <2>2, <2>4, <2>5, <2>6
<1>8. 0..n \subseteq S
  <2>1. S \in SUBSET (0..n)
    OBVIOUS
  <2> HIDE DEF S
  <2> QED BY <1>1, <1>6, <1>7, <2>1, FirstFailure
<1>9. g[k].volume = v - Shared(t, s, k)
  BY <1>8
<1> HIDE DEF t
<1> QED BY <1>3, <1>4, <1>5, <1>9 DEF t

LEMMA VolumeKept == IInv => DealVolumeKept
<1> SUFFICES ASSUME IInv, NEW d \in Dirs, NEW p \in Prices, NEW v \in 1..MaxTick,
                    NEW s \in Sorted(d, orders)
    PROVE  Shared(Deal(d, p, v, s).orders, s, Len(s)) <= v
  BY DEF DealVolumeKept
<1>1. Len(s) \in 0..Len(s)
  BY SortedLists
<1> DEFINE g == Visits(d, p, v, s)
<1>2. Shared(g[Len(s)].orders, s, Len(s)) = v - g[Len(s)].volume /\ g[Len(s)].volume \in Nat
  BY <1>1, DealLeaves
<1> HIDE DEF g
<1> QED BY <1>2, VolumesAssumption DEF Deal, g

\* Why the loop has started, and why it has come to an end
LEMMA DealFlags ==
  ASSUME IInv, NEW d \in Dirs, NEW p \in Prices, NEW v \in 1..MaxTick, NEW s \in Sorted(d, orders),
         NEW g, g = Visits(d, p, v, s), NEW k \in 0..Len(s)
  PROVE  /\ g[k].started => \E a \in 1..k : orders[s[a]].dir = Opposite(d)
         /\ g[k].finished => \E a \in 1..k : \/ Before(d, p, orders[s[a]].price)
                                             \/ orders[s[a]].price = p /\ g[k].volume = 0
<1> DEFINE n == Len(s)
           Starts(m) == g[m].started => \E a \in 1..m : orders[s[a]].dir = Opposite(d)
           Ends(m) == g[m].finished => \E a \in 1..m : \/ Before(d, p, orders[s[a]].price)
                                                       \/ orders[s[a]].price = p /\ g[m].volume = 0
           S == {m \in 0..n : Starts(m) /\ Ends(m)}
<1>1. n \in Nat
  BY SortedLists
<1>2. ~g[0].started /\ ~g[0].finished
  BY <1>1, VisitsWell DEF VisitsBy
<1>3. 0 \in S
  BY <1>1, <1>2
<1>4. ASSUME NEW m \in 1..n, m - 1 \in S PROVE m \in S
  <2>1. Served(d, p, g[m - 1], s[m], g[m]) /\ g[m - 1].orders[s[m]] = orders[s[m]]
    BY DealGoes
  <2>2. Starts(m - 1) /\ Ends(m - 1) /\ m \in 1..m /\ \A a \in 1..(m - 1) : a \in 1..m
    BY <1>4
  <2>3. Starts(m)
    BY <2>1, <2>2 DEF Served
  <2>4. Ends(m)
    <3>1. CASE g[m - 1].finished
      <4>1. g[m] = g[m - 1]
        BY <2>1, <3>1 DEF Served
      <4> QED BY <2>2, <3>1, <4>1
    <3>2. CASE ~g[m - 1].finished
      BY <2>1, <2>2, <3>2 DEF Served
    <3> QED BY <3>1, <3>2
  <2> QED BY <2>3, <2>4
<1>5. 0..n \subseteq S
  <2>1. S \in SUBSET (0..n)
    OBVIOUS
  <2> HIDE DEF S
  <2> QED BY <1>1, <1>3, <1>4, <2>1, FirstFailure
<1> QED BY <1>5

\* In the sorted orders none comes after one that a deal would reach later, and
\* while bids and asks are apart those of the deal's own side come first.
LEMMA SortedOrders ==
  ASSUME IInv, OwnOrdersUncrossed, NEW d \in Dirs, NEW s \in Sorted(d, orders),
         NEW a \in 1..Len(s), NEW b \in 1..Len(s), a < b
  PROVE  /\ ~Before(d, orders[s[b]].price, orders[s[a]].price)
         /\ orders[s[a]].dir = Opposite(d) => orders[s[b]].dir = Opposite(d)
<1>1. s[a] \in Live /\ s[b] \in Live /\ DOMAIN s = 1..Len(s)
  BY SortedLists
<1>2. /\ orders[s[a]].dir \in Dirs /\ orders[s[b]].dir \in Dirs
      /\ orders[s[a]].price \in Nat /\ orders[s[b]].price \in Nat
  BY <1>1, RestingWell, PricesAssumption DEF Resting
<1>3. ~Before(d, orders[s[b]].price, orders[s[a]].price)
  BY <1>1 DEF Sorted
<1>4. ASSUME orders[s[a]].dir = Opposite(d), orders[s[b]].dir = d PROVE FALSE
  <2>1. CASE d = "Bid"
    BY <1>1, <1>2, <1>3, <1>4, <2>1 DEF OwnOrdersUncrossed, Opposite, Before
  <2>2. CASE d = "Ask"
    BY <1>1, <1>2, <1>3, <1>4, <2>2 DEF OwnOrdersUncrossed, Opposite, Before
  <2> QED BY <2>1, <2>2 DEF Dirs
<1> QED BY <1>2, <1>3, <1>4 DEF Dirs, Opposite

LEMMA QueueServed == IInv => DealServesQueue
<1> SUFFICES ASSUME IInv, OwnOrdersUncrossed,
                    NEW d \in Dirs, NEW p \in Prices, NEW v \in 1..MaxTick,
                    NEW s \in Sorted(d, orders), NEW a \in DOMAIN s
    PROVE  LET t == Deal(d, p, v, s).orders
               i == s[a]
               o == orders[i]
               reached == v - Shared(t, s, a - 1)
           IN  CASE o.dir = d \/ Before(d, p, o.price) ->
                      t[i] = o
                 [] o.dir # d /\ Before(d, o.price, p) ->
                      Share(t, i) = Part(reached, o.volume) /\ t[i].before = 0
                 [] o.dir # d /\ o.price = p ->
                      /\ Share(t, i) = Part(reached - o.before, o.volume)
                      /\ t[i].before = o.before - Part(reached, o.before)
  BY DEF DealServesQueue
<1> DEFINE g == Visits(d, p, v, s)
           n == Len(s)
           t == g[n].orders
           i == s[a]
           o == orders[i]
           acc == g[a - 1]
           reached == v - Shared(t, s, a - 1)
<1>1. /\ n \in Nat /\ DOMAIN s = 1..n /\ a \in 1..n /\ a - 1 \in 0..n /\ i \in Live
      /\ \A k \in 1..(a - 1) : k \in 1..n /\ k < a /\ s[k] \in Live
  <2>1. n \in Nat /\ DOMAIN s = 1..n /\ \A k \in 1..n : s[k] \in Live
    BY SortedLists, Zenon
  <2> HIDE DEF n
  <2>2. a \in 1..n /\ i \in Live
    BY <2>1
  <2>3. a - 1 \in 0..n /\ \A k \in 1..(a - 1) : k \in 1..n /\ k < a
    BY <2>1, <2>2
  <2> QED BY <2>1, <2>2, <2>3
<1>2. Deal(d, p, v, s).orders = t
  BY DEF Deal
<1> HIDE DEF g, n
<1>3. /\ Served(d, p, acc, i, g[a]) /\ PassedWell(acc) /\ PassedWell(g[a])
      /\ acc.orders[i] = o /\ t[i] = g[a].orders[i]
  BY <1>1, DealGoes DEF g, n
<1>4. acc.volume = reached /\ acc.volume \in Nat
  BY <1>1, DealLeaves DEF g, n
<1>5. /\ acc.started => \E k \in 1..(a - 1) : orders[s[k]].dir = Opposite(d)
      /\ acc.finished => \E k \in 1..(a - 1) : \/ Before(d, p, orders[s[k]].price)
                                               \/ orders[s[k]].price = p /\ acc.volume = 0
  BY <1>1, DealFlags DEF g, n
<1>6. /\ o.dir \in Dirs /\ o.price \in Nat /\ o.volume \in Nat /\ o.before \in Nat /\ p \in Nat
      /\ o = orders[i] /\ o.volume > 0
  <2>1. o \in Resting /\ o = orders[i]
    BY <1>1, RestingWell
  <2> HIDE DEF o
  <2>2. p \in Nat /\ Prices \subseteq Nat /\ MaxVolume \in Nat /\ MaxQuote \in Nat
    BY PricesAssumption, VolumesAssumption
  <2>3. o.dir \in Dirs /\ o.price \in Prices /\ o.volume \in 1..MaxVolume /\ o.before \in 0..MaxQuote
    BY <2>1 DEF Resting
  <2>4. o.price \in Nat
    BY <2>2, <2>3, Zenon
  <2> QED BY <2>1, <2>2, <2>3, <2>4
<1>7. ASSUME NEW k \in 1..(a - 1)
      PROVE  /\ ~Before(d, o.price, orders[s[k]].price)
             /\ orders[s[k]].dir = Opposite(d) => o.dir = Opposite(d)
             /\ orders[s[k]].price \in Nat
  <2>1. orders[s[k]].price \in Nat
    BY <1>1, RestingWell, PricesAssumption DEF Resting
  <2> QED BY <1>1, <2>1, SortedOrders DEF n
<1>8. /\ Before(d, o.price, p) \/ o.price = p \/ Before(d, p, o.price)
      /\ Before(d, o.price, p) => ~Before(d, p, o.price) /\ o.price # p
      /\ Before(d, p, o.price) => o.price # p
      /\ d # Opposite(d) /\ (o.dir # d <=> o.dir = Opposite(d))
  BY <1>6, BeforeOrders DEF Dirs, Opposite
<1> HIDE DEF o, i, t, reached
<1>9. CASE o.dir = d
  <2>1. ~acc.started
    BY <1>5, <1>7, <1>8, <1>9
  <2>2. g[a] = acc
    BY <1>3, <1>8, <1>9, <2>1 DEF Served
  <2>3. t[i] = o
    BY <1>3, <2>2
  <2> QED BY <1>2, <1>9, <2>3 DEF i, o
<1>10. CASE o.dir # d /\ Before(d, p, o.price)
  <2>1. t[i] = o
    BY <1>3, <1>10 DEF Served
  <2> QED BY <1>2, <1>8, <1>10, <2>1 DEF i, o
<1>11. CASE o.dir # d /\ Before(d, o.price, p)
  <2>1. ~acc.finished
    <3> SUFFICES ASSUME acc.finished PROVE FALSE
      OBVIOUS
    <3>1. PICK k \in 1..(a - 1) : Before(d, p, orders[s[k]].price) \/ orders[s[k]].price = p
      BY <1>5
    <3>2. Before(d, o.price, orders[s[k]].price)
      BY <1>6, <1>7, <1>11, <3>1, BeforeOrders
    <3> QED BY <1>7, <3>2
  <2>2. t[i].volume = o.volume - Part(acc.volume, o.volume) /\ t[i].before = 0
    BY <1>3, <1>8, <1>11, <2>1 DEF Served
  <2>3. Part(acc.volume, o.volume) \in Nat
    BY <1>4, <1>6, PartIs
  <2>4. Share(t, i) = Part(reached, o.volume)
    BY <1>4, <1>6, <2>2, <2>3 DEF Share
  <2> QED BY <1>2, <1>8, <1>11, <2>2, <2>4 DEF i, o, reached
<1>12. CASE o.dir # d /\ o.price = p
  <2>1. CASE acc.finished
    <3>1. PICK k \in 1..(a - 1) : \/ Before(d, p, orders[s[k]].price)
                                  \/ orders[s[k]].price = p /\ acc.volume = 0
      BY <1>5, <2>1
    <3>2. acc.volume = 0
      BY <1>7, <1>12, <3>1
    <3>3. t[i] = o
      BY <1>3, <2>1 DEF Served
    <3>4. Share(t, i) = 0
      BY <1>6, <3>3 DEF Share
    <3>5. Part(reached - o.before, o.volume) = 0 /\ Part(reached, o.before) = 0
      BY <1>4, <1>6, <3>2, PartIs
    <3>6. t[i].before = o.before - Part(reached, o.before)
      BY <1>6, <3>3, <3>5
    <3> QED BY <1>2, <1>8, <1>12, <3>4, <3>5, <3>6 DEF i, o, reached
  <2>2. CASE ~acc.finished
    <3>1. /\ t[i].volume = o.volume - Part(acc.volume - o.before, o.volume)
          /\ t[i].before = o.before - Part(acc.volume, o.before)
      BY <1>3, <1>8, <1>12, <2>2 DEF Served
    <3>2. Part(acc.volume - o.before, o.volume) \in Int
      BY <1>4, <1>6, PartIs
    <3>3. Share(t, i) = Part(reached - o.before, o.volume)
      BY <1>4, <1>6, <3>1, <3>2 DEF Share
    <3> QED BY <1>2, <1>4, <1>8, <1>12, <3>1, <3>3 DEF i, o, reached
  <2> QED BY <2>1, <2>2
<1> QED BY <1>8, <1>9, <1>10, <1>11, <1>12

-----------------------------------------------------------------------------
(* The requests, the deals and the quotes keep the invariant *)

LEMMA TickKeeps == IInv /\ Tick => IInv'
<1> SUFFICES ASSUME IInv, Tick PROVE IInv'
  OBVIOUS
<1>0. PICK d \in Dirs, p \in Prices, v \in 1..MaxTick : \E s \in Sorted(d, orders) :
         orders' = Remaining(Deal(d, p, v, s).orders) /\ history' = Deal(d, p, v, s).told
  BY DEF Tick
<1>1. PICK s \in Sorted(d, orders) :
         orders' = Remaining(Deal(d, p, v, s).orders) /\ history' = Deal(d, p, v, s).told
  BY <1>0
<1> DEFINE t == Deal(d, p, v, s)
<1>2. PassedWell(t)
  <2>1. Len(s) \in 0..Len(s)
    BY SortedLists
  <2> QED BY <2>1, VisitsWell DEF Deal
<1>3. /\ UNCHANGED <<book, refused, halted, placed>> /\ ~halted
      /\ orders' = Remaining(t.orders) /\ history' = t.told
  BY <1>1 DEF Tick
<1> HIDE DEF t
<1>4. t.orders \in [Live -> Partly] /\ t.told \in [Ids -> Seq(Report)]
  BY <1>2 DEF PassedWell, Loop
<1>5. /\ DOMAIN orders' = {i \in Live : t.orders[i].volume > 0}
      /\ \A i \in DOMAIN orders' : orders'[i] = t.orders[i]
      /\ orders' = [i \in DOMAIN orders' |-> t.orders[i]]
  BY <1>3, <1>4 DEF Remaining, Restrict
<1>6. Well(orders, history, refused, placed, FALSE)
  BY <1>3 DEF IInv, Well
<1>7. orders' \in [DOMAIN orders' -> Resting]
  <2>1. \A e \in Partly : e.volume > 0 => e \in Resting
    BY VolumesAssumption DEF Partly, Resting
  <2>2. \A i \in DOMAIN orders' : t.orders[i] \in Resting
    BY <1>4, <1>5, <2>1
  <2> QED BY <1>5, <2>2
<1>8. DOMAIN orders' \subseteq Ids /\ IsFiniteSet(DOMAIN orders')
  BY <1>5, <1>6, FS_Subset DEF Well, Live
<1>9. ASSUME NEW i \in Ids
      PROVE  OrderWell(i, orders', history'[i], placed[i], refused, FALSE)
  <2>1. OrderWell(i, orders, history[i], placed[i], refused, FALSE)
    BY <1>6 DEF Well
  <2>2. CASE i \notin Live
    <3>1. history'[i] = history[i] /\ i \notin DOMAIN orders'
      BY <1>2, <1>3, <1>5, <2>2 DEF PassedWell
    <3> QED BY <2>1, <2>2, <3>1 DEF OrderWell, Standing, Live
  <2>3. CASE i \in Live
    <3> DEFINE h == history'[i]
               e == t.orders[i]
    <3>1. Passed(i, e, h) /\ h \in Seq(Report) /\ e \in Partly
      BY <1>2, <1>3, <1>4, <2>3 DEF PassedWell
    <3>2. /\ placed[i] \in Request /\ placed[i].type = "Limit" /\ placed[i].volume \in 1..MaxVolume
          /\ orders[i].dir = placed[i].dir /\ orders[i].price = placed[i].price
          /\ history[i] # <<>>
      BY <2>3, RestingWell
    <3> HIDE DEF h, e
    <3>3. /\ Lived(h, placed[i].volume) /\ FairPrices(h, placed[i])
          /\ Last(h).status # "Cancel" /\ Last(h).rest = e.volume
          /\ e.dir = placed[i].dir /\ e.price = placed[i].price
      BY <3>1, <3>2 DEF Passed
    <3>4. Left(Last(h)) = e.volume /\ (IsOver(Last(h)) <=> e.volume = 0)
      BY <3>1, <3>2, <3>3, OverIsNothingLeft
    <3>5. h # <<>> /\ i \notin refused /\ placed[i] # NoOrder
      BY <2>1, <3>2, <3>3, NoOrderAssumption DEF OrderWell, Lived
    <3>6. e.volume \in Nat
      BY <3>1, VolumesAssumption DEF Partly
    <3>7. i \in DOMAIN orders' <=> e.volume > 0
      BY <1>5, <2>3 DEF e
    <3>8. i \in DOMAIN orders' => orders'[i] = e
      BY <1>5 DEF e
    <3>9. Standing(i, orders', h, placed[i])
      BY <3>2, <3>3, <3>4, <3>5, <3>6, <3>7, <3>8 DEF Standing
    <3>10. OrderWell(i, orders', h, placed[i], refused, FALSE)
      BY <3>2, <3>3, <3>4, <3>5, <3>6, <3>7, <3>9 DEF OrderWell
    <3> QED BY <3>10 DEF h
  <2> QED BY <2>2, <2>3
<1>10. Well(orders', history', refused, placed, FALSE)
  BY <1>3, <1>4, <1>6, <1>7, <1>8, <1>9 DEF Well
<1>11. IInv' = (Booked' /\ Well(orders', history', refused', placed', halted'))
  BY DEF IInv, Well, OrderWell, Standing
<1>12. Booked' /\ halted = FALSE
  BY <1>3, <1>6 DEF Booked, IInv, Well
<1> QED BY <1>3, <1>10, <1>11, <1>12

LEMMA WellPrimed ==
  IInv' <=> (Booked' /\ Well(orders', history', refused', placed', halted'))
BY DEF IInv, Well, OrderWell, Standing

LEMMA AddKeeps == IInv /\ AddOrder => IInv'
<1> SUFFICES ASSUME IInv, AddOrder PROVE IInv'
  OBVIOUS
<1>1. PICK i \in Ids, o \in Request :
         /\ placed[i] = NoOrder /\ (o.type = "Market" <=> o.price = 0)
         /\ placed' = [placed EXCEPT ![i] = o] /\ Submit(i, o, orders, history)
  BY DEF AddOrder
<1>2. ~halted /\ book' = book /\ Booked
  BY DEF AddOrder, IInv
<1>3. Well(orders, history, refused, placed, FALSE)
  BY <1>2 DEF IInv, Well
<1>4. Well(orders', history', refused', placed', halted')
  BY <1>1, <1>2, <1>3, SubmissionKeeps
<1>5. Booked'
  BY <1>2 DEF Booked
<1> QED BY <1>4, <1>5, WellPrimed

LEMMA DelKeeps == IInv /\ DelOrder => IInv'
<1> SUFFICES ASSUME IInv, DelOrder PROVE IInv'
  OBVIOUS
<1>1. PICK i \in Live : orders' = Without(i) /\ history' = CancelReported(i)
  BY DEF DelOrder
<1>2. ~halted /\ UNCHANGED <<book, refused, halted, placed>> /\ halted = FALSE
  BY DEF DelOrder, IInv, Well
<1>3. Well(orders', history', refused', placed', halted')
  BY <1>1, <1>2, DeletionKeeps
<1>4. Booked'
  BY <1>2 DEF Booked, IInv
<1> QED BY <1>3, <1>4, WellPrimed

\* The order that takes the place of a moved one
MovedTo(i, p, v) == [dir |-> orders[i].dir, type |-> "Limit", price |-> p,
                     volume |-> IF v # 0 THEN v ELSE orders[i].volume]

LEMMA MovedToType ==
  ASSUME IInv, NEW i \in Live, NEW p \in Prices, NEW v \in 0..MaxVolume
  PROVE  /\ MovedTo(i, p, v) \in Request /\ MovedTo(i, p, v).volume > 0
         /\ MovedTo(i, p, v).price # 0
<1>1. orders[i] \in Resting /\ placed[i] \in Request /\ placed[i].type = "Limit"
  BY RestingWell
<1>2. /\ orders[i].dir \in Dirs /\ orders[i].volume \in 1..MaxVolume /\ "Limit" \in Types
      /\ MaxVolume \in Nat /\ p # 0
  BY <1>1, VolumesAssumption, PricesAssumption DEF Resting, Request
<1>3. (IF v # 0 THEN v ELSE orders[i].volume) \in 1..MaxVolume
  BY <1>2
<1> QED BY <1>2, <1>3 DEF MovedTo, Request

LEMMA MoveIs ==
  ASSUME MoveOrder
  PROVE  \E i \in Live, j \in Ids, p \in Prices, v \in 0..MaxVolume :
           /\ placed[j] = NoOrder /\ placed' = [placed EXCEPT ![j] = MovedTo(i, p, v)]
           /\ Submit(j, MovedTo(i, p, v), Without(i), CancelReported(i))
BY Zenon DEF MoveOrder, MovedTo

LEMMA MoveKeeps == IInv /\ MoveOrder => IInv'
<1> SUFFICES ASSUME IInv, MoveOrder PROVE IInv'
  OBVIOUS
<1>1. PICK i \in Live, j \in Ids, p \in Prices, v \in 0..MaxVolume :
           /\ placed[j] = NoOrder /\ placed' = [placed EXCEPT ![j] = MovedTo(i, p, v)]
           /\ Submit(j, MovedTo(i, p, v), Without(i), CancelReported(i))
  BY MoveIs
<1>2. ~halted /\ book' = book /\ Booked
  BY DEF MoveOrder, IInv
<1>3. Well(Without(i), CancelReported(i), refused, placed, FALSE)
  BY <1>2, DeletionKeeps
<1>4. MovedTo(i, p, v) \in Request /\ MovedTo(i, p, v).price # 0
  BY MovedToType
<1>5. Well(orders', history', refused', placed', halted')
  BY <1>1, <1>2, <1>3, <1>4, SubmissionKeeps
<1>6. Booked'
  BY <1>2 DEF Booked
<1> QED BY <1>5, <1>6, WellPrimed

LEMMA NextKeeps == IInv /\ [Next]_vars => IInv'
<1> SUFFICES ASSUME IInv, [Next]_vars PROVE IInv'
  OBVIOUS
<1>1. CASE Stocks
  <2>1. PICK p \in Prices, v \in -MaxQuote..MaxQuote : book' = [book EXCEPT ![p] = v]
    BY <1>1 DEF Stocks
  <2>2. Booked'
    BY <2>1 DEF IInv, Booked
  <2>3. UNCHANGED <<orders, history, refused, halted, placed>>
    BY <1>1 DEF Stocks
  <2> QED BY <2>2, <2>3, WellPrimed DEF IInv
<1>2. CASE UNCHANGED vars
  <2>1. Booked'
    BY <1>2 DEF vars, Booked, IInv
  <2>2. Well(orders', history', refused', placed', halted')
    BY <1>2 DEF vars, IInv
  <2> QED BY <2>1, <2>2, WellPrimed
<1>3. CASE Stopped
  BY <1>2, <1>3 DEF Stopped
<1> QED BY <1>1, <1>2, <1>3, AddKeeps, DelKeeps, MoveKeeps, TickKeeps DEF Next

-----------------------------------------------------------------------------
(* The theorems *)

\* What the simulator keeps of each order and what it told of it fit together,
\* whatever was added, moved, deleted and dealt.
THEOREM InvariantCorrect == Spec => []IInv
<1>1. Init => IInv
  BY InitWell
<1>2. IInv /\ [Next]_vars => IInv'
  BY NextKeeps
<1> QED BY <1>1, <1>2, PTL DEF Spec

\* The reports of an order add up: every fill and every cancellation reports
\* what the reports before it left, and the order rests exactly as long as it
\* has not ended; a fill-or-kill order is filled completely or not at all.
THEOREM LedgerCorrect == Spec => []LedgerInv
<1>1. IInv => LedgerInv
  BY LedgerFollows
<1> QED BY <1>1, InvariantCorrect, PTL

\* No order trades at a price worse than its limit, neither with the quotes it
\* meets nor with the deals that reach it later.
THEOREM FairPricesCorrect == Spec => []NeverWorseThanLimit
<1>1. IInv => NeverWorseThanLimit
  BY FairFollows
<1> QED BY <1>1, InvariantCorrect, PTL

\* A sweep takes the best prices first: at each price within the limit exactly
\* what all better ones left of the order, and beyond the limit nothing.
THEOREM SweepCorrect == Spec => []SweepTakesBest
<1>1. IInv => SweepTakesBest
  BY BestTaken DEF IInv
<1> QED BY <1>1, InvariantCorrect, PTL

\* A deal gives every resting order what one merged queue would, own orders
\* and foreign volume in their turn, and never more than was dealt.
THEOREM DealsShared == Spec => []DealShared
<1>1. IInv => DealShared
  BY QueueServed, VolumeKept DEF DealShared
<1> QED BY <1>1, InvariantCorrect, PTL

-----------------------------------------------------------------------------
(* The exchange it implements *)

\* Where an order is in its life, and what it has left
Stage(i) ==
    /\ StateOf(i) = "unknown" <=> placed[i] = NoOrder
    /\ StateOf(i) = "open" <=> i \in Live
    /\ i \in Live => RestOf(i) = orders[i].volume
    /\ StateOf(i) = "unknown" => RestOf(i) = 0
    /\ StateOf(i) # "unknown" =>
          \/ StateOf(i) \in {"refused", "dropped", "filled"} /\ RestOf(i) = 0
          \/ StateOf(i) \in {"open", "cancelled", "lost"} /\ RestOf(i) \in 1..MaxVolume
    /\ history[i] # <<>> /\ i \notin Live =>
          /\ Last(history[i]).status # "Cancel" /\ Last(history[i]).rest = 0 => StateOf(i) = "filled"
          /\ Last(history[i]).status = "Cancel" =>
                StateOf(i) = "cancelled" /\ RestOf(i) = Last(history[i]).volume

LEMMA StageIs == IInv => \A i \in Ids : Stage(i)
<1> SUFFICES ASSUME IInv, NEW i \in Ids PROVE Stage(i)
  OBVIOUS
<1>1. OrderWell(i, orders, history[i], placed[i], refused, halted) /\ MaxVolume \in Nat
  BY VolumesAssumption DEF IInv, Well
<1>2. CASE placed[i] = NoOrder
  BY <1>1, <1>2 DEF OrderWell, Stage, StateOf, RestOf, Live
<1>3. CASE i \in Live
  <2>1. /\ placed[i] # NoOrder /\ history[i] # <<>> /\ Last(history[i]).status # "Cancel"
        /\ Last(history[i]).rest = orders[i].volume /\ orders[i].volume \in 1..MaxVolume
    BY <1>3, RestingWell, NoOrderAssumption DEF Resting
  <2> QED BY <1>3, <2>1 DEF Stage, StateOf, RestOf
<1>4. CASE placed[i] # NoOrder /\ i \notin Live /\ history[i] = <<>>
  BY <1>4 DEF Stage, StateOf, RestOf
<1>5. CASE placed[i] # NoOrder /\ i \notin Live /\ history[i] # <<>>
  <2>1. Last(history[i]) \in Report
    BY <1>5, AcceptedWell
  <2>2. /\ Last(history[i]).volume \in 1..MaxVolume
        /\ Last(history[i]).rest = 0 \/ Last(history[i]).rest \in 1..MaxVolume
    BY <1>1, <2>1 DEF Report
  <2>3. i \notin refused
    BY <1>1, <1>5 DEF OrderWell
  <2> QED BY <1>5, <2>2, <2>3 DEF Stage, StateOf, RestOf
<1> QED BY <1>2, <1>3, <1>4, <1>5

LEMMA StageIsNext == (IInv => \A i \in Ids : Stage(i))'
BY StageIs, PTL

LEMMA ExchangeType ==
  IInv => /\ [i \in Ids |-> StateOf(i)] \in [Ids -> AsExchange!States]
          /\ [i \in Ids |-> RestOf(i)] \in [Ids -> 0..MaxVolume]
<1> SUFFICES ASSUME IInv, NEW i \in Ids
    PROVE  StateOf(i) \in AsExchange!States /\ RestOf(i) \in 0..MaxVolume
  OBVIOUS
<1>1. Stage(i) /\ MaxVolume \in Nat
  BY StageIs, VolumesAssumption
<1> QED BY <1>1 DEF Stage, AsExchange!States, AsExchange!Over

LEMMA ExchangeTypeNext ==
  (IInv => /\ [i \in Ids |-> StateOf(i)] \in [Ids -> AsExchange!States]
           /\ [i \in Ids |-> RestOf(i)] \in [Ids -> 0..MaxVolume])'
BY ExchangeType, PTL

\* What a step does to the order of id n, as the exchange sees it
Stays(n) == StateOf(n)' = StateOf(n) /\ RestOf(n)' = RestOf(n)
Comes(n) == placed[n] = NoOrder /\ placed'[n] # NoOrder
Goes(n) == n \in Live /\ StateOf(n)' = "cancelled" /\ RestOf(n)' = RestOf(n)
Shrinks(n) ==
    /\ n \in Live /\ RestOf(n)' \in 0..(RestOf(n) - 1)
    /\ StateOf(n)' = IF RestOf(n)' = 0 THEN "filled" ELSE "open"

LEMMA ExchangeStep ==
  ASSUME IInv, IInv', \A n \in Ids : Stays(n) \/ Comes(n) \/ Goes(n) \/ Shrinks(n)
  PROVE  AsExchange!Next
<1>1. /\ [i \in Ids |-> StateOf(i)'] \in [Ids -> AsExchange!States]
      /\ [i \in Ids |-> RestOf(i)'] \in [Ids -> 0..MaxVolume]
  BY ExchangeTypeNext
<1>2. ASSUME NEW n \in Ids
      PROVE  AsExchange!Place(n) \/ AsExchange!Fill(n) \/ AsExchange!Cancel(n) \/ AsExchange!Keep(n)
  <2>1. Stage(n) /\ Stage(n)'
    BY StageIs, StageIsNext
  <2>2. CASE Comes(n)
    <3>1. StateOf(n) = "unknown" /\ StateOf(n)' # "unknown"
      BY <2>1, <2>2 DEF Stage, Comes
    <3>2. \/ StateOf(n)' \in {"refused", "dropped", "filled"} /\ RestOf(n)' = 0
          \/ StateOf(n)' \in {"open", "cancelled", "lost"} /\ RestOf(n)' \in 1..MaxVolume
      BY <2>1, <3>1 DEF Stage
    <3> QED BY <3>1, <3>2 DEF AsExchange!Place
  <2>3. n \in Live => StateOf(n) = "open"
    BY <2>1 DEF Stage
  <2> QED BY <1>2, <2>2, <2>3
        DEF Stays, Goes, Shrinks, AsExchange!Fill, AsExchange!Cancel, AsExchange!Keep
<1> QED BY <1>1, <1>2 DEF AsExchange!Next

\* An order a step does not touch
LEMMA Untouched ==
  ASSUME NEW n \in Ids, placed'[n] = placed[n], history'[n] = history[n],
         n \in DOMAIN orders' <=> n \in DOMAIN orders, n \in refused' <=> n \in refused
  PROVE  Stays(n)
BY DEF Stays, StateOf, RestOf, Live

LEMMA SubmissionTouchesOne ==
  ASSUME NEW i, NEW o, NEW live, NEW told, told \in [Ids -> Seq(Report)], Submit(i, o, live, told),
         NEW n \in Ids, n # i
  PROVE  /\ history'[n] = told[n] /\ (n \in refused' <=> n \in refused)
         /\ n \in DOMAIN orders' <=> n \in DOMAIN live
<1> DEFINE s == Sweep(o)
           ex == Executions(o, s)
<1>1. n \in DOMAIN Rested(i, o, s.volume, live) <=> n \in DOMAIN live
  BY DEF Rested
<1> HIDE DEF s, ex
<1> QED BY <1>1 DEF Submit, s, ex

\* An order that is given up goes.
LEMMA DeletionGoes ==
  ASSUME IInv, IInv', NEW i \in Live, i \notin DOMAIN orders',
         history'[i] = Append(history[i], Cancelled(orders[i].volume))
  PROVE  Goes(i)
<1> DEFINE h == Append(history[i], Cancelled(orders[i].volume))
<1>1. i \in Ids /\ history[i] \in Seq(Report) /\ orders[i] \in Resting
  BY RestingWell
<1>2. Stage(i) /\ Stage(i)'
  BY <1>1, StageIs, StageIsNext
<1>3. Cancelled(orders[i].volume) \in Report
  BY <1>1, ReportFacts DEF Resting
<1>4. Len(h) = Len(history[i]) + 1 /\ h # <<>> /\ h[Len(h)] = Cancelled(orders[i].volume)
  BY <1>1, <1>3, AppendProperties
<1> HIDE DEF h
<1>5. Last(h) = Cancelled(orders[i].volume)
  BY <1>4 DEF Last
<1>6. Last(h).status = "Cancel" /\ Last(h).volume = orders[i].volume
  BY <1>5 DEF Cancelled
<1>7. history'[i] = h /\ i \notin Live'
  BY DEF h, Live
<1>8. StateOf(i)' = "cancelled" /\ RestOf(i)' = orders[i].volume
  BY <1>2, <1>4, <1>6, <1>7 DEF Stage
<1> QED BY <1>2, <1>8 DEF Stage, Goes

\* An order under a new id comes, the others stay.
LEMMA SubmissionComes ==
  ASSUME IInv, NEW i \in Ids, NEW o \in Request, placed[i] = NoOrder,
         placed' = [placed EXCEPT ![i] = o]
  PROVE  Comes(i) /\ \A n \in Ids : n # i => placed'[n] = placed[n]
BY NoOrderAssumption DEF Comes, IInv, Well

LEMMA AddImplements == ASSUME IInv, IInv', AddOrder PROVE AsExchange!Next
<1>1. PICK i \in Ids, o \in Request :
         placed[i] = NoOrder /\ placed' = [placed EXCEPT ![i] = o] /\ Submit(i, o, orders, history)
  BY DEF AddOrder
<1>2. ASSUME NEW n \in Ids PROVE Stays(n) \/ Comes(n)
  <2>1. history \in [Ids -> Seq(Report)]
    BY DEF IInv, Well
  <2>2. CASE n = i
    BY <1>1, <2>2, SubmissionComes
  <2>3. CASE n # i
    <3>1. /\ history'[n] = history[n] /\ (n \in refused' <=> n \in refused)
          /\ n \in DOMAIN orders' <=> n \in DOMAIN orders
      BY <1>1, <2>1, <2>3, SubmissionTouchesOne
    <3>2. placed'[n] = placed[n]
      BY <1>1, <2>3, SubmissionComes
    <3> QED BY <3>1, <3>2, Untouched
  <2> QED BY <2>2, <2>3
<1> QED BY <1>2, ExchangeStep

LEMMA DeletionTouchesOne ==
  ASSUME IInv, NEW i \in Live
  PROVE  /\ CancelReported(i) \in [Ids -> Seq(Report)]
         /\ CancelReported(i)[i] = Append(history[i], Cancelled(orders[i].volume))
         /\ DOMAIN Without(i) = Live \ {i}
         /\ \A n \in Ids : n # i => CancelReported(i)[n] = history[n]
<1>1. /\ i \in Ids /\ history[i] \in Seq(Report) /\ orders[i] \in Resting
      /\ history \in [Ids -> Seq(Report)]
  BY RestingWell DEF IInv, Well
<1>2. Append(history[i], Cancelled(orders[i].volume)) \in Seq(Report)
  <2>1. Cancelled(orders[i].volume) \in Report
    BY <1>1, ReportFacts DEF Resting
  <2> QED BY <1>1, <2>1, AppendProperties
<1>3. CancelReported(i) = [history EXCEPT ![i] = Append(history[i], Cancelled(orders[i].volume))]
  BY DEF CancelReported
<1>4. DOMAIN Without(i) = Live \ {i}
  BY DEF Without, Restrict, Live
<1> QED BY <1>1, <1>2, <1>3, <1>4

LEMMA DelImplements == ASSUME IInv, IInv', DelOrder PROVE AsExchange!Next
<1>1. PICK i \in Live : orders' = Without(i) /\ history' = CancelReported(i)
  BY DEF DelOrder
<1>2. ASSUME NEW n \in Ids PROVE Stays(n) \/ Goes(n)
  <2>1. UNCHANGED <<refused, placed>>
    BY DEF DelOrder
  <2>2. CASE n = i
    BY <1>1, <2>2, DeletionTouchesOne, DeletionGoes
  <2>3. CASE n # i
    BY <1>1, <2>1, <2>3, DeletionTouchesOne, Untouched DEF Live
  <2> QED BY <2>2, <2>3
<1> QED BY <1>2, ExchangeStep

LEMMA MoveImplements == ASSUME IInv, IInv', MoveOrder PROVE AsExchange!Next
<1>1. PICK i \in Live, j \in Ids, p \in Prices, v \in 0..MaxVolume :
           /\ placed[j] = NoOrder /\ placed' = [placed EXCEPT ![j] = MovedTo(i, p, v)]
           /\ Submit(j, MovedTo(i, p, v), Without(i), CancelReported(i))
  BY MoveIs
<1>2. MovedTo(i, p, v) \in Request /\ i \in Ids /\ i # j
  BY <1>1, MovedToType, RestingWell, NoOrderAssumption
<1>3. ASSUME NEW n \in Ids, n # j
      PROVE  /\ history'[n] = CancelReported(i)[n] /\ (n \in refused' <=> n \in refused)
             /\ n \in DOMAIN orders' <=> n \in DOMAIN Without(i)
             /\ placed'[n] = placed[n]
  <2>1. CancelReported(i) \in [Ids -> Seq(Report)]
    BY DeletionTouchesOne
  <2>2. /\ history'[n] = CancelReported(i)[n] /\ (n \in refused' <=> n \in refused)
        /\ n \in DOMAIN orders' <=> n \in DOMAIN Without(i)
    BY <1>1, <1>3, <2>1, SubmissionTouchesOne, Zenon
  <2>3. placed'[n] = placed[n]
    BY <1>1, <1>2, <1>3, SubmissionComes
  <2> QED BY <2>2, <2>3
<1>4. ASSUME NEW n \in Ids PROVE Stays(n) \/ Comes(n) \/ Goes(n)
  <2>1. CASE n = j
    BY <1>1, <1>2, <2>1, SubmissionComes
  <2>2. CASE n = i
    BY <1>2, <1>3, <2>2, DeletionTouchesOne, DeletionGoes
  <2>3. CASE n # i /\ n # j
    BY <1>3, <2>3, DeletionTouchesOne, Untouched DEF Live
  <2> QED BY <2>1, <2>2, <2>3
<1> QED BY <1>4, ExchangeStep

LEMMA TickImplements == ASSUME IInv, IInv', Tick PROVE AsExchange!Next
<1>0. PICK d \in Dirs, p \in Prices, v \in 1..MaxTick : \E s \in Sorted(d, orders) :
         orders' = Remaining(Deal(d, p, v, s).orders) /\ history' = Deal(d, p, v, s).told
  BY DEF Tick
<1>1. PICK s \in Sorted(d, orders) :
         orders' = Remaining(Deal(d, p, v, s).orders) /\ history' = Deal(d, p, v, s).told
  BY <1>0
<1> DEFINE t == Deal(d, p, v, s)
<1>2. PassedWell(t)
  <2>1. Len(s) \in 0..Len(s)
    BY SortedLists
  <2> QED BY <2>1, VisitsWell DEF Deal
<1>3. UNCHANGED <<refused, placed>> /\ orders' = Remaining(t.orders) /\ history' = t.told
  BY <1>1 DEF Tick
<1> HIDE DEF t
<1>4. t.orders \in [Live -> Partly]
  BY <1>2 DEF PassedWell, Loop
<1>5. DOMAIN orders' = {i \in Live : t.orders[i].volume > 0}
  BY <1>3, <1>4 DEF Remaining, Restrict
<1>6. ASSUME NEW n \in Ids PROVE Stays(n) \/ Shrinks(n)
  <2>1. CASE n \notin Live
    <3>1. history'[n] = history[n] /\ n \notin DOMAIN orders'
      BY <1>2, <1>3, <1>5, <2>1 DEF PassedWell
    <3> QED BY <1>3, <2>1, <3>1, Untouched DEF Live
  <2>2. CASE n \in Live
    <3> DEFINE e == t.orders[n]
    <3>1. Passed(n, e, history'[n]) /\ e \in Partly /\ history'[n] \in Seq(Report)
      BY <1>2, <1>3, <1>4, <2>2 DEF PassedWell, Loop
    <3>2. /\ orders[n].volume \in 1..MaxVolume /\ Last(history[n]).rest = orders[n].volume
          /\ history[n] # <<>> /\ MaxVolume \in Nat
      BY <2>2, RestingWell, VolumesAssumption DEF Resting
    <3>3. n \in DOMAIN orders' <=> e.volume > 0
      BY <1>5, <2>2
    <3>4. e.volume \in 0..MaxVolume /\ RestOf(n) = orders[n].volume
      BY <2>2, <3>1, StageIs DEF Partly, Stage
    <3> HIDE DEF e
    <3>5. CASE history'[n] = history[n]
      BY <1>3, <2>2, <3>1, <3>2, <3>3, <3>5, Untouched DEF Live, Passed
    <3>6. CASE Last(history'[n]).status = "Fill" /\ e.volume < orders[n].volume
      <4>1. history'[n] # <<>> /\ Last(history'[n]).rest = e.volume
        BY <3>1 DEF Passed, Lived
      <4>2. RestOf(n)' = e.volume
        BY <3>6, <4>1 DEF RestOf
      <4>3. Stage(n)'
        BY StageIsNext
      <4>4. StateOf(n)' = IF e.volume = 0 THEN "filled" ELSE "open"
        BY <3>3, <3>4, <3>6, <4>1, <4>3 DEF Stage, Live
      <4> QED BY <2>2, <3>2, <3>4, <3>6, <4>2, <4>4 DEF Shrinks
    <3> QED BY <3>1, <3>5, <3>6 DEF Passed
  <2> QED BY <2>1, <2>2
<1> QED BY <1>6, ExchangeStep

LEMMA NextImplements ==
  ASSUME IInv, IInv', [Next]_vars
  PROVE  \/ AsExchange!Next
         \/ UNCHANGED <<[i \in Ids |-> StateOf(i)], [i \in Ids |-> RestOf(i)]>>
<1>1. CASE UNCHANGED <<orders, history, refused, placed>>
  BY <1>1 DEF StateOf, RestOf, Live
<1>2. Stocks \/ Stopped \/ UNCHANGED vars => UNCHANGED <<orders, history, refused, placed>>
  BY DEF Stocks, Stopped, vars
<1> QED BY <1>1, <1>2, AddImplements, DelImplements, MoveImplements, TickImplements DEF Next

LEMMA InitImplements == Init => AsExchange!Init
BY DEF Init, AsExchange!Init, StateOf, RestOf

\* The simulator is an exchange: every order is answered in the step it is
\* placed in, only shrinks from then on, and is over for good when it was
\* filled or cancelled, whichever requests and deals come between.
THEOREM ExchangeImplemented == Spec => ImplementsExchange
<1>1. Init => AsExchange!Init
  BY InitImplements
<1>2. IInv /\ IInv' /\ [Next]_vars =>
        [AsExchange!Next]_<<[i \in Ids |-> StateOf(i)], [i \in Ids |-> RestOf(i)]>>
  BY NextImplements
<1>3. Spec => Init /\ [][Next]_vars /\ []IInv
  BY InvariantCorrect, PTL DEF Spec
<1> QED BY <1>1, <1>2, <1>3, PTL DEF ImplementsExchange, AsExchange!Spec
=============================================================================
