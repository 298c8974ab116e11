----------------------------- MODULE Deals_proofs -----------------------------
(****************************************************************************)
(* Proofs about the deals of orders.  WaitDeal, for any objects on the      *)
(* order, any volume and any number of waits: what an object has handed out *)
(* and what its wait buffers are together the fills so far.  Portfolio,     *)
(* for any orders, prices, volumes and length of the log: the loops of the  *)
(* code compute a first-in-first-out pairing of the units of the two sides, *)
(* of which position, profit and closing order are three views.             *)
(****************************************************************************)
EXTENDS WaitDeal, Portfolio, TLAPS, FiniteSetTheorems, SequenceTheorems,
        WellFoundedInduction

\* deals counts the fills handed out; a pending wait buffers the others.
Split ==
    \A w \in Waiters :
        /\ deals[w] <= Len(fills)
        /\ handed[w] = SubSeq(fills, 1, deals[w])
        /\ waits[w].pending => waits[w].buffer = Unread(w)

IInv == TypeOK /\ Split /\ EntireIsFilled /\ NobodyWaitsInVain

-----------------------------------------------------------------------------
(* Sequences of fills *)

LEMMA Parts ==
  ASSUME NEW s \in Seq(Event), NEW d \in Nat, d <= Len(s)
  PROVE  /\ SubSeq(s, 1, d) \in Seq(Event) /\ SubSeq(s, d + 1, Len(s)) \in Seq(Event)
         /\ Len(SubSeq(s, 1, d)) = d /\ Len(SubSeq(s, d + 1, Len(s))) = Len(s) - d
         /\ \A k \in 1..d : SubSeq(s, 1, d)[k] = s[k]
         /\ \A k \in 1..(Len(s) - d) : SubSeq(s, d + 1, Len(s))[k] = s[d + k]
  OBVIOUS

LEMMA SameSeq ==
  ASSUME NEW s \in Seq(Event), NEW t \in Seq(Event), Len(s) = Len(t),
         \A k \in 1..Len(s) : s[k] = t[k]
  PROVE  s = t
  OBVIOUS

LEMMA Whole ==
  ASSUME NEW s \in Seq(Event), NEW d \in Nat, d <= Len(s)
  PROVE  /\ SubSeq(s, 1, d) \o SubSeq(s, d + 1, Len(s)) = s
         /\ SubSeq(s, 1, Len(s)) = s
         /\ d + Len(SubSeq(s, d + 1, Len(s))) = Len(s)
         /\ SubSeq(s, d + 1, Len(s)) # <<>> =>
              Last(SubSeq(s, d + 1, Len(s))) = Last(s) /\ s # <<>>
  <1> DEFINE p == SubSeq(s, 1, d)
             q == SubSeq(s, d + 1, Len(s))
             a == SubSeq(s, 1, Len(s))
  <1>1. /\ p \in Seq(Event) /\ q \in Seq(Event) /\ Len(p) = d /\ Len(q) = Len(s) - d
        /\ \A k \in 1..d : p[k] = s[k]
        /\ \A k \in 1..(Len(s) - d) : q[k] = s[d + k]
        /\ Len(s) \in Nat
    BY Parts
  <1>2. a = s
    <2>1. a \in Seq(Event) /\ Len(a) = Len(s) /\ \A k \in 1..Len(s) : a[k] = s[k]
      BY <1>1, Parts
    <2> HIDE DEF a
    <2>q. QED BY <2>1, SameSeq
  <1> HIDE DEF p, q
  <1>3. p \o q = s
    <2> DEFINE c == p \o q
    <2>1. /\ c \in Seq(Event) /\ Len(c) = Len(p) + Len(q)
          /\ \A k \in 1..Len(p) : c[k] = p[k]
          /\ \A k \in (Len(p) + 1)..(Len(p) + Len(q)) : c[k] = q[k - Len(p)]
      BY <1>1
    <2> HIDE DEF c
    <2>2. Len(c) = Len(s)
      BY <1>1, <2>1
    <2>3. ASSUME NEW k \in 1..Len(c) PROVE c[k] = s[k]
      <3>1. CASE k <= d
        BY <1>1, <2>1, <3>1
      <3>2. CASE k > d
        <4>1. k \in (Len(p) + 1)..(Len(p) + Len(q)) /\ k - d \in 1..(Len(s) - d)
          BY <1>1, <2>1, <3>2
        <4>2. c[k] = q[k - d] /\ q[k - d] = s[d + (k - d)] /\ d + (k - d) = k
          BY <1>1, <2>1, <4>1
        <4>q. QED BY <4>2
      <3>q. QED BY <1>1, <2>1, <3>1, <3>2
    <2>q. QED BY <2>1, <2>2, <2>3, SameSeq DEF c
  <1>4. q # <<>> => Last(q) = Last(s) /\ s # <<>>
    <2> HAVE q # <<>>
    <2>1. Len(q) > 0 /\ Len(q) \in 1..(Len(s) - d) /\ d + Len(q) = Len(s)
      BY <1>1
    <2>q. QED BY <1>1, <2>1 DEF Last
  <1>5. d + Len(q) = Len(s)
    BY <1>1
  <1>q. QED BY <1>2, <1>3, <1>4, <1>5 DEF p, q

LEMMA Longer ==
  ASSUME NEW s \in Seq(Event), NEW e \in Event, NEW d \in Nat, d <= Len(s)
  PROVE  /\ Append(s, e) \in Seq(Event) /\ Len(Append(s, e)) = Len(s) + 1
         /\ Last(Append(s, e)) = e /\ Append(s, e) # <<>>
         /\ SubSeq(Append(s, e), 1, d) = SubSeq(s, 1, d)
         /\ SubSeq(Append(s, e), d + 1, Len(s) + 1) = Append(SubSeq(s, d + 1, Len(s)), e)
  <1> DEFINE a == Append(s, e)
  <1>1. /\ a \in Seq(Event) /\ Len(a) = Len(s) + 1 /\ Len(s) \in Nat
        /\ \A k \in 1..Len(s) : a[k] = s[k]
        /\ a[Len(s) + 1] = e
    OBVIOUS
  <1> HIDE DEF a
  <1>2. SubSeq(a, 1, d) = SubSeq(s, 1, d)
    <2> DEFINE p == SubSeq(a, 1, d)
               q == SubSeq(s, 1, d)
    <2>1. /\ p \in Seq(Event) /\ q \in Seq(Event) /\ Len(p) = d /\ Len(q) = d
          /\ \A k \in 1..d : p[k] = a[k] /\ q[k] = s[k]
      BY <1>1, Parts
    <2>2. \A k \in 1..d : a[k] = s[k]
      BY <1>1
    <2> HIDE DEF p, q
    <2>q. QED BY <2>1, <2>2, SameSeq DEF p, q
  <1>3. SubSeq(a, d + 1, Len(s) + 1) = Append(SubSeq(s, d + 1, Len(s)), e)
    <2> DEFINE q == SubSeq(s, d + 1, Len(s))
               p == SubSeq(a, d + 1, Len(a))
               b == Append(q, e)
    <2>1. /\ p \in Seq(Event) /\ Len(p) = Len(a) - d
          /\ \A k \in 1..(Len(a) - d) : p[k] = a[d + k]
      BY <1>1, Parts
    <2>2. /\ q \in Seq(Event) /\ Len(q) = Len(s) - d
          /\ \A k \in 1..(Len(s) - d) : q[k] = s[d + k]
      BY <1>1, Parts
    <2> HIDE DEF p, q
    <2>3. /\ b \in Seq(Event) /\ Len(b) = Len(q) + 1
          /\ \A k \in 1..Len(q) : b[k] = q[k]
          /\ b[Len(q) + 1] = e
      BY <2>2
    <2> HIDE DEF b
    <2>4. ASSUME NEW k \in 1..Len(p) PROVE p[k] = b[k]
      <3>1. CASE k <= Len(q)
        <4>1. k \in 1..(Len(s) - d) /\ d + k \in 1..Len(s) /\ k \in 1..Len(q)
          BY <1>1, <2>1, <2>2, <3>1
        <4>q. QED BY <1>1, <2>1, <2>2, <2>3, <4>1
      <3>2. CASE k > Len(q)
        <4>1. k = Len(q) + 1 /\ d + k = Len(s) + 1
          BY <1>1, <2>1, <2>2, <3>2
        <4>q. QED BY <1>1, <2>1, <2>3, <4>1
      <3>q. QED BY <2>1, <2>2, <3>1, <3>2, <1>1
    <2>5. p = b
      <3>1. Len(p) = Len(b)
        BY <1>1, <2>1, <2>2, <2>3
      <3>q. QED BY <2>1, <2>3, <2>4, <3>1, SameSeq
    <2>q. QED BY <1>1, <2>5 DEF p, q, b
  <1>4. Last(a) = e /\ a # <<>>
    BY <1>1 DEF Last
  <1>q. QED BY <1>1, <1>2, <1>3, <1>4 DEF a

-----------------------------------------------------------------------------
(* Steps *)

LEMMA CompletionMade ==
  ASSUME NEW errc \in Errcs, NEW result \in Seq(Event), NEW entire \in BOOLEAN
  PROVE  /\ Completion(errc, result, entire) \in Completions
         /\ Completion(errc, result, entire).errc = errc
         /\ Completion(errc, result, entire).fills = result
         /\ Completion(errc, result, entire).entire = entire
  BY DEF Completion, Completions

\* What completions do to the histories
LEMMA Completes ==
  ASSUME TypeOK, NEW ends \in SUBSET Waiters, NEW c \in [ends -> Completions], Complete(c)
  PROVE  /\ posted' \in [Waiters -> Seq(Completions)] /\ handed' \in [Waiters -> Seq(Event)]
         /\ \A w \in Waiters \ ends : posted'[w] = posted[w] /\ handed'[w] = handed[w]
         /\ \A w \in ends : /\ posted'[w] = Append(posted[w], c[w])
                            /\ handed'[w] = handed[w] \o c[w].fills
  <1>1. /\ DOMAIN c = ends
        /\ posted' = [w \in Waiters |-> IF w \in ends THEN Append(posted[w], c[w]) ELSE posted[w]]
        /\ handed' = [w \in Waiters |-> IF w \in ends THEN handed[w] \o c[w].fills ELSE handed[w]]
    BY DEF Complete
  <1>2. \A w \in ends : c[w] \in Completions /\ c[w].fills \in Seq(Event)
    BY DEF Completions
  <1>3. /\ posted \in [Waiters -> Seq(Completions)] /\ handed \in [Waiters -> Seq(Event)]
    BY DEF TypeOK
  <1>4. posted' \in [Waiters -> Seq(Completions)]
    BY <1>1, <1>2, <1>3
  <1>5. handed' \in [Waiters -> Seq(Event)]
    BY <1>1, <1>2, <1>3
  <1>q. QED BY <1>1, <1>4, <1>5

\* EntireIsFilled, of one object's completions
Truthful(s, f) ==
    \A k \in DOMAIN s : s[k].entire /\ s[k].errc = "success"
        => f # <<>> /\ Last(f).rest = 0 /\ Last(s[k].fills) = Last(f)

LEMMA TruthfulAppend ==
  ASSUME NEW s \in Seq(Completions), NEW c \in Completions, NEW f, Truthful(s, f),
         c.entire /\ c.errc = "success" => f # <<>> /\ Last(f).rest = 0 /\ Last(c.fills) = Last(f)
  PROVE  Truthful(Append(s, c), f)
  <1>1. \A k \in DOMAIN Append(s, c) :
           (k \in DOMAIN s /\ Append(s, c)[k] = s[k]) \/ Append(s, c)[k] = c
    OBVIOUS
  <1>q. QED BY <1>1 DEF Truthful

LEMMA EntireOf == EntireIsFilled <=> \A w \in Waiters : Truthful(posted[w], fills)
  BY DEF EntireIsFilled, Truthful, AllFilled

\* The order has no news: objects complete with what they had not handed out, or with
\* nothing, and end or begin a wait.
LEMMA QuietKeeps ==
  ASSUME IInv, UNCHANGED fills, NEW ends \in SUBSET Waiters, NEW c \in [ends -> Completions],
         Complete(c), TypeOK',
         \A w \in ends : c[w].entire /\ c[w].errc = "success"
                           => AllFilled /\ Last(c[w].fills) = Last(fills),
         \A w \in Waiters :
            IF w \in ends /\ c[w].fills # <<>>
            THEN c[w].fills = Unread(w) /\ deals'[w] = deals[w] + Len(Unread(w))
            ELSE deals'[w] = deals[w],
         \A w \in Waiters : waits'[w].pending =>
            /\ waits'[w].buffer = Unread(w) /\ deals'[w] = deals[w]
            /\ Over' => fills = <<>>
  PROVE  IInv'
  <1>1. TypeOK /\ Split /\ EntireIsFilled /\ fills \in Seq(Event) /\ Len(fills) \in Nat
    BY DEF IInv, TypeOK
  <1>2. /\ posted' \in [Waiters -> Seq(Completions)] /\ handed' \in [Waiters -> Seq(Event)]
        /\ \A w \in Waiters \ ends : posted'[w] = posted[w] /\ handed'[w] = handed[w]
        /\ \A w \in ends : /\ posted'[w] = Append(posted[w], c[w])
                           /\ handed'[w] = handed[w] \o c[w].fills
    BY <1>1, Completes
  <1>3. Split'
    <2> SUFFICES ASSUME NEW w \in Waiters
                 PROVE  /\ deals'[w] <= Len(fills)
                        /\ handed'[w] = SubSeq(fills, 1, deals'[w])
                        /\ waits'[w].pending =>
                              waits'[w].buffer = SubSeq(fills, deals'[w] + 1, Len(fills))
      BY DEF Split, Unread
    <2>1. /\ deals[w] \in Nat /\ deals[w] <= Len(fills) /\ handed[w] \in Seq(Event)
          /\ handed[w] = SubSeq(fills, 1, deals[w])
      BY <1>1 DEF Split, TypeOK
    <2>2. waits'[w].pending => waits'[w].buffer = SubSeq(fills, deals'[w] + 1, Len(fills))
      BY DEF Unread
    <2>3. CASE w \in ends /\ c[w].fills # <<>>
      <3>1. handed'[w] = fills
        <4>1. handed'[w] = SubSeq(fills, 1, deals[w]) \o SubSeq(fills, deals[w] + 1, Len(fills))
          BY <1>2, <2>1, <2>3 DEF Unread
        <4>q. QED BY <1>1, <2>1, <4>1, Whole
      <3>2. deals'[w] = Len(fills)
        BY <1>1, <2>1, <2>3, Whole DEF Unread
      <3>q. QED BY <1>1, <2>1, <2>2, <3>1, <3>2, Whole
    <2>4. CASE ~(w \in ends /\ c[w].fills # <<>>)
      <3>1. handed'[w] = handed[w]
        <4>1. CASE w \in ends
          <5>1. handed'[w] = handed[w] \o <<>>
            BY <1>2, <2>4, <4>1
          <5>2. handed[w] \o <<>> = handed[w]
            BY <2>1
          <5>q. QED BY <5>1, <5>2
        <4>2. CASE w \notin ends
          BY <1>2, <4>2
        <4>q. QED BY <4>1, <4>2
      <3>q. QED BY <2>1, <2>2, <2>4, <3>1
    <2>q. QED BY <2>3, <2>4
  <1>4. EntireIsFilled'
    <2>1. \A w \in Waiters : Truthful(posted[w], fills) /\ posted[w] \in Seq(Completions)
      BY <1>1, EntireOf DEF TypeOK
    <2>2. \A w \in Waiters : Truthful(posted'[w], fills)
      <3> SUFFICES ASSUME NEW w \in Waiters PROVE Truthful(posted'[w], fills)
        OBVIOUS
      <3>1. CASE w \in ends
        BY <1>2, <2>1, <3>1, TruthfulAppend DEF AllFilled
      <3>2. CASE w \notin ends
        BY <1>2, <2>1, <3>2
      <3>q. QED BY <3>1, <3>2
    <2>q. QED BY <2>2 DEF EntireIsFilled, Truthful, AllFilled
  <1>5. NobodyWaitsInVain'
    BY DEF NobodyWaitsInVain
  <1>q. QED BY <1>3, <1>4, <1>5 DEF IInv

LEMMA WaitFields ==
  ASSUME TypeOK, NEW w \in Waiters
  PROVE  /\ waits[w] \in Wait /\ waits[w].pending \in BOOLEAN /\ waits[w].entire \in BOOLEAN
         /\ waits[w].buffer \in Seq(Event) /\ deals[w] \in Nat
         /\ Len(posted[w]) \in Nat
  BY DEF TypeOK, Wait

LEMMA UnreadType ==
  ASSUME TypeOK, Split, NEW w \in Waiters
  PROVE  /\ Unread(w) \in Seq(Event) /\ Len(Unread(w)) \in Nat
         /\ Unread(w) # <<>> => Last(Unread(w)) = Last(fills) /\ fills # <<>>
  <1>1. fills \in Seq(Event) /\ deals[w] \in Nat /\ deals[w] <= Len(fills)
    BY DEF TypeOK, Split
  <1>2. Unread(w) \in Seq(Event)
    BY <1>1, Parts DEF Unread
  <1>3. Unread(w) # <<>> => Last(Unread(w)) = Last(fills) /\ fills # <<>>
    BY <1>1, Whole DEF Unread
  <1>4. Len(Unread(w)) \in Nat
    BY <1>2
  <1>q. QED BY <1>2, <1>3, <1>4

LEMMA NoWaitMade == NoWait \in Wait /\ NoWait.pending = FALSE
  <1>1. <<>> \in Seq(Event)
    OBVIOUS
  <1>q. QED BY <1>1 DEF NoWait, Wait

LEMMA AcceptKeeps == IInv /\ Accept => IInv'
  BY DEF IInv, Accept, TypeOK, Split, Unread, EntireIsFilled, NobodyWaitsInVain, Over, AllFilled,
         Cancelled, completed

LEMMA OneCompletion ==
  ASSUME TypeOK, NEW w \in Waiters, NEW x \in Completions, Post(w, x)
  PROVE  /\ Complete([v \in {w} |-> x]) /\ [v \in {w} |-> x] \in [{w} -> Completions]
         /\ [v \in {w} |-> x][w] = x
         /\ posted' \in [Waiters -> Seq(Completions)] /\ handed' \in [Waiters -> Seq(Event)]
  <1> DEFINE c == [v \in {w} |-> x]
  <1>1. Complete(c) /\ c \in [{w} -> Completions] /\ c[w] = x /\ {w} \in SUBSET Waiters
    BY DEF Post
  <1> HIDE DEF c
  <1>2. posted' \in [Waiters -> Seq(Completions)] /\ handed' \in [Waiters -> Seq(Event)]
    BY <1>1, Completes
  <1>q. QED BY <1>1, <1>2 DEF c

LEMMA WaitRefusedKeeps ==
  ASSUME IInv, NEW w \in Waiters, WaitRefused(w)
  PROVE  IInv'
  <1>1. PICK entire \in BOOLEAN : Post(w, Completion("CtxClosed", <<>>, entire))
    BY DEF WaitRefused
  <1> DEFINE x == Completion("CtxClosed", <<>>, entire)
             c == [v \in {w} |-> x]
  <1>2. x \in Completions /\ x.errc = "CtxClosed" /\ x.fills = <<>>
    <2>1. <<>> \in Seq(Event) /\ "CtxClosed" \in Errcs
      BY DEF Errcs
    <2>q. QED BY <2>1, CompletionMade
  <1>3. /\ c \in [{w} -> Completions] /\ Complete(c) /\ c[w] = x
        /\ posted' \in [Waiters -> Seq(Completions)] /\ handed' \in [Waiters -> Seq(Event)]
    BY <1>1, <1>2, OneCompletion DEF IInv
  <1>4. /\ UNCHANGED <<fills, status, closed, deals, waits>> /\ TypeOK /\ Split /\ NobodyWaitsInVain
    BY DEF WaitRefused, Started, history, IInv
  <1>5. TypeOK'
    BY <1>3, <1>4 DEF TypeOK
  <1> HIDE DEF c, x
  <1>q. QED
    <2>1. \A v \in Waiters : waits'[v].pending =>
             waits'[v].buffer = Unread(v) /\ deals'[v] = deals[v] /\ (Over' => fills = <<>>)
      BY <1>4 DEF Split, NobodyWaitsInVain, Over, AllFilled, Cancelled
    <2>2. \A v \in Waiters : IF v \in {w} /\ c[v].fills # <<>>
             THEN c[v].fills = Unread(v) /\ deals'[v] = deals[v] + Len(Unread(v))
             ELSE deals'[v] = deals[v]
      BY <1>2, <1>3, <1>4
    <2>3. \A v \in {w} : c[v].errc # "success"
      BY <1>2, <1>3
    <2>q. QED BY <1>3, <1>4, <1>5, <2>1, <2>2, <2>3, QuietKeeps

LEMMA WaitServedKeeps ==
  ASSUME IInv, NEW w \in Waiters, WaitServed(w)
  PROVE  IInv'
  <1>1. PICK x \in Completions :
          /\ Post(w, x) /\ x.fills = Unread(w)
          /\ x.entire /\ x.errc = "success" => AllFilled
    <2>1. Unread(w) \in Seq(Event) /\ {"success", "OrderCanceled"} \subseteq Errcs
      BY UnreadType DEF IInv, Errcs
    <2>2. PICK entire \in BOOLEAN :
            \/ /\ ~entire \/ AllFilled
               /\ Post(w, Completion("success", Unread(w), entire))
            \/ Post(w, Completion("OrderCanceled", Unread(w), entire))
      BY DEF WaitServed
    <2>3. CASE (~entire \/ AllFilled) /\ Post(w, Completion("success", Unread(w), entire))
      BY <2>1, <2>3, CompletionMade
    <2>4. CASE Post(w, Completion("OrderCanceled", Unread(w), entire))
      BY <2>1, <2>4, CompletionMade
    <2>q. QED BY <2>2, <2>3, <2>4
  <1> DEFINE c == [v \in {w} |-> x]
  <1>2. /\ c \in [{w} -> Completions] /\ Complete(c) /\ c[w] = x
        /\ posted' \in [Waiters -> Seq(Completions)] /\ handed' \in [Waiters -> Seq(Event)]
    BY <1>1, OneCompletion DEF IInv
  <1>3. /\ UNCHANGED <<fills, status, closed, waits>> /\ ~waits[w].pending
        /\ TypeOK /\ Split /\ NobodyWaitsInVain
        /\ Unread(w) # <<>> /\ deals' = [deals EXCEPT ![w] = @ + Len(Unread(w))]
    BY DEF WaitServed, Started, history, IInv, Advanced
  <1>4. /\ Len(Unread(w)) \in Nat /\ Last(Unread(w)) = Last(fills)
        /\ deals \in [Waiters -> Nat]
    BY <1>3, UnreadType DEF TypeOK
  <1>5. deals' \in [Waiters -> Nat]
    BY <1>3, <1>4
  <1>6. TypeOK'
    BY <1>2, <1>3, <1>5 DEF TypeOK
  <1> HIDE DEF c
  <1>q. QED
    <2>1. \A v \in Waiters : waits'[v].pending =>
             waits'[v].buffer = Unread(v) /\ deals'[v] = deals[v] /\ (Over' => fills = <<>>)
      BY <1>3, <1>4 DEF Split, NobodyWaitsInVain, Over, AllFilled, Cancelled
    <2>2. \A v \in Waiters : IF v \in {w} /\ c[v].fills # <<>>
             THEN c[v].fills = Unread(v) /\ deals'[v] = deals[v] + Len(Unread(v))
             ELSE deals'[v] = deals[v]
      BY <1>1, <1>2, <1>3, <1>4
    <2>3. \A v \in {w} : c[v].entire /\ c[v].errc = "success"
             => AllFilled /\ Last(c[v].fills) = Last(fills)
      BY <1>1, <1>2, <1>4
    <2>q. QED BY <1>2, <1>3, <1>6, <2>1, <2>2, <2>3, QuietKeeps

LEMMA WaitOverKeeps ==
  ASSUME IInv, NEW w \in Waiters, WaitOver(w)
  PROVE  IInv'
  <1>1. PICK entire \in BOOLEAN :
          Post(w, Completion(IF Cancelled THEN "OrderCanceled" ELSE "OrderFilled", <<>>, entire))
    BY DEF WaitOver
  <1> DEFINE x == Completion(IF Cancelled THEN "OrderCanceled" ELSE "OrderFilled", <<>>, entire)
             c == [v \in {w} |-> x]
  <1>2. x \in Completions /\ x.errc # "success" /\ x.fills = <<>>
    <2>1. <<>> \in Seq(Event) /\ {"OrderCanceled", "OrderFilled"} \subseteq Errcs
      BY DEF Errcs
    <2>q. QED BY <2>1, CompletionMade
  <1>3. /\ c \in [{w} -> Completions] /\ Complete(c) /\ c[w] = x
        /\ posted' \in [Waiters -> Seq(Completions)] /\ handed' \in [Waiters -> Seq(Event)]
    BY <1>1, <1>2, OneCompletion DEF IInv
  <1>4. /\ UNCHANGED <<fills, status, closed, deals, waits>> /\ TypeOK /\ Split /\ NobodyWaitsInVain
    BY DEF WaitOver, Started, history, IInv
  <1>5. TypeOK'
    BY <1>3, <1>4 DEF TypeOK
  <1> HIDE DEF c, x
  <1>q. QED
    <2>1. \A v \in Waiters : waits'[v].pending =>
             waits'[v].buffer = Unread(v) /\ deals'[v] = deals[v] /\ (Over' => fills = <<>>)
      BY <1>4 DEF Split, NobodyWaitsInVain, Over, AllFilled, Cancelled
    <2>2. \A v \in Waiters : IF v \in {w} /\ c[v].fills # <<>>
             THEN c[v].fills = Unread(v) /\ deals'[v] = deals[v] + Len(Unread(v))
             ELSE deals'[v] = deals[v]
      BY <1>2, <1>3, <1>4
    <2>3. \A v \in {w} : c[v].errc # "success"
      BY <1>2, <1>3
    <2>q. QED BY <1>3, <1>4, <1>5, <2>1, <2>2, <2>3, QuietKeeps

LEMMA NoCompletion ==
  ASSUME TypeOK, UNCHANGED completed
  PROVE  \E c \in [{} -> Completions] : Complete(c)
  <1> DEFINE c == [v \in {} |-> Completion("success", <<>>, TRUE)]
  <1>1. c \in [{} -> Completions] /\ DOMAIN c = {}
    OBVIOUS
  <1>2. posted' = [w \in Waiters |-> posted[w]] /\ handed' = [w \in Waiters |-> handed[w]]
    BY DEF TypeOK, completed
  <1> HIDE DEF c
  <1>3. Complete(c)
    BY <1>1, <1>2 DEF Complete
  <1>q. QED BY <1>1, <1>3

LEMMA WaitPendingKeeps ==
  ASSUME IInv, NEW w \in Waiters, WaitPending(w)
  PROVE  IInv'
  <1>1. PICK entire \in BOOLEAN :
          /\ IF Unread(w) # <<>> THEN entire /\ ~AllFilled /\ ~Cancelled
             ELSE fills # <<>> => ~OverAlready
          /\ waits' = [waits EXCEPT ![w] = [pending |-> TRUE, entire |-> entire,
                                            buffer |-> Buffered(w)]]
    BY DEF WaitPending
  <1>2. /\ UNCHANGED <<fills, status, closed, deals>> /\ UNCHANGED completed
        /\ TypeOK /\ Split /\ NobodyWaitsInVain
    BY DEF WaitPending, Started, history, IInv
  <1>3. PICK c \in [{} -> Completions] : Complete(c)
    BY <1>2, NoCompletion
  <1>4. Buffered(w) = Unread(w) /\ Unread(w) \in Seq(Event)
    BY <1>2, UnreadType DEF Buffered
  <1>5. [pending |-> TRUE, entire |-> entire, buffer |-> Buffered(w)] \in Wait
    BY <1>4 DEF Wait
  <1>6. TypeOK'
    BY <1>1, <1>2, <1>5 DEF TypeOK, completed
  <1>7. \A v \in Waiters : waits'[v].pending =>
           waits'[v].buffer = Unread(v) /\ deals'[v] = deals[v] /\ (Over' => fills = <<>>)
    <2> SUFFICES ASSUME NEW v \in Waiters, waits'[v].pending
                 PROVE  waits'[v].buffer = Unread(v) /\ (Over => fills = <<>>)
      BY <1>2 DEF Over, AllFilled, Cancelled
    <2>1. CASE v = w
      <3>1. waits'[v].buffer = Unread(v)
        BY <1>1, <1>2, <1>4, <2>1 DEF TypeOK
      <3>2. Over => fills = <<>>
        BY <1>1 DEF Over, OverAlready
      <3>q. QED BY <3>1, <3>2
    <2>2. CASE v # w
      <3>1. waits'[v] = waits[v]
        BY <1>1, <1>2, <2>2 DEF TypeOK
      <3>q. QED BY <1>2, <3>1 DEF Split, NobodyWaitsInVain
    <2>q. QED BY <2>1, <2>2
  <1>q. QED BY <1>2, <1>3, <1>6, <1>7, QuietKeeps

LEMMA DroppedKeeps ==
  ASSUME IInv, NEW w \in Waiters, Dropped(w)
  PROVE  IInv'
  <1>1. PICK errc \in {"MakeDealTimeout", "OperationAborted"} :
          Post(w, Completion(errc, <<>>, waits[w].entire))
    BY DEF Dropped
  <1> DEFINE x == Completion(errc, <<>>, waits[w].entire)
             c == [v \in {w} |-> x]
  <1>2. x \in Completions /\ x.errc # "success" /\ x.fills = <<>>
    <2>1. <<>> \in Seq(Event) /\ errc \in Errcs /\ waits[w].entire \in BOOLEAN
      BY WaitFields DEF Errcs, IInv
    <2>q. QED BY <2>1, CompletionMade
  <1>3. /\ c \in [{w} -> Completions] /\ Complete(c) /\ c[w] = x
        /\ posted' \in [Waiters -> Seq(Completions)] /\ handed' \in [Waiters -> Seq(Event)]
    BY <1>1, <1>2, OneCompletion DEF IInv
  <1>4. /\ UNCHANGED <<fills, status, closed, deals>> /\ waits' = [waits EXCEPT ![w] = NoWait]
        /\ TypeOK /\ Split /\ NobodyWaitsInVain
    BY DEF Dropped, history, IInv
  <1>5. TypeOK'
    BY <1>3, <1>4, NoWaitMade DEF TypeOK
  <1> HIDE DEF c, x
  <1>6. \A v \in Waiters : waits'[v].pending =>
           waits'[v].buffer = Unread(v) /\ deals'[v] = deals[v] /\ (Over' => fills = <<>>)
    <2> SUFFICES ASSUME NEW v \in Waiters, waits'[v].pending
                 PROVE  waits'[v].buffer = Unread(v) /\ (Over => fills = <<>>)
      BY <1>4 DEF Over, AllFilled, Cancelled
    <2>1. v # w /\ waits'[v] = waits[v]
      BY <1>4, NoWaitMade DEF TypeOK
    <2>q. QED BY <1>4, <2>1 DEF Split, NobodyWaitsInVain
  <1>7. \A v \in Waiters : IF v \in {w} /\ c[v].fills # <<>>
           THEN c[v].fills = Unread(v) /\ deals'[v] = deals[v] + Len(Unread(v))
           ELSE deals'[v] = deals[v]
    BY <1>2, <1>3, <1>4
  <1>8. \A v \in {w} : c[v].errc # "success"
    BY <1>2, <1>3
  <1>q. QED BY <1>3, <1>4, <1>5, <1>6, <1>7, <1>8, QuietKeeps

\* All waits end at once.
LEMMA AllEnd ==
  ASSUME IInv, UNCHANGED fills, status' \in {"None", "Add", "Fill", "Cancel"}, closed' \in BOOLEAN,
         NEW c \in [Pending -> Completions], Complete(c), waits' = [w \in Waiters |-> NoWait],
         deals' \in [Waiters -> Nat],
         \A w \in Pending : c[w].errc # "success",
         \A w \in Waiters :
            IF w \in Pending /\ c[w].fills # <<>>
            THEN c[w].fills = Unread(w) /\ deals'[w] = deals[w] + Len(Unread(w))
            ELSE deals'[w] = deals[w]
  PROVE  IInv'
  <1>1. Pending \in SUBSET Waiters /\ TypeOK
    BY DEF Pending, IInv
  <1>2. posted' \in [Waiters -> Seq(Completions)] /\ handed' \in [Waiters -> Seq(Event)]
    BY <1>1, Completes
  <1>3. TypeOK'
    BY <1>1, <1>2, NoWaitMade DEF TypeOK
  <1>4. \A w \in Waiters : ~waits'[w].pending
    BY NoWaitMade
  <1>q. QED BY <1>1, <1>3, <1>4, QuietKeeps

LEMMA CloseKeeps == IInv /\ Close => IInv'
  <1> SUFFICES ASSUME IInv, Close PROVE IInv'
    OBVIOUS
  <1> DEFINE c == [w \in Pending |-> Completion("CtxClosed", <<>>, waits[w].entire)]
  <1>1. \A w \in Pending : /\ c[w] \in Completions /\ c[w].errc # "success" /\ c[w].fills = <<>>
    <2>1. <<>> \in Seq(Event) /\ "CtxClosed" \in Errcs
      BY DEF Errcs
    <2>2. \A w \in Pending : waits[w].entire \in BOOLEAN
      BY WaitFields DEF Pending, IInv
    <2>q. QED BY <2>1, <2>2, CompletionMade
  <1>2. c \in [Pending -> Completions]
    BY <1>1
  <1>3. Complete(c) /\ UNCHANGED <<fills, status, deals>> /\ closed' = TRUE
    BY DEF Close, history
  <1>4. TypeOK /\ waits' = [w \in Waiters |-> NoWait]
    BY DEF IInv, Close
  <1> HIDE DEF c
  <1>q. QED BY <1>1, <1>2, <1>3, <1>4, AllEnd DEF TypeOK

LEMMA CancelKeeps == IInv /\ Cancel => IInv'
  <1> SUFFICES ASSUME IInv, Cancel PROVE IInv'
    OBVIOUS
  <1> DEFINE c == [w \in Pending |-> Completion("OrderCanceled", waits[w].buffer, waits[w].entire)]
  <1>0. TypeOK /\ Split /\ \A w \in Pending : w \in Waiters /\ waits[w].pending
    BY DEF IInv, Pending
  <1>1. \A w \in Pending : /\ c[w] \in Completions /\ c[w].errc # "success"
                           /\ c[w].fills = waits[w].buffer
    <2>1. "OrderCanceled" \in Errcs
      BY DEF Errcs
    <2>2. \A w \in Pending : waits[w].entire \in BOOLEAN /\ waits[w].buffer \in Seq(Event)
      BY <1>0, WaitFields
    <2>q. QED BY <2>1, <2>2, CompletionMade
  <1>2. c \in [Pending -> Completions]
    BY <1>1
  <1>3. /\ Complete(c) /\ UNCHANGED <<fills, closed>> /\ status' = "Cancel"
        /\ waits' = [w \in Waiters |-> NoWait]
        /\ deals' = [w \in Waiters |-> IF w \in Pending THEN deals[w] + Len(waits[w].buffer)
                                       ELSE deals[w]]
    BY DEF Cancel, Advanced
  <1>4. \A w \in Pending : waits[w].buffer = Unread(w)
    BY <1>0 DEF Split
  <1>5. \A w \in Waiters : deals[w] \in Nat /\ Len(Unread(w)) \in Nat
    BY <1>0, UnreadType, WaitFields
  <1>6. deals' \in [Waiters -> Nat]
    BY <1>3, <1>4, <1>5
  <1>7. \A w \in Waiters :
            IF w \in Pending /\ c[w].fills # <<>>
            THEN c[w].fills = Unread(w) /\ deals'[w] = deals[w] + Len(Unread(w))
            ELSE deals'[w] = deals[w]
    <2> SUFFICES ASSUME NEW w \in Waiters
                 PROVE  IF w \in Pending /\ c[w].fills # <<>>
                        THEN c[w].fills = Unread(w) /\ deals'[w] = deals[w] + Len(Unread(w))
                        ELSE deals'[w] = deals[w]
      OBVIOUS
    <2>1. CASE w \notin Pending
      BY <1>3, <2>1
    <2>2. CASE w \in Pending
      <3>1. c[w].fills = Unread(w) /\ deals'[w] = deals[w] + Len(Unread(w))
        BY <1>1, <1>3, <1>4, <2>2
      <3>2. Unread(w) = <<>> => Len(Unread(w)) = 0
        OBVIOUS
      <3>3. Unread(w) = <<>> => deals'[w] = deals[w]
        BY <1>5, <3>1, <3>2
      <3>q. QED BY <2>2, <3>1, <3>3
    <2>q. QED BY <2>1, <2>2
  <1> HIDE DEF c
  <1>q. QED BY <1>0, <1>1, <1>2, <1>3, <1>6, <1>7, AllEnd DEF TypeOK

LEMMA FillKeeps == IInv /\ Fill => IInv'
  <1> SUFFICES ASSUME IInv, Fill PROVE IInv'
    OBVIOUS
  <1>1. /\ TypeOK /\ Split /\ EntireIsFilled
        /\ fills \in Seq(Event) /\ Len(fills) \in Nat
        /\ ~Over /\ status' = "Fill" /\ closed' = closed
    BY DEF IInv, TypeOK, Fill
  <1>2. PICK r \in 0..(Left - 1) :
         LET e == [rest |-> r]
             ends == {w \in Pending : Ends(waits[w], e)}
         IN  /\ fills' = Append(fills, e)
             /\ Complete([w \in ends |-> Completion("success", Filling(waits[w], e), waits[w].entire)])
             /\ deals' = [w \in Waiters |->
                            IF w \in ends THEN Advanced(deals[w], Filling(waits[w], e)) ELSE deals[w]]
             /\ waits' = [w \in Waiters |->
                            IF w \in ends THEN NoWait
                            ELSE IF w \in Pending
                            THEN [waits[w] EXCEPT !.buffer = Filling(waits[w], e)]
                            ELSE waits[w]]
    BY DEF Fill
  <1> DEFINE e == [rest |-> r]
             ends == {w \in Pending : Ends(waits[w], e)}
             c == [w \in ends |-> Completion("success", Filling(waits[w], e), waits[w].entire)]
  <1>3. e \in Event /\ e.rest = r
    <2>1. Left \in 0..MaxVolume
      <3>1. CASE fills = <<>>
        BY <3>1, VolumeAssumption DEF Left
      <3>2. CASE fills # <<>>
        <4>1. Last(fills) \in Event
          BY <1>1, <3>2 DEF Last
        <4>q. QED BY <3>2, <4>1 DEF Left, Event
      <3>q. QED BY <3>1, <3>2
    <2>q. QED BY <2>1, VolumeAssumption DEF Event
  <1>4. /\ ends \in SUBSET Waiters
        /\ \A w \in Pending : w \in Waiters /\ waits[w].pending
        /\ \A w \in Waiters : waits[w].pending => w \in Pending
    BY DEF Pending
  <1>5. \A w \in Waiters : w \in Pending \ ends => waits[w].entire /\ r # 0
    BY <1>3 DEF Ends
  <1>6. \A w \in Waiters : /\ deals[w] \in Nat /\ deals[w] <= Len(fills)
                           /\ handed[w] = SubSeq(fills, 1, deals[w])
                           /\ waits[w].buffer \in Seq(Event) /\ waits[w].entire \in BOOLEAN
                           /\ waits[w] \in Wait
    BY <1>1, WaitFields DEF Split
  <1>7. \A w \in Pending : waits[w].buffer = SubSeq(fills, deals[w] + 1, Len(fills))
    BY <1>1, <1>4 DEF Split, Unread
  <1>8. \A w \in Pending : /\ Filling(waits[w], e) \in Seq(Event)
                           /\ Filling(waits[w], e) = Append(waits[w].buffer, e)
                           /\ Last(Filling(waits[w], e)) = e
                           /\ Len(Filling(waits[w], e)) = Len(fills) - deals[w] + 1
    <2> SUFFICES ASSUME NEW w \in Pending
                 PROVE  /\ Append(waits[w].buffer, e) \in Seq(Event)
                        /\ Last(Append(waits[w].buffer, e)) = e
                        /\ Len(Append(waits[w].buffer, e)) = Len(fills) - deals[w] + 1
      BY DEF Filling
    <2>1. waits[w].buffer \in Seq(Event) /\ Len(waits[w].buffer) = Len(fills) - deals[w]
      <3>1. /\ deals[w] \in Nat /\ deals[w] <= Len(fills)
            /\ waits[w].buffer = SubSeq(fills, deals[w] + 1, Len(fills))
        BY <1>4, <1>6, <1>7
      <3>q. QED BY <1>1, <3>1, Parts
    <2>2. 0 <= Len(waits[w].buffer)
      BY <2>1
    <2>3. /\ Append(waits[w].buffer, e) \in Seq(Event)
          /\ Last(Append(waits[w].buffer, e)) = e
          /\ Len(Append(waits[w].buffer, e)) = Len(waits[w].buffer) + 1
      BY <1>3, <2>1, <2>2, Longer
    <2>q. QED BY <2>1, <2>3
  <1>9. \A w \in ends : /\ c[w] \in Completions /\ c[w].fills = Filling(waits[w], e)
                        /\ c[w].entire = waits[w].entire
    <2>1. "success" \in Errcs
      BY DEF Errcs
    <2>q. QED BY <1>4, <1>6, <1>8, <2>1, CompletionMade
  <1>10. c \in [ends -> Completions]
    BY <1>9
  <1>11. /\ fills' = Append(fills, e) /\ Complete(c)
         /\ \A w \in Waiters : deals'[w] = IF w \in ends THEN deals[w] + Len(Filling(waits[w], e))
                                           ELSE deals[w]
         /\ \A w \in Waiters : waits'[w] =
               IF w \in ends THEN NoWait
               ELSE IF w \in Pending THEN [waits[w] EXCEPT !.buffer = Filling(waits[w], e)]
               ELSE waits[w]
    BY <1>2 DEF Advanced
  <1>12. deals' \in [Waiters -> Nat] /\ waits' \in [Waiters -> Wait]
    <2>1. \A w \in Waiters : deals'[w] \in Nat
      BY <1>1, <1>4, <1>6, <1>8, <1>11
    <2>2. ASSUME NEW w \in Waiters PROVE waits'[w] \in Wait
      <3>1. CASE w \in Pending \ ends
        <4>1. waits'[w] = [waits[w] EXCEPT !.buffer = Filling(waits[w], e)]
          BY <1>11, <3>1
        <4> HIDE DEF e
        <4>q. QED BY <1>6, <1>8, <3>1, <4>1 DEF Wait
      <3>2. CASE w \notin Pending \ ends
        BY <1>4, <1>6, <1>11, <3>2, NoWaitMade
      <3>q. QED BY <3>1, <3>2
    <2>3. /\ deals' = [w \in Waiters |-> deals'[w]]
          /\ waits' = [w \in Waiters |-> waits'[w]]
      BY <1>2
    <2>q. QED BY <2>1, <2>2, <2>3
  <1>13. /\ posted' \in [Waiters -> Seq(Completions)] /\ handed' \in [Waiters -> Seq(Event)]
         /\ \A w \in Waiters \ ends : posted'[w] = posted[w] /\ handed'[w] = handed[w]
         /\ \A w \in ends : /\ posted'[w] = Append(posted[w], c[w])
                            /\ handed'[w] = handed[w] \o c[w].fills
    <2> HIDE DEF c, ends
    <2>q. QED BY <1>1, <1>4, <1>10, <1>11, Completes
  <1>14. /\ fills' \in Seq(Event) /\ Len(fills') = Len(fills) + 1 /\ Last(fills') = e
         /\ fills' # <<>>
         /\ \A d \in Nat : d <= Len(fills) =>
               /\ SubSeq(fills', 1, d) = SubSeq(fills, 1, d)
               /\ SubSeq(fills', d + 1, Len(fills')) =
                     Append(SubSeq(fills, d + 1, Len(fills)), e)
    <2> HIDE DEF e, c
    <2>1. /\ Append(fills, e) \in Seq(Event) /\ Len(Append(fills, e)) = Len(fills) + 1
          /\ Last(Append(fills, e)) = e /\ Append(fills, e) # <<>>
      <3>1. 0 \in Nat /\ 0 <= Len(fills)
        BY <1>1
      <3>q. QED BY <1>1, <1>3, <3>1, Longer
    <2>2. \A d \in Nat : d <= Len(fills) =>
             /\ SubSeq(Append(fills, e), 1, d) = SubSeq(fills, 1, d)
             /\ SubSeq(Append(fills, e), d + 1, Len(fills) + 1) =
                  Append(SubSeq(fills, d + 1, Len(fills)), e)
      BY <1>1, <1>3, Longer
    <2>q. QED BY <1>11, <2>1, <2>2
  <1>15. TypeOK'
    BY <1>1, <1>12, <1>13, <1>14 DEF TypeOK
  <1> HIDE DEF c, e
  <1>16. Split'
    <2> SUFFICES ASSUME NEW w \in Waiters
                 PROVE  /\ deals'[w] <= Len(fills')
                        /\ handed'[w] = SubSeq(fills', 1, deals'[w])
                        /\ waits'[w].pending =>
                              waits'[w].buffer = SubSeq(fills', deals'[w] + 1, Len(fills'))
      BY DEF Split, Unread
    <2>0. SubSeq(fills', 1, deals[w]) = SubSeq(fills, 1, deals[w])
      BY <1>6, <1>14
    <2>1. CASE w \in ends
      <3>0. w \in Pending
        BY <2>1
      <3>1. deals'[w] = Len(fills')
        <4>1. Len(Filling(waits[w], e)) = Len(fills) - deals[w] + 1 /\ deals[w] \in Nat
          BY <1>6, <1>8, <3>0
        <4>2. deals'[w] = deals[w] + Len(Filling(waits[w], e))
          BY <1>11, <2>1
        <4>q. QED BY <1>1, <1>14, <4>1, <4>2
      <3>2. handed'[w] = SubSeq(fills', 1, deals[w]) \o SubSeq(fills', deals[w] + 1, Len(fills'))
        <4>1. c[w].fills = Append(SubSeq(fills, deals[w] + 1, Len(fills)), e)
          BY <1>7, <1>8, <1>9, <2>1, <3>0
        <4>2. c[w].fills = SubSeq(fills', deals[w] + 1, Len(fills'))
          BY <1>6, <1>14, <4>1
        <4>q. QED BY <1>6, <1>13, <2>0, <2>1, <4>2
      <3>3. deals[w] \in Nat /\ deals[w] <= Len(fills')
        BY <1>1, <1>6, <1>14
      <3>4. handed'[w] = SubSeq(fills', 1, deals'[w])
        BY <1>14, <3>1, <3>2, <3>3, Whole
      <3>5. ~waits'[w].pending
        BY <1>11, <2>1, NoWaitMade
      <3>q. QED BY <1>1, <1>14, <3>1, <3>4, <3>5
    <2>2. CASE w \notin ends
      <3>1. deals'[w] = deals[w] /\ handed'[w] = handed[w]
        BY <1>11, <1>13, <2>2
      <3>2. deals'[w] <= Len(fills')
        BY <1>1, <1>6, <1>14, <3>1
      <3>3. ASSUME waits'[w].pending
            PROVE  waits'[w].buffer = SubSeq(fills', deals'[w] + 1, Len(fills'))
        <4>1. CASE w \in Pending
          <5>1. waits'[w] = [waits[w] EXCEPT !.buffer = Filling(waits[w], e)]
            BY <1>11, <2>2, <4>1
          <5>2. waits'[w].buffer = Filling(waits[w], e)
            BY <1>6, <5>1 DEF Wait
          <5>q. QED BY <1>6, <1>7, <1>8, <1>14, <3>1, <4>1, <5>2
        <4>2. CASE w \notin Pending
          BY <1>4, <1>11, <2>2, <3>3, <4>2
        <4>q. QED BY <4>1, <4>2
      <3>q. QED BY <1>6, <2>0, <3>1, <3>2, <3>3
    <2>q. QED BY <2>1, <2>2
  <1>17. EntireIsFilled'
    <2>1. \A w \in Waiters : /\ posted[w] \in Seq(Completions)
                             /\ \A k \in DOMAIN posted[w] :
                                   ~(posted[w][k].entire /\ posted[w][k].errc = "success")
      BY <1>1 DEF EntireIsFilled, Over, TypeOK
    <2>2. \A w \in Waiters : Truthful(posted[w], fills')
      BY <2>1 DEF Truthful
    <2>3. ASSUME NEW w \in Waiters PROVE Truthful(posted'[w], fills')
      <3>1. CASE w \in ends
        <4>0. w \in Pending
          BY <3>1
        <4>1. c[w].entire => Last(fills').rest = 0
          BY <1>3, <1>9, <1>14, <3>1 DEF Ends
        <4>2. Last(c[w].fills) = Last(fills')
          BY <1>8, <1>9, <1>14, <3>1, <4>0
        <4>q. QED BY <1>9, <1>13, <1>14, <2>1, <2>2, <3>1, <4>1, <4>2, TruthfulAppend
      <3>2. CASE w \notin ends
        BY <1>13, <2>2, <3>2
      <3>q. QED BY <3>1, <3>2
    <2>q. QED BY <2>3 DEF EntireIsFilled, Truthful, AllFilled
  <1>18. NobodyWaitsInVain'
    <2> SUFFICES ASSUME NEW w \in Waiters, waits'[w].pending PROVE ~Over'
      BY DEF NobodyWaitsInVain
    <2>1. w \in Pending \ ends
      BY <1>4, <1>11, NoWaitMade
    <2>2. r # 0
      BY <1>5, <2>1
    <2>q. QED BY <1>1, <1>3, <1>14, <2>2 DEF Over, AllFilled, Cancelled
  <1>q. QED BY <1>15, <1>16, <1>17, <1>18 DEF IInv

-----------------------------------------------------------------------------
(* The theorems *)

LEMMA Initially == Init => IInv
  <1> SUFFICES ASSUME Init PROVE IInv
    OBVIOUS
  <1>1. TypeOK
    <2>1. <<>> \in Seq(Event) /\ <<>> \in Seq(Completions) /\ 0 \in Nat
      OBVIOUS
    <2>q. QED BY <2>1, NoWaitMade DEF Init, TypeOK
  <1>2. Split
    <2>1. SubSeq(<<>>, 1, 0) = <<>> /\ Len(<<>>) = 0
      OBVIOUS
    <2>q. QED BY <2>1, NoWaitMade DEF Init, Split
  <1>3. EntireIsFilled /\ NobodyWaitsInVain
    BY NoWaitMade DEF Init, EntireIsFilled, NobodyWaitsInVain
  <1>q. QED BY <1>1, <1>2, <1>3 DEF IInv

LEMMA Stepwise == IInv /\ [Next]_vars => IInv'
  <1> SUFFICES ASSUME IInv, [Next]_vars PROVE IInv'
    OBVIOUS
  <1>1. CASE UNCHANGED vars
    BY <1>1 DEF vars, history, completed, IInv, TypeOK, Split, Unread, EntireIsFilled,
                NobodyWaitsInVain, Over, AllFilled, Cancelled
  <1>2. CASE Accept \/ Fill \/ Cancel \/ Close
    BY <1>2, AcceptKeeps, FillKeeps, CancelKeeps, CloseKeeps
  <1>3. ASSUME NEW w \in Waiters,
               WaitRefused(w) \/ WaitServed(w) \/ WaitOver(w) \/ WaitPending(w) \/ Dropped(w)
        PROVE  IInv'
    BY <1>3, WaitRefusedKeeps, WaitServedKeeps, WaitOverKeeps, WaitPendingKeeps, DroppedKeeps
  <1>q. QED BY <1>1, <1>2, <1>3 DEF Next

\* In every reachable state what an object handed out and what its wait buffers are
\* together the fills of the order.
THEOREM InvariantCorrect == Spec => []IInv
  BY Initially, Stepwise, PTL DEF Spec

\* Whatever waits time out, are aborted or end by a cancellation or a closing context
\* (async_wait, async_wait_deal), an object hands out each fill once and in order, and
\* a wait for the entire order succeeds only when it is filled.
THEOREM FillsCorrect == Spec => []FillsInv
  <1>1. IInv => FillsInv
    BY DEF IInv, Split, FillsInv, FillsOnceInOrder
  <1>q. QED BY <1>1, InvariantCorrect, PTL

\* A wait that is pending can still be ended by the order, unless it was begun after a
\* cancellation without fills (the else-branches of async_wait_deal).
THEOREM WaitsCorrect == Spec => []NobodyWaitsInVain
  <1>1. IInv => NobodyWaitsInVain
    BY DEF IInv
  <1>q. QED BY <1>1, InvariantCorrect, PTL

-----------------------------------------------------------------------------
(* Numbers and loops *)

\* A non-empty set of natural numbers has a least element: the induction of
\* this module.
LEMMA LeastOne ==
  ASSUME NEW S \in SUBSET Nat, S # {}
  PROVE  \E m \in S : \A k \in S : m <= k
<1>1. IsWellFoundedOn(OpToRel(<, Nat), Nat)
  BY NatLessThanWellFounded, Zenon
<1>2. PICK m \in S : \A k \in S : ~ (<<k, m>> \in OpToRel(<, Nat))
  BY <1>1, WFMin, Zenon
<1>3. ASSUME NEW k \in S PROVE m <= k
  <2>1. k < m => <<k, m>> \in OpToRel(<, Nat)
    BY Zenon DEF OpToRel
  <2>2. ~(k < m)
    BY <1>2, <2>1, Zenon
  <2> QED BY <2>2
<1> QED BY <1>3

\* What holds of 0 and is passed on from k - 1 to k holds up to n.
LEMMA Steps ==
  ASSUME NEW n \in Nat, NEW S, 0 \in S, \A k \in 1..n : k - 1 \in S => k \in S
  PROVE  \A k \in 0..n : k \in S
<1> DEFINE T == (0..n) \ S
<1>1. T \in SUBSET Nat
  OBVIOUS
<1>2. ASSUME T # {} PROVE FALSE
  <2>1. PICK m \in T : \A k \in T : m <= k
    <3> HIDE DEF T
    <3> QED BY <1>1, <1>2, LeastOne
  <2>2. m # 0 /\ m \in 1..n /\ m \notin S
    BY <2>1
  <2>3. m - 1 \in S
    BY <2>1, <2>2
  <2> QED BY <2>2, <2>3
<1> QED BY <1>2

\* Round k of a loop is the function G[k], which stays within X; h gives the
\* loop's state after each of n rounds.
StaysIn(X, n, G) == \A k \in 1..n : \A x \in X : G[k][x] \in X
LoopOf(h, X, b, n, G) ==
    h \in [0..n -> X] /\ h[0] = b /\ \A k \in 1..n : h[k] = G[k][h[k - 1]]

LEMMA LoopExists ==
  ASSUME NEW X, NEW b, b \in X, NEW n, n \in Nat, NEW G, StaysIn(X, n, G)
  PROVE  \E h : LoopOf(h, X, b, n, G)
<1> DEFINE Runs(h, m) == h \in [0..m -> X] /\ h[0] = b /\ \A k \in 1..m : h[k] = G[k][h[k - 1]]
           S == {k \in 0..n : \E h : Runs(h, k)}
<1>1. 0 \in S
  <2>1. Runs([k \in 0..0 |-> b], 0)
    OBVIOUS
  <2> HIDE DEF Runs
  <2> QED BY <2>1
<1>2. ASSUME NEW m \in 1..n, m - 1 \in S PROVE m \in S
  <2>1. PICK g : Runs(g, m - 1)
    BY <1>2
  <2> DEFINE h == [k \in 0..m |-> IF k = m THEN G[m][g[m - 1]] ELSE g[k]]
  <2>2. h \in [0..m -> X]
    BY <2>1 DEF StaysIn
  <2>3. h[0] = b
    BY <2>1
  <2>4. ASSUME NEW k \in 1..m PROVE h[k] = G[k][h[k - 1]]
    <3>1. CASE k = m
      BY <3>1
    <3>2. CASE k # m
      <4>1. k \in 1..(m - 1) /\ k - 1 \in 0..(m - 1) /\ k - 1 # m
        BY <3>2
      <4> QED BY <2>1, <3>2, <4>1
    <3> QED BY <3>1, <3>2
  <2>5. Runs(h, m)
    <3> HIDE DEF h
    <3> QED BY <2>2, <2>3, <2>4
  <2> HIDE DEF Runs
  <2> QED BY <2>5
<1>3. n \in S
  <2> HIDE DEF S
  <2> QED BY <1>1, <1>2, Steps
<1> QED BY <1>3 DEF LoopOf

\* Loops that begin alike and go on alike agree.
Alike(n, g, h) == g[0] = h[0] /\ \A k \in 1..n : g[k - 1] = h[k - 1] => g[k] = h[k]
Agree(n, g, h) == \A k \in 0..n : g[k] = h[k]

LEMMA LoopsAgree ==
  ASSUME NEW n \in Nat, NEW g, NEW h, Alike(n, g, h)
  PROVE  Agree(n, g, h)
<1> DEFINE S == {k \in 0..n : g[k] = h[k]}
<1>1. 0 \in S /\ \A k \in 1..n : k - 1 \in S => k \in S
  BY DEF Alike
<1>2. \A k \in 0..n : k \in S
  <2> HIDE DEF S
  <2> QED BY <1>1, Steps
<1> QED BY <1>2 DEF Agree

LEMMA MinOfTwo ==
  ASSUME NEW a \in Int, NEW b \in Int
  PROVE  Min({a, b}) = IF a <= b THEN a ELSE b
<1>1. \E x \in {a, b} : \A y \in {a, b} : x =< y
  OBVIOUS
<1>2. Min({a, b}) \in {a, b} /\ \A y \in {a, b} : Min({a, b}) =< y
  BY <1>1 DEF Min
<1> QED BY <1>2

-----------------------------------------------------------------------------
(* Sums *)

\* The sum of n integers, term by term
LEMMA TotalIs ==
  ASSUME NEW n \in Nat, NEW f, \A k \in 1..n : f[k] \in Int
  PROVE  \E g \in [0..n -> Int] : /\ g[0] = 0 /\ \A k \in 1..n : g[k] = g[k - 1] + f[k]
                                  /\ Total(f, n) = g[n]
<1> DEFINE Sums(g) == g = [k \in 0..n |-> IF k = 0 THEN 0 ELSE g[k - 1] + f[k]]
           G == [k \in 1..n |-> [x \in Int |-> x + f[k]]]
<1>1. \A k \in 1..n : \A x \in Int : G[k][x] \in Int /\ G[k][x] = x + f[k]
  OBVIOUS
<1> HIDE DEF G
<1>2. PICK h \in [0..n -> Int] : h[0] = 0 /\ \A k \in 1..n : h[k] = G[k][h[k - 1]]
  <2>1. StaysIn(Int, n, G)
    BY <1>1 DEF StaysIn
  <2>2. \E h : LoopOf(h, Int, 0, n, G)
    BY <2>1, LoopExists, 0 \in Int
  <2> QED BY <2>2 DEF LoopOf
<1>3. Sums(h)
  <2>1. ASSUME NEW k \in 0..n PROVE h[k] = IF k = 0 THEN 0 ELSE h[k - 1] + f[k]
    <3>1. CASE k = 0
      BY <1>2, <3>1
    <3>2. CASE k # 0
      <4>1. k \in 1..n /\ h[k - 1] \in Int
        BY <1>2, <3>2
      <4> QED BY <1>1, <1>2, <3>2, <4>1
    <3> QED BY <3>1, <3>2
  <2>2. h = [k \in 0..n |-> h[k]]
    BY <1>2
  <2> QED BY <2>1, <2>2
<1> DEFINE g == CHOOSE g : Sums(g)
<1>4. Sums(g) /\ Total(f, n) = g[n]
  <2>1. Sums(g)
    <3> HIDE DEF Sums
    <3> QED BY <1>3
  <2> QED BY <2>1, Zenon DEF Total
<1> HIDE DEF g
<1>5. g[0] = 0 /\ \A k \in 1..n : g[k] = g[k - 1] + f[k]
  <2>1. 0 \in 0..n /\ \A k \in 1..n : k \in 0..n /\ k # 0
    OBVIOUS
  <2> QED BY <1>4, <2>1
<1>6. \A k \in 0..n : g[k] = h[k]
  <2>1. \A k \in 1..n : g[k - 1] = h[k - 1] => g[k] = h[k]
    <3>1. \A k \in 1..n : h[k - 1] \in Int
      BY <1>2
    <3> QED BY <1>1, <1>2, <1>5, <3>1
  <2>2. Alike(n, g, h)
    BY <1>2, <1>5, <2>1 DEF Alike
  <2>3. Agree(n, g, h)
    BY <2>2, LoopsAgree
  <2> QED BY <2>3 DEF Agree
<1>7. n \in 0..n
  OBVIOUS
<1>8. \A k \in 1..n : h[k] = h[k - 1] + f[k]
  <2>1. \A k \in 1..n : h[k - 1] \in Int
    BY <1>2
  <2> QED BY <1>1, <1>2, <2>1
<1> QED BY <1>2, <1>4, <1>6, <1>7, <1>8

LEMMA TotalZero ==
  ASSUME NEW f
  PROVE  Total(f, 0) = 0
<1>1. \A k \in 1..0 : f[k] \in Int
  OBVIOUS
<1> QED BY <1>1, TotalIs

LEMMA TotalNext ==
  ASSUME NEW n \in Nat, NEW f, NEW h, \A k \in 1..(n + 1) : f[k] \in Int,
         \A k \in 1..n : f[k] = h[k]
  PROVE  /\ Total(f, n + 1) = Total(h, n) + f[n + 1]
         /\ Total(f, n + 1) \in Int /\ Total(h, n) \in Int
<1>1. PICK g \in [0..(n + 1) -> Int] : /\ g[0] = 0 /\ \A k \in 1..(n + 1) : g[k] = g[k - 1] + f[k]
                                       /\ Total(f, n + 1) = g[n + 1]
  <2>1. n + 1 \in Nat
    OBVIOUS
  <2> QED BY <2>1, TotalIs
<1>2. PICK g2 \in [0..n -> Int] : /\ g2[0] = 0 /\ \A k \in 1..n : g2[k] = g2[k - 1] + h[k]
                                  /\ Total(h, n) = g2[n]
  <2>1. \A k \in 1..n : h[k] \in Int
    OBVIOUS
  <2> QED BY <2>1, TotalIs
<1>3. \A k \in 0..n : g[k] = g2[k]
  <2>1. \A k \in 1..n : g[k - 1] = g2[k - 1] => g[k] = g2[k]
    BY <1>1, <1>2
  <2>2. Alike(n, g, g2)
    BY <1>1, <1>2, <2>1 DEF Alike
  <2>3. Agree(n, g, g2)
    BY <2>2, LoopsAgree
  <2> QED BY <2>3 DEF Agree
<1>4. g[n + 1] = g[n] + f[n + 1] /\ g[n] = g2[n] /\ g[n + 1] \in Int /\ g2[n] \in Int
  <2>1. n + 1 \in 1..(n + 1) /\ (n + 1) - 1 = n /\ n \in 0..n
    OBVIOUS
  <2> QED BY <1>1, <1>2, <1>3, <2>1
<1> QED BY <1>1, <1>2, <1>4

LEMMA TotalSame ==
  ASSUME NEW n \in Nat, NEW f, NEW h, \A k \in 1..n : f[k] = h[k], \A k \in 1..n : h[k] \in Int
  PROVE  Total(f, n) = Total(h, n) /\ Total(h, n) \in Int
<1>1. CASE n = 0
  BY <1>1, TotalZero
<1>2. CASE n # 0
  <2>1. n - 1 \in Nat /\ (n - 1) + 1 = n /\ n \in 1..n
    BY <1>2
  <2>2. /\ \A k \in 1..((n - 1) + 1) : f[k] \in Int /\ h[k] \in Int
        /\ \A k \in 1..(n - 1) : f[k] = f[k] /\ h[k] = f[k]
    OBVIOUS
  <2>3. /\ Total(f, n) = Total(f, n - 1) + f[n]
        /\ Total(h, n) = Total(f, n - 1) + h[n]
        /\ Total(h, n) \in Int
    <3>1. Total(f, (n - 1) + 1) = Total(f, n - 1) + f[(n - 1) + 1]
      BY <2>1, <2>2, TotalNext
    <3>2. /\ Total(h, (n - 1) + 1) = Total(f, n - 1) + h[(n - 1) + 1]
          /\ Total(h, (n - 1) + 1) \in Int
      BY <2>1, <2>2, TotalNext
    <3> QED BY <2>1, <3>1, <3>2
  <2> QED BY <2>1, <2>3
<1> QED BY <1>1, <1>2

-----------------------------------------------------------------------------
(* Units: one price for each unit traded *)

Dirs == {"Bid", "Ask"}

\* Events and entries of the position, of any volume
Entry == [id : Ids, dir : Dirs, status : {"Add", "Fill", "Cancel"}, volume : Nat, price : Int,
          rest : Int]

LEMMA UnitsOfType ==
  ASSUME NEW e \in Entry, NEW d
  PROVE  /\ UnitsOf(e, d) \in Seq(Int)
         /\ Len(UnitsOf(e, d)) = IF IsFill(e) /\ e.dir = d THEN e.volume ELSE 0
         /\ \A u \in 1..Len(UnitsOf(e, d)) : UnitsOf(e, d)[u] = e.price
BY DEF UnitsOf, Entry

UnitsLoop(g, s, d) ==
    /\ g \in [0..Len(s) -> Seq(Int)] /\ g[0] = <<>>
    /\ \A k \in 1..Len(s) : g[k] = g[k - 1] \o UnitsOf(s[k], d)

LEMMA UnitsIs ==
  ASSUME NEW s \in Seq(Entry), NEW d
  PROVE  \E g : UnitsLoop(g, s, d) /\ Units(s, d) = g[Len(s)]
<1> DEFINE n == Len(s)
           X == Seq(Int)
           Defines(g) == g = [k \in 0..Len(s) |-> IF k = 0 THEN <<>>
                                                  ELSE g[k - 1] \o UnitsOf(s[k], d)]
           G == [k \in 1..n |-> [x \in X |-> x \o UnitsOf(s[k], d)]]
<1>1. n \in Nat /\ \A k \in 1..n : s[k] \in Entry
  OBVIOUS
<1>2. \A k \in 1..n : UnitsOf(s[k], d) \in Seq(Int)
  BY <1>1, UnitsOfType
<1>3. \A k \in 1..n : \A x \in X : G[k][x] \in X /\ G[k][x] = x \o UnitsOf(s[k], d)
  BY <1>2
<1>4. <<>> \in X
  OBVIOUS
<1> HIDE DEF G, X
<1>5. PICK h : LoopOf(h, X, <<>>, n, G)
  <2>1. StaysIn(X, n, G)
    BY <1>3 DEF StaysIn
  <2> QED BY <1>1, <1>4, <2>1, LoopExists
<1>6. h \in [0..n -> X] /\ h[0] = <<>> /\ \A k \in 1..n : h[k] = h[k - 1] \o UnitsOf(s[k], d)
  <2>1. \A k \in 1..n : h[k - 1] \in X
    BY <1>1, <1>5 DEF LoopOf
  <2> QED BY <1>3, <1>5, <2>1 DEF LoopOf
<1>7. Defines(h)
  <2>1. ASSUME NEW k \in 0..n PROVE h[k] = IF k = 0 THEN <<>> ELSE h[k - 1] \o UnitsOf(s[k], d)
    <3>1. k # 0 => k \in 1..n
      BY <1>1
    <3> QED BY <1>6, <3>1, Zenon
  <2>2. h = [k \in 0..n |-> h[k]]
    BY <1>6
  <2> QED BY <2>1, <2>2
<1> DEFINE g == CHOOSE g : Defines(g)
<1>8. Defines(g) /\ Units(s, d) = g[n]
  <2>1. Defines(g)
    <3> HIDE DEF Defines
    <3> QED BY <1>7
  <2> QED BY <2>1, Zenon DEF Units
<1> HIDE DEF g
<1>9. Agree(n, g, h)
  <2>1. g[0] = <<>> /\ \A k \in 1..n : g[k] = g[k - 1] \o UnitsOf(s[k], d)
    <3>1. 0 \in 0..n /\ \A k \in 1..n : k \in 0..n /\ k # 0
      BY <1>1
    <3> QED BY <1>8, <3>1, Zenon
  <2>2. Alike(n, g, h)
    BY <1>6, <2>1 DEF Alike
  <2> QED BY <1>1, <2>2, LoopsAgree
<1>10. n \in 0..n
  BY <1>1
<1> QED BY <1>6, <1>8, <1>9, <1>10 DEF UnitsLoop, Agree, X

LEMMA UnitsType ==
  ASSUME NEW s \in Seq(Entry), NEW d
  PROVE  Units(s, d) \in Seq(Int) /\ Len(Units(s, d)) \in Nat
<1>1. PICK g : UnitsLoop(g, s, d) /\ Units(s, d) = g[Len(s)]
  BY UnitsIs
<1>2. Len(s) \in 0..Len(s)
  OBVIOUS
<1>3. Units(s, d) \in Seq(Int)
  BY <1>1, <1>2 DEF UnitsLoop
<1> QED BY <1>3

LEMMA UnitsNone ==
  ASSUME NEW d
  PROVE  Units(<<>>, d) = <<>>
<1>1. <<>> \in Seq(Entry) /\ Len(<<>>) = 0
  OBVIOUS
<1> QED BY <1>1, UnitsIs DEF UnitsLoop

LEMMA ConcatThree == \A x, y, z \in Seq(Int) : (x \o y) \o z = x \o (y \o z)
<1> SUFFICES ASSUME NEW x \in Seq(Int), NEW y \in Seq(Int), NEW z \in Seq(Int)
             PROVE  (x \o y) \o z = x \o (y \o z)
  OBVIOUS
<1> QED BY ConcatAssociative, SMT

LEMMA AppendIs ==
  ASSUME NEW X, NEW s \in Seq(X), NEW e \in X
  PROVE  /\ Append(s, e) \in Seq(X) /\ Len(Append(s, e)) = Len(s) + 1 /\ Len(s) \in Nat
         /\ \A k \in 1..Len(s) : Append(s, e)[k] = s[k]
         /\ Append(s, e)[Len(s) + 1] = e
OBVIOUS

LEMMA UnitsNext ==
  ASSUME NEW s \in Seq(Entry), NEW e \in Entry, NEW d
  PROVE  Units(Append(s, e), d) = Units(s, d) \o UnitsOf(e, d)
<1> DEFINE n == Len(s)
           t == Append(s, e)
<1>1. t \in Seq(Entry) /\ Len(t) = n + 1 /\ n \in Nat /\ t[n + 1] = e /\ \A k \in 1..n : t[k] = s[k]
  BY AppendIs
<1> HIDE DEF t
<1>2. PICK g : UnitsLoop(g, s, d) /\ Units(s, d) = g[n]
  BY UnitsIs
<1>3. PICK h : UnitsLoop(h, t, d) /\ Units(t, d) = h[n + 1]
  BY <1>1, UnitsIs
<1> HIDE DEF n
<1>4. Agree(n, h, g)
  <2>1. ASSUME NEW k \in 1..n PROVE /\ g[k] = g[k - 1] \o UnitsOf(s[k], d)
                                    /\ h[k] = h[k - 1] \o UnitsOf(s[k], d)
    <3>1. k \in 1..(n + 1) /\ t[k] = s[k]
      BY <1>1
    <3> QED BY <1>1, <1>2, <1>3, <3>1 DEF UnitsLoop, n
  <2>2. Alike(n, h, g)
    BY <1>2, <1>3, <2>1 DEF Alike, UnitsLoop
  <2> QED BY <1>1, <2>2, LoopsAgree
<1>5. h[n + 1] = h[n] \o UnitsOf(e, d)
  <2>1. n + 1 \in 1..Len(t) /\ (n + 1) - 1 = n
    BY <1>1
  <2> QED BY <1>1, <1>3, <2>1 DEF UnitsLoop
<1>6. h[n] = g[n]
  BY <1>1, <1>4, n \in 0..n DEF Agree
<1> QED BY <1>2, <1>3, <1>5, <1>6 DEF t, n

\* The units of a sequence are those of its first entry and those of the rest.
LEMMA UnitsFirst ==
  ASSUME NEW s \in Seq(Entry), s # <<>>, NEW d
  PROVE  /\ Head(s) \in Entry /\ Tail(s) \in Seq(Entry)
         /\ Units(s, d) = UnitsOf(Head(s), d) \o Units(Tail(s), d)
<1> DEFINE n == Len(s)
           t == Tail(s)
           c == UnitsOf(s[1], d)
<1>1. /\ n \in Nat \ {0} /\ t \in Seq(Entry) /\ Len(t) = n - 1 /\ Head(s) = s[1] /\ s[1] \in Entry
      /\ \A k \in 1..(n - 1) : t[k] = s[k + 1] /\ t[k] \in Entry
  OBVIOUS
<1> HIDE DEF t
<1>2. PICK g : UnitsLoop(g, s, d) /\ Units(s, d) = g[n]
  BY UnitsIs
<1>3. PICK h : UnitsLoop(h, t, d) /\ Units(t, d) = h[n - 1]
  BY <1>1, UnitsIs
<1>4. c \in Seq(Int)
  BY <1>1, UnitsOfType
<1> HIDE DEF c
<1> DEFINE S == {k \in 0..(n - 1) : g[k + 1] = c \o h[k]}
<1>5. 0 \in S
  <2>1. 1 \in 1..n /\ 0 \in 0..(n - 1) /\ 0 + 1 = 1 /\ 1 - 1 = 0
    BY <1>1
  <2>2. g[1] = g[0] \o c /\ g[0] = <<>> /\ h[0] = <<>>
    BY <1>2, <1>3, <2>1 DEF UnitsLoop, c
  <2>3. <<>> \o c = c \o <<>>
    BY <1>4
  <2> QED BY <2>1, <2>2, <2>3
<1>6. ASSUME NEW k \in 1..(n - 1), k - 1 \in S PROVE k \in S
  <2> DEFINE b == UnitsOf(t[k], d)
  <2>1. /\ k + 1 \in 1..n /\ (k + 1) - 1 = k /\ (k - 1) + 1 = k
        /\ k \in 1..Len(t) /\ k - 1 \in 0..(n - 1)
    BY <1>1
  <2>2. g[k + 1] = g[k] \o b /\ h[k] = h[k - 1] \o b /\ h[k - 1] \in Seq(Int) /\ b \in Seq(Int)
    <3>1. g[k + 1] = g[k] \o UnitsOf(s[k + 1], d)
      BY <1>2, <2>1 DEF UnitsLoop
    <3>2. s[k + 1] = t[k] /\ t[k] \in Entry
      BY <1>1
    <3>3. h[k] = h[k - 1] \o b /\ h[k - 1] \in Seq(Int)
      BY <1>1, <1>3, <2>1 DEF UnitsLoop
    <3> QED BY <3>1, <3>2, <3>3, UnitsOfType
  <2>3. g[k] = c \o h[k - 1]
    BY <1>6, <2>1
  <2> HIDE DEF b
  <2>4. (c \o h[k - 1]) \o b = c \o (h[k - 1] \o b)
    BY <1>4, <2>2, ConcatThree, Zenon
  <2>5. g[k + 1] = c \o h[k]
    BY <2>2, <2>3, <2>4, Zenon
  <2> QED BY <2>1, <2>5
<1>7. n - 1 \in S
  <2>1. n - 1 \in Nat
    BY <1>1
  <2>2. \A k \in 1..(n - 1) : k - 1 \in S => k \in S
    BY <1>6
  <2>3. \A k \in 0..(n - 1) : k \in S
    <3> HIDE DEF S
    <3> QED BY <1>5, <2>1, <2>2, Steps
  <2> QED BY <2>1, <2>3
<1>8. g[(n - 1) + 1] = c \o h[n - 1] /\ (n - 1) + 1 = n
  BY <1>1, <1>7
<1> QED BY <1>1, <1>2, <1>3, <1>8 DEF t, c

-----------------------------------------------------------------------------
(* Sums over the parts of a sequence *)

LEMMA TotalStep ==
  ASSUME NEW n \in Nat \ {0}, NEW f, \A k \in 1..n : f[k] \in Int
  PROVE  /\ Total(f, n) = Total(f, n - 1) + f[n]
         /\ Total(f, n) \in Int /\ Total(f, n - 1) \in Int
<1>1. n - 1 \in Nat /\ (n - 1) + 1 = n
  OBVIOUS
<1>2. (\A k \in 1..((n - 1) + 1) : f[k] \in Int) /\ \A k \in 1..(n - 1) : f[k] = f[k]
  OBVIOUS
<1>3. /\ Total(f, (n - 1) + 1) = Total(f, n - 1) + f[(n - 1) + 1]
      /\ Total(f, (n - 1) + 1) \in Int /\ Total(f, n - 1) \in Int
  BY <1>1, <1>2, TotalNext
<1> QED BY <1>1, <1>3

LEMMA TotalInt ==
  ASSUME NEW n \in Nat, NEW f, \A k \in 1..n : f[k] \in Int
  PROVE  Total(f, n) \in Int
BY TotalSame

\* What n values and then m more add up to
Shifted(f, h, n, m) == (\A k \in 1..(n + m) : f[k] \in Int) /\ \A k \in 1..m : h[k] = f[n + k]

LEMMA TotalSplit ==
  ASSUME NEW n \in Nat, NEW m \in Nat, NEW f, NEW h, Shifted(f, h, n, m)
  PROVE  Total(f, n + m) = Total(f, n) + Total(h, m)
<1>0. (\A k \in 1..(n + m) : f[k] \in Int) /\ \A k \in 1..m : h[k] = f[n + k]
  BY DEF Shifted
<1> DEFINE S == {j \in 0..m : Total(f, n + j) = Total(f, n) + Total(h, j)}
<1>1. Total(f, n) \in Int
  <2>1. \A k \in 1..n : f[k] \in Int
    BY <1>0
  <2> QED BY <2>1, TotalInt
<1>2. 0 \in S
  <2>1. n + 0 = n /\ Total(h, 0) = 0
    BY TotalZero
  <2> QED BY <1>1, <2>1
<1>3. ASSUME NEW j \in 1..m, j - 1 \in S PROVE j \in S
  <2>1. Total(f, n + (j - 1)) = Total(f, n) + Total(h, j - 1)
    BY <1>3
  <2>2. /\ n + j \in Nat \ {0} /\ (n + j) - 1 = n + (j - 1)
        /\ \A k \in 1..(n + j) : f[k] \in Int
    BY <1>0
  <2>3. Total(f, n + j) = Total(f, n + (j - 1)) + f[n + j]
    <3>1. Total(f, n + j) = Total(f, (n + j) - 1) + f[n + j]
      BY <2>2, TotalStep
    <3> QED BY <2>2, <3>1
  <2>4. \A k \in 1..j : h[k] \in Int
    <3>1. ASSUME NEW k \in 1..j PROVE h[k] \in Int
      <4>1. k \in 1..m /\ n + k \in 1..(n + m)
        OBVIOUS
      <4> QED BY <1>0, <4>1
    <3> QED BY <3>1
  <2>5. /\ Total(h, j) = Total(h, j - 1) + h[j]
        /\ Total(h, j) \in Int /\ Total(h, j - 1) \in Int
        /\ h[j] = f[n + j] /\ h[j] \in Int
    <3>1. j \in Nat \ {0}
      OBVIOUS
    <3>2. /\ Total(h, j) = Total(h, j - 1) + h[j] /\ Total(h, j) \in Int
          /\ Total(h, j - 1) \in Int
      BY <2>4, <3>1, TotalStep
    <3>3. h[j] = f[n + j]
      BY <1>0
    <3> QED BY <2>4, <3>1, <3>2, <3>3
  <2>6. Total(f, n + j) = Total(f, n) + Total(h, j)
    BY <1>1, <2>1, <2>3, <2>5
  <2> QED BY <2>6
<1>4. \A j \in 1..m : j - 1 \in S => j \in S
  BY <1>3
<1>5. m \in S
  <2>1. \A j \in 0..m : j \in S
    <3> HIDE DEF S
    <3> QED BY <1>2, <1>4, Steps
  <2> QED BY <2>1
<1> QED BY <1>5

LEMMA TotalMinus ==
  ASSUME NEW n \in Nat, NEW f, NEW g, NEW h, \A k \in 1..n : f[k] \in Int /\ g[k] \in Int,
         \A k \in 1..n : h[k] = f[k] - g[k]
  PROVE  Total(h, n) = Total(f, n) - Total(g, n)
<1> DEFINE S == {j \in 0..n : Total(h, j) = Total(f, j) - Total(g, j)}
<1>1. 0 \in S
  BY TotalZero
<1>2. ASSUME NEW j \in 1..n, j - 1 \in S PROVE j \in S
  <2>1. /\ j \in Nat \ {0} /\ \A k \in 1..j : f[k] \in Int
        /\ \A k \in 1..j : g[k] \in Int
        /\ \A k \in 1..j : h[k] \in Int
    OBVIOUS
  <2>2. Total(f, j) = Total(f, j - 1) + f[j] /\ Total(f, j - 1) \in Int
    BY <2>1, TotalStep
  <2>3. Total(g, j) = Total(g, j - 1) + g[j] /\ Total(g, j - 1) \in Int
    BY <2>1, TotalStep
  <2>4. Total(h, j) = Total(h, j - 1) + h[j]
    BY <2>1, TotalStep
  <2>5. Total(h, j - 1) = Total(f, j - 1) - Total(g, j - 1) /\ h[j] = f[j] - g[j]
        /\ f[j] \in Int /\ g[j] \in Int
    BY <1>2
  <2>6. Total(h, j) = Total(f, j) - Total(g, j)
    BY <2>2, <2>3, <2>4, <2>5
  <2> QED BY <2>6
<1>3. \A j \in 1..n : j - 1 \in S => j \in S
  BY <1>2
<1>4. n \in S
  <2>1. \A j \in 0..n : j \in S
    <3> HIDE DEF S
    <3> QED BY <1>1, <1>3, Steps
  <2> QED BY <2>1
<1> QED BY <1>4

LEMMA TotalConst ==
  ASSUME NEW n \in Nat, NEW p \in Int, NEW f, \A k \in 1..n : f[k] = p
  PROVE  Total(f, n) = n * p
<1> DEFINE S == {j \in 0..n : Total(f, j) = j * p}
<1>1. 0 \in S
  BY TotalZero
<1>2. ASSUME NEW j \in 1..n, j - 1 \in S PROVE j \in S
  <2>1. j \in Nat \ {0} /\ \A k \in 1..j : f[k] \in Int
    OBVIOUS
  <2>2. Total(f, j) = Total(f, j - 1) + f[j]
    BY <2>1, TotalStep
  <2>3. Total(f, j - 1) = (j - 1) * p /\ f[j] = p
    BY <1>2
  <2>4. (j - 1) * p + p = j * p
    OBVIOUS
  <2> QED BY <2>2, <2>3, <2>4
<1>3. \A j \in 1..n : j - 1 \in S => j \in S
  BY <1>2
<1>4. n \in S
  <2>1. \A j \in 0..n : j \in S
    <3> HIDE DEF S
    <3> QED BY <1>1, <1>3, Steps
  <2> QED BY <2>1
<1> QED BY <1>4

-----------------------------------------------------------------------------
(* Sequences of units *)

LEMMA SameSequence ==
  ASSUME NEW u \in Seq(Int), NEW w \in Seq(Int), Len(u) = Len(w),
         \A k \in 1..Len(u) : u[k] = w[k]
  PROVE  u = w
OBVIOUS

LEMMA ConcatIs ==
  ASSUME NEW u \in Seq(Int), NEW w \in Seq(Int)
  PROVE  /\ u \o w \in Seq(Int) /\ Len(u \o w) = Len(u) + Len(w)
         /\ Len(u) \in Nat /\ Len(w) \in Nat
         /\ \A k \in 1..Len(u) : (u \o w)[k] = u[k]
         /\ \A k \in 1..Len(w) : (u \o w)[Len(u) + k] = w[k]
OBVIOUS

\* What is left of u without its first n elements
Drop(u, n) == [k \in 1..(IF n <= Len(u) THEN Len(u) - n ELSE 0) |-> u[n + k]]

LEMMA DropIs ==
  ASSUME NEW u \in Seq(Int), NEW n \in Nat
  PROVE  /\ Drop(u, n) \in Seq(Int) /\ Len(u) \in Nat
         /\ Len(Drop(u, n)) = IF n <= Len(u) THEN Len(u) - n ELSE 0
         /\ \A k \in 1..Len(Drop(u, n)) : Drop(u, n)[k] = u[n + k]
<1> DEFINE m == IF n <= Len(u) THEN Len(u) - n ELSE 0
<1>1. Len(u) \in Nat /\ m \in Nat /\ \A k \in 1..m : n + k \in 1..Len(u)
  OBVIOUS
<1>2. \A k \in 1..m : u[n + k] \in Int
  BY <1>1
<1> HIDE DEF m
<1>3. [k \in 1..m |-> u[n + k]] \in Seq(Int) /\ Len([k \in 1..m |-> u[n + k]]) = m
  BY <1>1, <1>2
<1> QED BY <1>1, <1>3 DEF Drop, m

LEMMA DropNone ==
  ASSUME NEW u \in Seq(Int), NEW n \in Nat, Len(u) <= n
  PROVE  Drop(u, n) = <<>>
BY DropIs

LEMMA DropZero ==
  ASSUME NEW u \in Seq(Int)
  PROVE  Drop(u, 0) = u
<1>1. /\ Drop(u, 0) \in Seq(Int) /\ Len(Drop(u, 0)) = Len(u)
      /\ \A k \in 1..Len(u) : Drop(u, 0)[k] = u[k]
  BY DropIs
<1> QED BY <1>1, SameSequence

LEMMA DropTwice ==
  ASSUME NEW u \in Seq(Int), NEW n \in Nat, NEW m \in Nat, n <= Len(u)
  PROVE  Drop(Drop(u, n), m) = Drop(u, n + m)
<1> DEFINE d == Drop(u, n)
           l == Drop(d, m)
           r == Drop(u, n + m)
<1>1. /\ d \in Seq(Int) /\ Len(d) = Len(u) - n /\ Len(u) \in Nat
      /\ \A k \in 1..Len(d) : d[k] = u[n + k]
  BY DropIs
<1> HIDE DEF d
<1>2. /\ l \in Seq(Int) /\ Len(l) = (IF m <= Len(d) THEN Len(d) - m ELSE 0)
      /\ \A k \in 1..Len(l) : l[k] = d[m + k]
  BY <1>1, DropIs
<1>3. /\ r \in Seq(Int) /\ Len(r) = (IF n + m <= Len(u) THEN Len(u) - (n + m) ELSE 0)
      /\ \A k \in 1..Len(r) : r[k] = u[(n + m) + k]
  <2>1. n + m \in Nat
    OBVIOUS
  <2> QED BY <2>1, DropIs
<1> HIDE DEF l, r
<1>4. Len(l) = Len(r)
  BY <1>1, <1>2, <1>3
<1>5. ASSUME NEW k \in 1..Len(l) PROVE l[k] = r[k]
  <2>1. m + k \in 1..Len(d) /\ n + (m + k) = (n + m) + k
    BY <1>1, <1>2
  <2> QED BY <1>1, <1>2, <1>3, <1>4, <2>1
<1>6. l = r
  BY <1>2, <1>3, <1>4, <1>5, SameSequence
<1> QED BY <1>6 DEF l, r, d

\* The first sequence of two loses its elements first.
LEMMA DropLeft ==
  ASSUME NEW u \in Seq(Int), NEW w \in Seq(Int), NEW n \in Nat, n <= Len(u)
  PROVE  Drop(u \o w, n) = Drop(u, n) \o w
<1> DEFINE c == u \o w
           d == Drop(u, n)
           l == Drop(c, n)
           r == d \o w
<1>1. /\ c \in Seq(Int) /\ Len(c) = Len(u) + Len(w) /\ Len(u) \in Nat /\ Len(w) \in Nat
      /\ \A k \in 1..Len(u) : c[k] = u[k]
      /\ \A k \in 1..Len(w) : c[Len(u) + k] = w[k]
  BY ConcatIs
<1>2. /\ d \in Seq(Int) /\ Len(d) = Len(u) - n
      /\ \A k \in 1..Len(d) : d[k] = u[n + k]
  BY DropIs
<1> HIDE DEF c, d
<1>3. /\ l \in Seq(Int) /\ Len(l) = Len(c) - n
      /\ \A k \in 1..Len(l) : l[k] = c[n + k]
  <2>1. n <= Len(c)
    BY <1>1
  <2> QED BY <1>1, <2>1, DropIs
<1>4. /\ r \in Seq(Int) /\ Len(r) = Len(d) + Len(w)
      /\ \A k \in 1..Len(d) : r[k] = d[k]
      /\ \A k \in 1..Len(w) : r[Len(d) + k] = w[k]
  BY <1>2, ConcatIs
<1> HIDE DEF l, r
<1>5. Len(l) = Len(r)
  BY <1>1, <1>2, <1>3, <1>4
<1>6. ASSUME NEW k \in 1..Len(l) PROVE l[k] = r[k]
  <2>1. CASE k <= Len(d)
    <3>1. k \in 1..Len(d) /\ n + k \in 1..Len(u)
      BY <1>1, <1>2, <2>1
    <3> QED BY <1>1, <1>2, <1>3, <1>4, <3>1
  <2>2. CASE ~(k <= Len(d))
    <3> DEFINE j == k - Len(d)
    <3>1. j \in 1..Len(w) /\ k = Len(d) + j /\ n + k = Len(u) + j
      BY <1>1, <1>2, <1>4, <1>5, <2>2
    <3> HIDE DEF j
    <3>2. l[k] = c[n + k] /\ c[Len(u) + j] = w[j] /\ r[Len(d) + j] = w[j]
      BY <1>1, <1>3, <1>4, <3>1
    <3> QED BY <3>1, <3>2
  <2> QED BY <2>1, <2>2
<1>7. l = r
  BY <1>3, <1>4, <1>5, <1>6, SameSequence
<1> QED BY <1>7 DEF l, r, c, d

LEMMA DropRight ==
  ASSUME NEW u \in Seq(Int), NEW w \in Seq(Int), NEW n \in Nat, Len(u) <= n
  PROVE  Drop(u \o w, n) = Drop(w, n - Len(u))
<1> DEFINE m == n - Len(u)
<1>1. Len(u) \in Nat /\ m \in Nat /\ n = Len(u) + m
  OBVIOUS
<1>2. u \o w \in Seq(Int) /\ Len(u \o w) = Len(u) + Len(w) /\ Len(w) \in Nat
  BY ConcatIs
<1>3. Drop(Drop(u \o w, Len(u)), m) = Drop(u \o w, Len(u) + m)
  <2>1. Len(u) <= Len(u \o w)
    BY <1>1, <1>2
  <2> QED BY <1>1, <1>2, <2>1, DropTwice
<1>4. Drop(u \o w, Len(u)) = w
  <2>1. Drop(u \o w, Len(u)) = Drop(u, Len(u)) \o w
    <3>1. Len(u) \in Nat /\ Len(u) <= Len(u)
      BY <1>1
    <3> QED BY <3>1, DropLeft, Zenon
  <2>2. Drop(u, Len(u)) = <<>>
    BY <1>1, DropNone
  <2>3. <<>> \o w = w
    OBVIOUS
  <2> QED BY <2>1, <2>2, <2>3
<1> QED BY <1>1, <1>3, <1>4

\* The sum of all elements
Sum(u) == Total(u, Len(u))

LEMMA SumConcat ==
  ASSUME NEW u \in Seq(Int), NEW w \in Seq(Int)
  PROVE  Sum(u \o w) = Sum(u) + Sum(w) /\ Sum(u) \in Int /\ Sum(w) \in Int
<1> DEFINE c == u \o w
<1>1. /\ c \in Seq(Int) /\ Len(c) = Len(u) + Len(w) /\ Len(u) \in Nat /\ Len(w) \in Nat
      /\ \A k \in 1..Len(u) : c[k] = u[k]
      /\ \A k \in 1..Len(w) : c[Len(u) + k] = w[k]
  BY ConcatIs
<1> HIDE DEF c
<1>2. \A k \in 1..(Len(u) + Len(w)) : c[k] \in Int
  BY <1>1
<1>3. \A k \in 1..Len(w) : w[k] = c[Len(u) + k]
  BY <1>1
<1>4. Total(c, Len(u) + Len(w)) = Total(c, Len(u)) + Total(w, Len(w))
  <2>1. Shifted(c, w, Len(u), Len(w))
    BY <1>2, <1>3 DEF Shifted
  <2> QED BY <1>1, <2>1, TotalSplit
<1>5. Total(c, Len(u)) = Total(u, Len(u)) /\ Total(u, Len(u)) \in Int
  <2>1. \A k \in 1..Len(u) : u[k] \in Int
    OBVIOUS
  <2> QED BY <1>1, <2>1, TotalSame
<1>6. Total(w, Len(w)) \in Int
  <2>1. \A k \in 1..Len(w) : w[k] \in Int
    OBVIOUS
  <2> QED BY <1>1, <2>1, TotalInt
<1> QED BY <1>1, <1>4, <1>5, <1>6 DEF Sum, c

LEMMA SumDrop ==
  ASSUME NEW u \in Seq(Int), NEW n \in Nat, n <= Len(u)
  PROVE  /\ Sum(u) = Total(u, n) + Sum(Drop(u, n))
         /\ Sum(u) \in Int /\ Total(u, n) \in Int /\ Sum(Drop(u, n)) \in Int
<1> DEFINE d == Drop(u, n)
<1>1. /\ d \in Seq(Int) /\ Len(u) \in Nat /\ Len(d) = Len(u) - n
      /\ \A k \in 1..Len(d) : d[k] = u[n + k]
  BY DropIs
<1> HIDE DEF d
<1>2. \A k \in 1..Len(u) : u[k] \in Int
  OBVIOUS
<1>3. Len(d) \in Nat /\ n + Len(d) = Len(u) /\ \A k \in 1..(n + Len(d)) : u[k] \in Int
  BY <1>1, <1>2
<1>4. Total(u, n + Len(d)) = Total(u, n) + Total(d, Len(d))
  <2>1. Shifted(u, d, n, Len(d))
    BY <1>1, <1>3 DEF Shifted
  <2> QED BY <1>3, <2>1, TotalSplit
<1>5. Total(u, Len(u)) \in Int
  BY <1>1, <1>2, TotalInt
<1>6. Total(u, n) \in Int
  <2>1. \A k \in 1..n : u[k] \in Int
    BY <1>1, <1>2
  <2> QED BY <2>1, TotalInt
<1>7. Total(d, Len(d)) \in Int
  <2>1. \A k \in 1..Len(d) : d[k] \in Int
    BY <1>1
  <2> QED BY <1>3, <2>1, TotalInt
<1> QED BY <1>3, <1>4, <1>5, <1>6, <1>7 DEF Sum, d

LEMMA SumUnitsOf ==
  ASSUME NEW e \in Entry, NEW d
  PROVE  Sum(UnitsOf(e, d)) = IF IsFill(e) /\ e.dir = d THEN e.volume * e.price ELSE 0
<1> DEFINE u == UnitsOf(e, d)
<1>1. /\ u \in Seq(Int) /\ Len(u) = (IF IsFill(e) /\ e.dir = d THEN e.volume ELSE 0)
      /\ \A k \in 1..Len(u) : u[k] = e.price
  BY UnitsOfType
<1>2. e.volume \in Nat /\ e.price \in Int /\ Len(u) \in Nat
  BY <1>1 DEF Entry
<1> HIDE DEF u
<1>3. Total(u, Len(u)) = Len(u) * e.price
  BY <1>1, <1>2, TotalConst
<1>4. 0 * e.price = 0
  BY <1>2
<1> QED BY <1>1, <1>3, <1>4 DEF Sum, u

-----------------------------------------------------------------------------
(* Net volume and money in units *)

LEMMA UnitsStep ==
  ASSUME NEW s \in Seq(Entry), NEW d, NEW g, UnitsLoop(g, s, d), NEW k \in 1..Len(s)
  PROVE  /\ g[k] = g[k - 1] \o UnitsOf(s[k], d) /\ g[k] \in Seq(Int) /\ g[k - 1] \in Seq(Int)
         /\ UnitsOf(s[k], d) \in Seq(Int) /\ s[k] \in Entry
         /\ Len(g[k]) = Len(g[k - 1]) + Len(UnitsOf(s[k], d))
         /\ Len(g[k - 1]) \in Nat
<1>1. s[k] \in Entry /\ k \in 0..Len(s) /\ k - 1 \in 0..Len(s)
  OBVIOUS
<1>2. UnitsOf(s[k], d) \in Seq(Int)
  BY <1>1, UnitsOfType
<1>3. g[k] = g[k - 1] \o UnitsOf(s[k], d) /\ g[k] \in Seq(Int) /\ g[k - 1] \in Seq(Int)
  BY <1>1 DEF UnitsLoop
<1>4. /\ Len(g[k - 1] \o UnitsOf(s[k], d)) = Len(g[k - 1]) + Len(UnitsOf(s[k], d))
      /\ Len(g[k - 1]) \in Nat
  BY <1>2, <1>3, ConcatIs
<1> QED BY <1>1, <1>2, <1>3, <1>4

LEMMA EntryType ==
  ASSUME NEW e \in Entry
  PROVE  e.volume \in Nat /\ e.price \in Int /\ e.dir \in Dirs /\ e.volume * e.price \in Int
<1>1. e.volume \in Nat /\ e.price \in Int /\ e.dir \in Dirs
  BY DEF Entry
<1> QED BY <1>1

\* Bought minus sold
LEMMA NetIs ==
  ASSUME NEW s \in Seq(Entry)
  PROVE  Net(s) = Len(Units(s, "Bid")) - Len(Units(s, "Ask"))
<1> DEFINE n == Len(s)
           f == [k \in DOMAIN s |-> IF IsFill(s[k]) THEN Signed(s[k], s[k].volume) ELSE 0]
<1>1. PICK g : UnitsLoop(g, s, "Bid") /\ Units(s, "Bid") = g[n]
  BY UnitsIs
<1>2. PICK h : UnitsLoop(h, s, "Ask") /\ Units(s, "Ask") = h[n]
  BY UnitsIs
<1>3. n \in Nat /\ \A k \in 1..n : s[k] \in Entry /\ k \in DOMAIN s
  OBVIOUS
<1>4. \A k \in 1..n : /\ f[k] = IF IsFill(s[k]) THEN Signed(s[k], s[k].volume) ELSE 0
                      /\ f[k] \in Int
  BY <1>3, EntryType DEF Signed
<1> HIDE DEF f
<1> DEFINE S == {k \in 0..n : Total(f, k) = Len(g[k]) - Len(h[k])}
<1>5. 0 \in S
  <2>1. g[0] = <<>> /\ h[0] = <<>> /\ Len(<<>>) = 0
    BY <1>1, <1>2 DEF UnitsLoop
  <2>2. Len(g[0]) = 0 /\ Len(h[0]) = 0 /\ Total(f, 0) = 0 /\ 0 \in 0..n
    BY <1>3, <2>1, TotalZero
  <2>3. Total(f, 0) = Len(g[0]) - Len(h[0])
    BY <2>2, 0 - 0 = 0, Zenon
  <2> QED BY <2>2, <2>3, Zenon
<1>6. ASSUME NEW k \in 1..n, k - 1 \in S PROVE k \in S
  <2>1. /\ Len(g[k]) = Len(g[k - 1]) + Len(UnitsOf(s[k], "Bid"))
        /\ Len(h[k]) = Len(h[k - 1]) + Len(UnitsOf(s[k], "Ask"))
        /\ Len(g[k - 1]) \in Nat /\ Len(h[k - 1]) \in Nat
    BY <1>1, <1>2, UnitsStep
  <2>2. Total(f, k) = Total(f, k - 1) + f[k]
    <3>1. k \in Nat \ {0} /\ \A j \in 1..k : f[j] \in Int
      BY <1>3, <1>4
    <3> QED BY <3>1, TotalStep
  <2>3. Total(f, k - 1) = Len(g[k - 1]) - Len(h[k - 1])
    BY <1>6
  <2>4. f[k] = Len(UnitsOf(s[k], "Bid")) - Len(UnitsOf(s[k], "Ask"))
    <3>1. s[k] \in Entry /\ s[k].volume \in Nat /\ s[k].dir \in Dirs
      BY <1>3, EntryType
    <3>2. Len(UnitsOf(s[k], "Bid"))
            = (IF IsFill(s[k]) /\ s[k].dir = "Bid" THEN s[k].volume ELSE 0)
      BY <3>1, UnitsOfType
    <3>3. Len(UnitsOf(s[k], "Ask"))
            = (IF IsFill(s[k]) /\ s[k].dir = "Ask" THEN s[k].volume ELSE 0)
      BY <3>1, UnitsOfType
    <3>4. f[k] = IF IsFill(s[k])
                 THEN (IF s[k].dir = "Bid" THEN s[k].volume ELSE -s[k].volume) ELSE 0
      BY <1>4 DEF Signed
    <3> QED BY <3>1, <3>2, <3>3, <3>4 DEF Dirs
  <2>5. Len(UnitsOf(s[k], "Bid")) \in Nat /\ Len(UnitsOf(s[k], "Ask")) \in Nat
    BY <1>3, UnitsOfType, EntryType
  <2>6. Total(f, k) = Len(g[k]) - Len(h[k])
    <3> DEFINE a == Len(g[k - 1])
               b == Len(UnitsOf(s[k], "Bid"))
               c == Len(h[k - 1])
               e == Len(UnitsOf(s[k], "Ask"))
    <3>1. a \in Nat /\ b \in Nat /\ c \in Nat /\ e \in Nat
      BY <2>1, <2>5, Zenon
    <3>2. (a - c) + (b - e) = (a + b) - (c + e)
      <4> HIDE DEF a, b, c, e
      <4> QED BY <3>1
    <3> QED BY <2>1, <2>2, <2>3, <2>4, <3>2, Zenon
  <2>7. k \in 0..n
    BY <1>3
  <2> QED BY <2>6, <2>7, Zenon
<1>7. n \in S
  <2>1. \A k \in 1..n : k - 1 \in S => k \in S
    BY <1>6
  <2>2. \A k \in 0..n : k \in S
    <3> HIDE DEF S
    <3> QED BY <1>3, <1>5, <2>1, Steps
  <2>3. n \in 0..n
    BY <1>3
  <2> QED BY <2>2, <2>3, Zenon
<1> QED BY <1>1, <1>2, <1>7 DEF Net, f

\* Received minus paid
LEMMA CashIs ==
  ASSUME NEW s \in Seq(Entry)
  PROVE  Cash(s) = Sum(Units(s, "Ask")) - Sum(Units(s, "Bid"))
<1> DEFINE n == Len(s)
           f == [k \in DOMAIN s |-> IF IsFill(s[k])
                                    THEN -Signed(s[k], s[k].volume * s[k].price) ELSE 0]
<1>1. PICK g : UnitsLoop(g, s, "Bid") /\ Units(s, "Bid") = g[n]
  BY UnitsIs
<1>2. PICK h : UnitsLoop(h, s, "Ask") /\ Units(s, "Ask") = h[n]
  BY UnitsIs
<1>3. n \in Nat /\ \A k \in 1..n : s[k] \in Entry /\ k \in DOMAIN s
  OBVIOUS
<1>4. ASSUME NEW k \in 1..n
      PROVE  /\ f[k] = IF IsFill(s[k]) THEN -Signed(s[k], s[k].volume * s[k].price) ELSE 0
             /\ f[k] \in Int
  <2>1. s[k].volume * s[k].price \in Int
    BY <1>3, EntryType
  <2> QED BY <1>3, <2>1 DEF Signed
<1> HIDE DEF f
<1> DEFINE S == {k \in 0..n : Total(f, k) = Sum(h[k]) - Sum(g[k])}
<1>5. 0 \in S
  <2>1. g[0] = <<>> /\ h[0] = <<>> /\ Len(<<>>) = 0
    BY <1>1, <1>2 DEF UnitsLoop
  <2>2. Sum(<<>>) = 0
    BY <2>1, TotalZero DEF Sum
  <2> QED BY <1>3, <2>1, <2>2, TotalZero
<1>6. ASSUME NEW k \in 1..n, k - 1 \in S PROVE k \in S
  <2>1. /\ Sum(g[k]) = Sum(g[k - 1]) + Sum(UnitsOf(s[k], "Bid"))
        /\ Sum(g[k - 1]) \in Int /\ Sum(UnitsOf(s[k], "Bid")) \in Int
    <3>1. /\ g[k] = g[k - 1] \o UnitsOf(s[k], "Bid") /\ g[k - 1] \in Seq(Int)
          /\ UnitsOf(s[k], "Bid") \in Seq(Int)
      BY <1>1, UnitsStep
    <3> QED BY <3>1, SumConcat
  <2>2. /\ Sum(h[k]) = Sum(h[k - 1]) + Sum(UnitsOf(s[k], "Ask"))
        /\ Sum(h[k - 1]) \in Int /\ Sum(UnitsOf(s[k], "Ask")) \in Int
    <3>1. /\ h[k] = h[k - 1] \o UnitsOf(s[k], "Ask") /\ h[k - 1] \in Seq(Int)
          /\ UnitsOf(s[k], "Ask") \in Seq(Int)
      BY <1>2, UnitsStep
    <3> QED BY <3>1, SumConcat
  <2>3. Total(f, k) = Total(f, k - 1) + f[k]
    <3>1. k \in Nat \ {0} /\ \A j \in 1..k : f[j] \in Int
      BY <1>3, <1>4
    <3> QED BY <3>1, TotalStep
  <2>4. Total(f, k - 1) = Sum(h[k - 1]) - Sum(g[k - 1])
    BY <1>6
  <2>5. f[k] = Sum(UnitsOf(s[k], "Ask")) - Sum(UnitsOf(s[k], "Bid"))
    <3> DEFINE m == s[k].volume * s[k].price
    <3>1. s[k] \in Entry /\ m \in Int /\ s[k].dir \in Dirs
      BY <1>3, EntryType
    <3>2. Sum(UnitsOf(s[k], "Bid")) = (IF IsFill(s[k]) /\ s[k].dir = "Bid" THEN m ELSE 0)
      BY <3>1, SumUnitsOf
    <3>3. Sum(UnitsOf(s[k], "Ask")) = (IF IsFill(s[k]) /\ s[k].dir = "Ask" THEN m ELSE 0)
      BY <3>1, SumUnitsOf
    <3>4. f[k] = IF IsFill(s[k]) THEN -(IF s[k].dir = "Bid" THEN m ELSE -m) ELSE 0
      BY <1>4 DEF Signed
    <3> HIDE DEF m
    <3> QED BY <3>1, <3>2, <3>3, <3>4 DEF Dirs
  <2>6. Total(f, k) = Sum(h[k]) - Sum(g[k])
    BY <2>1, <2>2, <2>3, <2>4, <2>5
  <2> QED BY <1>3, <2>6
<1>7. n \in S
  <2>1. \A k \in 1..n : k - 1 \in S => k \in S
    BY <1>6
  <2>2. \A k \in 0..n : k \in S
    <3> HIDE DEF S
    <3> QED BY <1>3, <1>5, <2>1, Steps
  <2> QED BY <1>3, <2>2
<1> QED BY <1>1, <1>2, <1>7 DEF Cash, f

-----------------------------------------------------------------------------
(* The queue of partly used deals *)

\* Deals of one side, none of them used up
Queue(p, d) == /\ p \in Seq(Entry)
               /\ \A k \in 1..Len(p) : IsFill(p[k]) /\ p[k].dir = d /\ p[k].volume > 0

LEMMA OtherSide ==
  ASSUME NEW p, NEW d, Queue(p, d), NEW o, o # d
  PROVE  Units(p, o) = <<>>
<1>1. p \in Seq(Entry) /\ Len(p) \in Nat
  BY DEF Queue
<1>2. PICK g : UnitsLoop(g, p, o) /\ Units(p, o) = g[Len(p)]
  BY <1>1, UnitsIs
<1> DEFINE S == {k \in 0..Len(p) : g[k] = <<>>}
<1>3. 0 \in S
  BY <1>1, <1>2 DEF UnitsLoop
<1>4. ASSUME NEW k \in 1..Len(p), k - 1 \in S PROVE k \in S
  <2>1. g[k] = g[k - 1] \o UnitsOf(p[k], o) /\ g[k - 1] = <<>>
    BY <1>1, <1>2, <1>4, UnitsStep
  <2>2. UnitsOf(p[k], o) = <<>>
    BY DEF UnitsOf, Queue
  <2>3. <<>> \o <<>> = <<>>
    OBVIOUS
  <2>4. g[k] = <<>>
    BY <2>1, <2>2, <2>3, Zenon
  <2> QED BY <1>1, <2>4
<1>5. Len(p) \in S
  <2>1. \A k \in 1..Len(p) : k - 1 \in S => k \in S
    BY <1>4
  <2>2. \A k \in 0..Len(p) : k \in S
    <3> HIDE DEF S
    <3> QED BY <1>1, <1>3, <2>1, Steps
  <2> QED BY <1>1, <2>2
<1> QED BY <1>2, <1>5

LEMMA VolumeIs ==
  ASSUME NEW p, NEW d, Queue(p, d)
  PROVE  Volume(p) = Len(Units(p, d))
<1> DEFINE n == Len(p)
           f == [k \in DOMAIN p |-> p[k].volume]
<1>1. p \in Seq(Entry) /\ n \in Nat /\ \A k \in 1..n : p[k] \in Entry /\ k \in DOMAIN p
  BY DEF Queue
<1>2. PICK g : UnitsLoop(g, p, d) /\ Units(p, d) = g[n]
  BY <1>1, UnitsIs
<1>3. \A k \in 1..n : f[k] = p[k].volume /\ f[k] \in Int
  BY <1>1, EntryType
<1> HIDE DEF f
<1> DEFINE S == {k \in 0..n : Total(f, k) = Len(g[k])}
<1>4. 0 \in S
  <2>1. g[0] = <<>> /\ Len(<<>>) = 0
    BY <1>2 DEF UnitsLoop
  <2> QED BY <1>1, <2>1, TotalZero
<1>5. ASSUME NEW k \in 1..n, k - 1 \in S PROVE k \in S
  <2>1. Len(g[k]) = Len(g[k - 1]) + Len(UnitsOf(p[k], d)) /\ p[k] \in Entry
    BY <1>1, <1>2, UnitsStep
  <2>2. IsFill(p[k]) /\ p[k].dir = d
    BY DEF Queue
  <2>3. Len(UnitsOf(p[k], d)) = p[k].volume
    BY <2>1, <2>2, UnitsOfType
  <2>4. Total(f, k) = Total(f, k - 1) + f[k]
    <3>1. k \in Nat \ {0} /\ \A j \in 1..k : f[j] \in Int
      BY <1>1, <1>3
    <3> QED BY <3>1, TotalStep
  <2>5. Total(f, k - 1) = Len(g[k - 1]) /\ f[k] = p[k].volume
    BY <1>3, <1>5
  <2>6. Total(f, k) = Len(g[k])
    BY <2>1, <2>3, <2>4, <2>5
  <2> QED BY <1>1, <2>6
<1>6. n \in S
  <2>1. \A k \in 1..n : k - 1 \in S => k \in S
    BY <1>5
  <2>2. \A k \in 0..n : k \in S
    <3> HIDE DEF S
    <3> QED BY <1>1, <1>4, <2>1, Steps
  <2> QED BY <1>1, <2>2
<1> QED BY <1>2, <1>6 DEF Volume, f

LEMMA QueueFirst ==
  ASSUME NEW p, NEW d, Queue(p, d), p # <<>>
  PROVE  /\ p[1] = Head(p) /\ Head(p) \in Entry /\ IsFill(Head(p)) /\ Head(p).dir = d
         /\ Head(p).volume \in Nat \ {0}
         /\ Queue(Tail(p), d) /\ Len(Tail(p)) = Len(p) - 1 /\ Len(p) \in Nat \ {0}
         /\ Units(p, d) = UnitsOf(Head(p), d) \o Units(Tail(p), d)
         /\ Len(UnitsOf(Head(p), d)) = Head(p).volume
         /\ Len(Units(p, d)) = Head(p).volume + Len(Units(Tail(p), d))
         /\ Len(Units(Tail(p), d)) \in Nat
<1>1. /\ p \in Seq(Entry) /\ p[1] = Head(p) /\ Len(p) \in Nat \ {0} /\ 1 \in 1..Len(p)
      /\ Tail(p) \in Seq(Entry) /\ Len(Tail(p)) = Len(p) - 1
      /\ \A k \in 1..(Len(p) - 1) : Tail(p)[k] = p[k + 1] /\ k + 1 \in 1..Len(p)
  BY DEF Queue
<1>2. IsFill(Head(p)) /\ Head(p).dir = d /\ Head(p).volume > 0
  BY <1>1 DEF Queue
<1>3. Queue(Tail(p), d)
  BY <1>1 DEF Queue
<1>4. /\ Head(p) \in Entry
      /\ Units(p, d) = UnitsOf(Head(p), d) \o Units(Tail(p), d)
  BY <1>1, UnitsFirst
<1>5. Head(p).volume \in Nat
  BY <1>4, EntryType
<1>6. UnitsOf(Head(p), d) \in Seq(Int) /\ Len(UnitsOf(Head(p), d)) = Head(p).volume
  BY <1>2, <1>4, UnitsOfType
<1>7. Units(Tail(p), d) \in Seq(Int) /\ Len(Units(Tail(p), d)) \in Nat
  BY <1>1, UnitsType
<1>8. Len(Units(p, d)) = Head(p).volume + Len(Units(Tail(p), d))
  <2>1. Len(UnitsOf(Head(p), d) \o Units(Tail(p), d))
          = Len(UnitsOf(Head(p), d)) + Len(Units(Tail(p), d))
    BY <1>6, <1>7, ConcatIs
  <2> QED BY <1>4, <1>6, <2>1, Zenon
<1> QED BY <1>1, <1>2, <1>3, <1>4, <1>5, <1>6, <1>7, <1>8

-----------------------------------------------------------------------------
(* The loop in which a deal uses entries up *)

Using == [queue : Seq(Entry), volume : Nat]

LEMMA EntryPart ==
  ASSUME NEW e \in Entry, NEW v \in Nat
  PROVE  LET f == [e EXCEPT !.volume = v] IN
         f \in Entry /\ f.volume = v /\ f.price = e.price /\ f.dir = e.dir /\ f.status = e.status
BY DEF Entry

LEMMA FirstReplaced ==
  ASSUME NEW X, NEW p \in Seq(X), p # <<>>, NEW f \in X
  PROVE  LET q == [p EXCEPT ![1] = f] IN
         /\ q \in Seq(X) /\ Len(q) = Len(p) /\ q # <<>> /\ q[1] = f /\ Head(q) = f
         /\ \A k \in 1..Len(p) : k # 1 => q[k] = p[k]
         /\ Tail(q) = Tail(p)
<1> DEFINE q == [p EXCEPT ![1] = f]
<1>1. /\ q \in Seq(X) /\ Len(q) = Len(p) /\ q[1] = f /\ Len(p) \in Nat \ {0}
      /\ \A k \in 1..Len(p) : k # 1 => q[k] = p[k]
  OBVIOUS
<1> HIDE DEF q
<1>2. q # <<>> /\ Head(q) = f
  BY <1>1
<1>3. /\ Tail(q) \in Seq(X) /\ Tail(p) \in Seq(X) /\ Len(Tail(q)) = Len(Tail(p))
      /\ \A k \in 1..Len(Tail(p)) : Tail(q)[k] = Tail(p)[k]
  BY <1>1, <1>2
<1>4. Tail(q) = Tail(p)
  BY <1>3
<1> QED BY <1>1, <1>2, <1>4 DEF q

\* The first entry of a queue loses a part of its volume.
FirstLess(p, v) == [p EXCEPT ![1].volume = @ - v]

LEMMA FirstPart ==
  ASSUME NEW p, NEW d, Queue(p, d), p # <<>>, NEW v \in Nat, v < Head(p).volume
  PROVE  /\ Queue(FirstLess(p, v), d) /\ Len(FirstLess(p, v)) = Len(p)
         /\ Units(FirstLess(p, v), d) = Drop(Units(p, d), v)
         /\ Len(Units(FirstLess(p, v), d)) = Len(Units(p, d)) - v
<1> DEFINE q == FirstLess(p, v)
           e == Head(p)
           f == [e EXCEPT !.volume = e.volume - v]
<1>1. /\ p \in Seq(Entry) /\ Len(p) \in Nat \ {0} /\ p[1] = e /\ e \in Entry
      /\ IsFill(e) /\ e.dir = d /\ e.volume \in Nat \ {0}
      /\ Units(p, d) = UnitsOf(e, d) \o Units(Tail(p), d)
      /\ Tail(p) \in Seq(Entry)
  BY QueueFirst DEF Queue
<1>2. /\ f \in Entry /\ IsFill(f) /\ f.dir = d /\ f.volume = e.volume - v /\ f.volume > 0
      /\ f.price = e.price
  <2>1. e.volume - v \in Nat /\ e.volume - v > 0
    BY <1>1
  <2> HIDE DEF e
  <2>2. /\ f \in Entry /\ f.volume = e.volume - v
        /\ f.price = e.price /\ f.dir = e.dir /\ f.status = e.status
    BY <1>1, <2>1, EntryPart
  <2> HIDE DEF f
  <2> QED BY <1>1, <2>1, <2>2 DEF IsFill
<1>3. q = [p EXCEPT ![1] = f]
  BY <1>1 DEF FirstLess
<1> HIDE DEF f, e
<1>4. /\ q \in Seq(Entry) /\ Len(q) = Len(p) /\ q # <<>> /\ q[1] = f
      /\ \A k \in 1..Len(p) : k # 1 => q[k] = p[k]
      /\ Head(q) = f /\ Tail(q) = Tail(p)
  <2> HIDE DEF q
  <2> QED BY <1>1, <1>2, <1>3, FirstReplaced
<1> HIDE DEF q
<1>5. Head(q) = f /\ Tail(q) = Tail(p)
  BY <1>4
<1>6. Queue(q, d)
  BY <1>1, <1>2, <1>4 DEF Queue
<1>7. Units(q, d) = UnitsOf(f, d) \o Units(Tail(p), d)
  BY <1>4, <1>5, UnitsFirst
<1>8. /\ UnitsOf(e, d) \in Seq(Int) /\ Len(UnitsOf(e, d)) = e.volume
      /\ \A k \in 1..e.volume : UnitsOf(e, d)[k] = e.price
  BY <1>1, UnitsOfType
<1>9. /\ UnitsOf(f, d) \in Seq(Int) /\ Len(UnitsOf(f, d)) = e.volume - v
      /\ \A k \in 1..(e.volume - v) : UnitsOf(f, d)[k] = e.price
  BY <1>2, UnitsOfType
<1>10. UnitsOf(f, d) = Drop(UnitsOf(e, d), v)
  <2> DEFINE l == Drop(UnitsOf(e, d), v)
             r == UnitsOf(f, d)
  <2>1. /\ l \in Seq(Int) /\ Len(l) = e.volume - v
        /\ \A k \in 1..Len(l) : l[k] = UnitsOf(e, d)[v + k]
    <3>1. v <= Len(UnitsOf(e, d))
      BY <1>1, <1>8 DEF e
    <3> QED BY <1>8, <3>1, DropIs
  <2> HIDE DEF l
  <2>2. \A k \in 1..Len(r) : r[k] = l[k]
    <3>1. \A k \in 1..Len(r) : v + k \in 1..e.volume
      BY <1>1, <1>9
    <3> QED BY <1>8, <1>9, <2>1, <3>1
  <2>3. r \in Seq(Int) /\ Len(r) = Len(l)
    BY <1>9, <2>1
  <2> HIDE DEF r
  <2>4. r = l
    BY <2>1, <2>2, <2>3, SameSequence
  <2> QED BY <2>4 DEF r, l
<1>11. Units(Tail(p), d) \in Seq(Int)
  BY <1>1, UnitsType
<1>12. Units(q, d) = Drop(Units(p, d), v)
  <2>1. v <= Len(UnitsOf(e, d))
    BY <1>1, <1>8 DEF e
  <2>2. Drop(UnitsOf(e, d) \o Units(Tail(p), d), v)
          = Drop(UnitsOf(e, d), v) \o Units(Tail(p), d)
    BY <1>8, <1>11, <2>1, DropLeft
  <2> QED BY <1>1, <1>7, <1>10, <2>2
<1>13. Len(Units(q, d)) = Len(Units(p, d)) - v
  <2>1. Units(p, d) \in Seq(Int) /\ v <= Len(Units(p, d))
    <3>1. /\ Len(Units(p, d)) = e.volume + Len(Units(Tail(p), d))
          /\ Len(Units(Tail(p), d)) \in Nat
      BY QueueFirst DEF e
    <3>2. v <= e.volume /\ e.volume \in Nat
      BY <1>1 DEF e
    <3>3. v <= Len(Units(p, d))
      BY <3>1, <3>2
    <3> QED BY <1>1, <3>3, UnitsType
  <2> QED BY <1>12, <2>1, DropIs
<1> QED BY <1>4, <1>6, <1>12, <1>13 DEF q

\* A round keeps the units that will be left, and ends an entry or the deal.
LEMMA RoundKeeps ==
  ASSUME NEW c \in Using, NEW d, Queue(c.queue, d)
  PROVE  /\ Round(c) \in Using /\ Queue(Round(c).queue, d)
         /\ Drop(Units(Round(c).queue, d), Round(c).volume)
              = Drop(Units(c.queue, d), c.volume)
         /\ Len(Units(Round(c).queue, d)) - Round(c).volume
              = Len(Units(c.queue, d)) - c.volume
         /\ \/ Round(c).volume = 0
            \/ c.queue = <<>> /\ Round(c).queue = <<>>
            \/ Len(Round(c).queue) = Len(c.queue) - 1
<1> DEFINE p == c.queue
           v == c.volume
<1>1. c = [queue |-> p, volume |-> v] /\ p \in Seq(Entry) /\ v \in Nat
  BY DEF Using
<1>2. CASE v = 0 \/ p = <<>>
  <2>1. Round(c) = c
    BY <1>2 DEF Round
  <2> QED BY <1>2, <2>1
<1>3. CASE v # 0 /\ p # <<>> /\ Head(p).volume > v
  <2> DEFINE q == FirstLess(p, v)
  <2>1. Round(c) = [queue |-> q, volume |-> 0]
    BY <1>3 DEF Round, FirstLess
  <2>2. v < Head(p).volume
    <3>1. Head(p).volume \in Nat
      BY <1>3, QueueFirst
    <3> QED BY <1>1, <1>3, <3>1
  <2>3. /\ Queue(q, d) /\ Units(q, d) = Drop(Units(p, d), v)
        /\ Len(Units(q, d)) = Len(Units(p, d)) - v
    <3> HIDE DEF p, v
    <3> QED BY <1>1, <1>3, <2>2, FirstPart DEF p
  <2> HIDE DEF q
  <2>4. q \in Seq(Entry) /\ Units(q, d) \in Seq(Int) /\ Len(Units(q, d)) \in Nat
    BY <2>3, UnitsType DEF Queue
  <2>5. Drop(Units(q, d), 0) = Units(q, d)
    BY <2>4, DropZero
  <2>6. Round(c).queue = q /\ Round(c).volume = 0 /\ Round(c) \in Using
    BY <2>1, <2>4 DEF Using
  <2> QED BY <2>3, <2>4, <2>5, <2>6
<1>4. CASE v # 0 /\ p # <<>> /\ ~(Head(p).volume > v)
  <2> DEFINE q == Tail(p)
             m == Head(p).volume
  <2>1. Round(c) = [queue |-> q, volume |-> v - m]
    BY <1>4 DEF Round
  <2>2. /\ Queue(q, d) /\ Len(q) = Len(p) - 1 /\ m \in Nat \ {0} /\ Head(p) \in Entry
        /\ Units(p, d) = UnitsOf(Head(p), d) \o Units(q, d)
        /\ Len(UnitsOf(Head(p), d)) = m
        /\ Len(Units(p, d)) = m + Len(Units(q, d)) /\ Len(Units(q, d)) \in Nat
    <3> HIDE DEF p
    <3> QED BY <1>4, QueueFirst DEF p
  <2>3. m <= v /\ v - m \in Nat
    BY <1>1, <1>4, <2>2
  <2> HIDE DEF q, m
  <2>4. q \in Seq(Entry) /\ Units(q, d) \in Seq(Int) /\ UnitsOf(Head(p), d) \in Seq(Int)
    BY <2>2, UnitsType, UnitsOfType DEF Queue
  <2>5. Drop(Units(p, d), v) = Drop(Units(q, d), v - m)
    BY <1>1, <2>2, <2>3, <2>4, DropRight
  <2>6. Round(c).queue = q /\ Round(c).volume = v - m /\ Round(c) \in Using
    BY <2>1, <2>3, <2>4 DEF Using
  <2>7. Len(Units(q, d)) - (v - m) = Len(Units(p, d)) - v
    BY <1>1, <2>2
  <2> QED BY <2>2, <2>5, <2>6, <2>7
<1> QED BY <1>2, <1>3, <1>4

RoundsLoop(g, p, v, d) ==
    /\ \A k \in 0..Len(p) : g[k] \in Using /\ Queue(g[k].queue, d)
    /\ g[0] = [queue |-> p, volume |-> v]
    /\ \A k \in 1..Len(p) : g[k] = Round(g[k - 1])

LEMMA RoundsAre ==
  ASSUME NEW p, NEW d, Queue(p, d), NEW v \in Nat
  PROVE  RoundsLoop(Rounds(p, v), p, v, d)
<1> DEFINE n == Len(p)
           c == [queue |-> p, volume |-> v]
           X == {x \in Using : Queue(x.queue, d)}
           Defines(g) == g = [k \in 0..Len(p) |-> IF k = 0 THEN [queue |-> p, volume |-> v]
                                                  ELSE Round(g[k - 1])]
           G == [k \in 1..n |-> [x \in X |-> Round(x)]]
<1>1. n \in Nat /\ p \in Seq(Entry)
  BY DEF Queue
<1>2. c \in X
  <2>1. c \in Using /\ c.queue = p
    BY <1>1 DEF Using
  <2> QED BY <2>1
<1>3. ASSUME NEW k \in 1..n, NEW x \in X
      PROVE  G[k][x] \in X /\ G[k][x] = Round(x)
  <2>1. Round(x) \in X
    BY RoundKeeps
  <2> QED BY <2>1
<1> HIDE DEF G, c
<1>4. PICK h : LoopOf(h, X, c, n, G)
  <2>1. StaysIn(X, n, G)
    <3> HIDE DEF X
    <3> QED BY <1>3 DEF StaysIn
  <2> HIDE DEF X
  <2> QED BY <1>1, <1>2, <2>1, LoopExists
<1>5. h \in [0..n -> X] /\ h[0] = c /\ \A k \in 1..n : h[k] = Round(h[k - 1])
  <2> HIDE DEF X
  <2>1. \A k \in 1..n : h[k - 1] \in X
    BY <1>1, <1>4 DEF LoopOf
  <2> QED BY <1>3, <1>4, <2>1 DEF LoopOf
<1>6. Defines(h)
  <2> HIDE DEF X
  <2>1. ASSUME NEW k \in 0..n PROVE h[k] = IF k = 0 THEN c ELSE Round(h[k - 1])
    <3>1. k # 0 => k \in 1..n
      BY <1>1
    <3> QED BY <1>5, <3>1, Zenon
  <2>2. h = [k \in 0..n |-> h[k]]
    BY <1>5
  <2> QED BY <2>1, <2>2 DEF c
<1> DEFINE g == CHOOSE g : Defines(g)
<1>7. Defines(g) /\ Rounds(p, v) = g
  <2>1. Defines(g)
    <3> HIDE DEF Defines
    <3> QED BY <1>6
  <2> QED BY <2>1, Zenon DEF Rounds
<1> HIDE DEF g
<1>8. g[0] = c /\ \A k \in 1..n : g[k] = Round(g[k - 1])
  <2>1. 0 \in 0..n /\ \A k \in 1..n : k \in 0..n /\ k # 0
    BY <1>1
  <2> QED BY <1>7, <2>1, Zenon DEF c
<1>9. \A k \in 0..n : g[k] = h[k]
  <2>1. Alike(n, g, h)
    BY <1>5, <1>8 DEF Alike
  <2>2. Agree(n, g, h)
    BY <1>1, <2>1, LoopsAgree
  <2> QED BY <2>2 DEF Agree
<1>10. \A k \in 0..n : g[k] \in X
  BY <1>5, <1>9
<1> QED BY <1>7, <1>8, <1>10 DEF RoundsLoop, c

LEMMA RoundsEnd ==
  ASSUME NEW p, NEW d, Queue(p, d), NEW v \in Nat, NEW c, c = Rounds(p, v)[Len(p)]
  PROVE  /\ c \in Using /\ Queue(c.queue, d)
         /\ Drop(Units(c.queue, d), c.volume) = Drop(Units(p, d), v)
         /\ Len(Units(c.queue, d)) - c.volume = Len(Units(p, d)) - v
         /\ c.volume = 0 \/ c.queue = <<>>
<1> DEFINE n == Len(p)
           g == Rounds(p, v)
           Holds(x, k) == /\ Drop(Units(x.queue, d), x.volume) = Drop(Units(p, d), v)
                          /\ Len(Units(x.queue, d)) - x.volume = Len(Units(p, d)) - v
                          /\ x.volume = 0 \/ Len(x.queue) = n - k
           S == {k \in 0..n : Holds(g[k], k)}
<1>1. n \in Nat /\ p \in Seq(Entry)
  BY DEF Queue
<1>2. /\ \A k \in 0..n : g[k] \in Using /\ Queue(g[k].queue, d)
      /\ g[0] = [queue |-> p, volume |-> v]
      /\ \A k \in 1..n : g[k] = Round(g[k - 1])
  BY RoundsAre DEF RoundsLoop
<1> HIDE DEF g
<1>3. 0 \in S
  <2>1. Holds(g[0], 0)
    BY <1>1, <1>2
  <2> HIDE DEF Holds
  <2> QED BY <1>1, <2>1
<1>4. ASSUME NEW k \in 1..n, k - 1 \in S PROVE k \in S
  <2> DEFINE x == g[k - 1]
             y == g[k]
  <2>1. /\ k - 1 \in 0..n /\ k \in 0..n /\ x \in Using /\ Queue(x.queue, d) /\ y = Round(x)
    BY <1>1, <1>2
  <2>2. Holds(x, k - 1)
    BY <1>4
  <2> HIDE DEF x, y
  <2>3. /\ Drop(Units(y.queue, d), y.volume) = Drop(Units(x.queue, d), x.volume)
        /\ Len(Units(y.queue, d)) - y.volume = Len(Units(x.queue, d)) - x.volume
        /\ \/ y.volume = 0
           \/ x.queue = <<>> /\ y.queue = <<>>
           \/ Len(y.queue) = Len(x.queue) - 1
    BY <2>1, RoundKeeps
  <2>4. x.volume = 0 => y.volume = 0
    BY <2>1 DEF Round
  <2>5. y.volume = 0 \/ Len(y.queue) = n - k
    <3>1. CASE x.volume = 0
      BY <2>4, <3>1
    <3>2. CASE x.volume # 0
      <4>1. Len(x.queue) = n - (k - 1)
        BY <2>2, <3>2
      <4>2. x.queue # <<>>
        BY <1>1, <4>1
      <4> QED BY <1>1, <2>3, <4>1, <4>2
    <3> QED BY <3>1, <3>2
  <2>6. Holds(y, k)
    BY <2>2, <2>3, <2>5
  <2> HIDE DEF Holds
  <2> QED BY <2>1, <2>6 DEF y
<1>5. n \in S
  <2>1. \A k \in 1..n : k - 1 \in S => k \in S
    BY <1>4
  <2>2. \A k \in 0..n : k \in S
    <3> HIDE DEF S
    <3> QED BY <1>1, <1>3, <2>1, Steps
  <2>3. n \in 0..n
    BY <1>1
  <2> QED BY <2>2, <2>3, Zenon
<1>6. c = g[n] /\ c \in Using /\ Queue(c.queue, d) /\ Holds(c, n)
  <2>1. n \in 0..n
    BY <1>1
  <2>2. c = g[n]
    BY DEF g
  <2> HIDE DEF Holds
  <2> QED BY <1>2, <1>5, <2>1, <2>2
<1>7. c.volume = 0 \/ c.queue = <<>>
  <2>1. c.queue \in Seq(Entry)
    BY <1>6 DEF Queue
  <2>2. c.volume = 0 \/ Len(c.queue) = 0
    BY <1>1, <1>6
  <2> QED BY <2>1, <2>2
<1> QED BY <1>6, <1>7

-----------------------------------------------------------------------------
(* What a deal makes of the position *)

LEMMA NoQueue == \A d : Queue(<<>>, d)
BY DEF Queue

LEMMA QueueNext ==
  ASSUME NEW p, NEW d, Queue(p, d), NEW e \in Entry, IsFill(e), e.dir = d, e.volume > 0
  PROVE  /\ Queue(Append(p, e), d) /\ Append(p, e) # <<>>
         /\ Units(Append(p, e), d) = Units(p, d) \o UnitsOf(e, d)
<1>1. p \in Seq(Entry)
  BY DEF Queue
<1>2. /\ Append(p, e) \in Seq(Entry) /\ Len(Append(p, e)) = Len(p) + 1 /\ Len(p) \in Nat
      /\ \A k \in 1..Len(p) : Append(p, e)[k] = p[k]
      /\ Append(p, e)[Len(p) + 1] = e
  BY <1>1, AppendIs
<1>3. ASSUME NEW k \in 1..Len(Append(p, e))
      PROVE  LET f == Append(p, e)[k] IN IsFill(f) /\ f.dir = d /\ f.volume > 0
  <2>1. k \in 1..Len(p) \/ k = Len(p) + 1
    BY <1>2
  <2>2. CASE k \in 1..Len(p)
    BY <1>2, <2>2 DEF Queue
  <2>3. CASE k = Len(p) + 1
    BY <1>2, <2>3
  <2> QED BY <2>1, <2>2, <2>3
<1>4. Queue(Append(p, e), d)
  BY <1>2, <1>3 DEF Queue
<1>5. Append(p, e) # <<>>
  <2>1. Len(<<>>) = 0 /\ Len(p) + 1 # 0
    BY <1>2
  <2>2. Len(Append(p, e)) # Len(<<>>)
    BY <1>2, <2>1
  <2> QED BY <2>2, Zenon
<1>6. Units(Append(p, e), d) = Units(p, d) \o UnitsOf(e, d)
  BY <1>1, UnitsNext
<1> QED BY <1>4, <1>5, <1>6

\* A deal that the entries cover takes its units from the front of the queue.
LEMMA ConsumedCovered ==
  ASSUME NEW p, NEW o, Queue(p, o), NEW e \in Entry, e.volume <= Len(Units(p, o))
  PROVE  /\ Queue(Consumed(p, e), o)
         /\ Units(Consumed(p, e), o) = Drop(Units(p, o), e.volume)
<1> DEFINE v == e.volume
           c == Rounds(p, v)[Len(p)]
<1>1. v \in Nat
  BY EntryType
<1>2. /\ c \in Using /\ Queue(c.queue, o)
      /\ Drop(Units(c.queue, o), c.volume) = Drop(Units(p, o), v)
      /\ Len(Units(c.queue, o)) - c.volume = Len(Units(p, o)) - v
      /\ c.volume = 0 \/ c.queue = <<>>
  <2> HIDE DEF v
  <2> QED BY <1>1, RoundsEnd
<1>3. Consumed(p, e) = IF c.volume = 0 THEN c.queue
                       ELSE Append(c.queue, [e EXCEPT !.volume = c.volume])
  BY DEF Consumed
<1> HIDE DEF c
<1>4. p \in Seq(Entry) /\ c.queue \in Seq(Entry) /\ c.volume \in Nat
  BY <1>2 DEF Queue, Using
<1>5. c.volume = 0
  <2>1. CASE c.queue = <<>>
    <3>1. Len(Units(c.queue, o)) = 0
      BY <2>1, UnitsNone
    <3>2. Len(Units(p, o)) \in Nat
      BY <1>4, UnitsType
    <3> QED BY <1>1, <1>2, <1>4, <3>1, <3>2
  <2> QED BY <1>2, <2>1
<1>6. Units(c.queue, o) \in Seq(Int)
  BY <1>4, UnitsType
<1>7. Drop(Units(c.queue, o), 0) = Units(c.queue, o)
  BY <1>6, DropZero
<1> QED BY <1>2, <1>3, <1>5, <1>7

\* What the entries do not cover of a deal is a position of its own.
LEMMA ConsumedBeyond ==
  ASSUME NEW p, NEW o, Queue(p, o), NEW e \in Entry, IsFill(e), Len(Units(p, o)) < e.volume
  PROVE  /\ Queue(Consumed(p, e), e.dir)
         /\ Consumed(p, e) # <<>>
         /\ Units(Consumed(p, e), e.dir) = Drop(UnitsOf(e, e.dir), Len(Units(p, o)))
<1> DEFINE v == e.volume
           c == Rounds(p, v)[Len(p)]
           m == Len(Units(p, o))
           f == [e EXCEPT !.volume = c.volume]
<1>1. v \in Nat
  BY EntryType
<1>2. /\ c \in Using /\ Queue(c.queue, o)
      /\ Len(Units(c.queue, o)) - c.volume = Len(Units(p, o)) - v
      /\ c.volume = 0 \/ c.queue = <<>>
  <2> HIDE DEF v
  <2> QED BY <1>1, RoundsEnd
<1>3. Consumed(p, e) = IF c.volume = 0 THEN c.queue ELSE Append(c.queue, f)
  BY DEF Consumed
<1> HIDE DEF c
<1>4. p \in Seq(Entry) /\ c.queue \in Seq(Entry) /\ c.volume \in Nat
  BY <1>2 DEF Queue, Using
<1>5. m \in Nat /\ Len(Units(c.queue, o)) \in Nat
  BY <1>4, UnitsType
<1>6. c.volume # 0
  BY <1>1, <1>2, <1>4, <1>5
<1>7. c.queue = <<>> /\ c.volume = v - m
  <2>1. c.queue = <<>>
    BY <1>2, <1>6
  <2>2. Len(Units(c.queue, o)) = 0
    BY <2>1, UnitsNone
  <2> HIDE DEF v, m
  <2> QED BY <1>1, <1>2, <1>4, <1>5, <2>1, <2>2 DEF m
<1>8. f \in Entry /\ f.volume = c.volume /\ f.price = e.price /\ f.dir = e.dir /\ IsFill(f)
  BY <1>4, EntryPart DEF IsFill
<1> HIDE DEF f
<1>9. /\ Queue(Append(<<>>, f), e.dir) /\ Append(<<>>, f) # <<>>
      /\ Units(Append(<<>>, f), e.dir) = Units(<<>>, e.dir) \o UnitsOf(f, e.dir)
  <2>1. f.volume > 0
    BY <1>4, <1>6, <1>8
  <2> QED BY <1>8, <2>1, NoQueue, QueueNext
<1>10. UnitsOf(f, e.dir) = Drop(UnitsOf(e, e.dir), m)
  <2> DEFINE l == UnitsOf(f, e.dir)
             u == UnitsOf(e, e.dir)
             r == Drop(u, m)
  <2>1. l \in Seq(Int) /\ Len(l) = v - m /\ \A k \in 1..Len(l) : l[k] = e.price
    BY <1>7, <1>8, UnitsOfType
  <2>2. u \in Seq(Int) /\ Len(u) = v /\ \A k \in 1..v : u[k] = e.price
    BY UnitsOfType
  <2> HIDE DEF l, u
  <2>3. m <= v
    BY <1>1, <1>5
  <2> HIDE DEF v, m
  <2>4. r \in Seq(Int) /\ Len(r) = v - m /\ \A k \in 1..Len(r) : r[k] = u[m + k]
    BY <1>5, <2>2, <2>3, DropIs
  <2> HIDE DEF r
  <2>5. \A k \in 1..Len(l) : l[k] = r[k]
    <3>1. \A k \in 1..Len(l) : m + k \in 1..v
      BY <1>1, <1>5, <2>1
    <3> QED BY <2>1, <2>2, <2>4, <3>1
  <2>6. l = r
    BY <2>1, <2>4, <2>5, SameSequence
  <2> QED BY <2>6 DEF l, r, u
<1>11. Units(<<>>, e.dir) \o UnitsOf(f, e.dir) = UnitsOf(f, e.dir)
  <2>1. UnitsOf(f, e.dir) \in Seq(Int)
    BY <1>8, UnitsOfType
  <2>2. <<>> \o UnitsOf(f, e.dir) = UnitsOf(f, e.dir)
    BY <2>1
  <2> QED BY <2>2, UnitsNone
<1>12. Consumed(p, e) = Append(<<>>, f)
  BY <1>3, <1>6, <1>7
<1> QED BY <1>9, <1>10, <1>11, <1>12

-----------------------------------------------------------------------------
(* The position after each event *)

\* Logs whose deals have a volume, and positions of one side
Deals(s) == s \in Seq(Entry) /\ \A k \in 1..Len(s) : IsFill(s[k]) => s[k].volume > 0

OneSided == {p \in Seq(Entry) : \E d \in Dirs : Queue(p, d)}

LEMMA SameSide ==
  ASSUME NEW p, NEW d, Queue(p, d), p # <<>>
  PROVE  Last(p).dir = d /\ p[1].dir = d
<1>1. p \in Seq(Entry)
  BY DEF Queue
<1>2. Len(p) \in 1..Len(p) /\ 1 \in 1..Len(p)
  BY <1>1
<1> QED BY <1>2 DEF Last, Queue

LEMMA DealtKeeps ==
  ASSUME NEW p \in OneSided, NEW e \in Entry, IsFill(e), e.volume > 0
  PROVE  Dealt(p, e) \in OneSided
<1>1. e.dir \in Dirs
  BY EntryType
<1>2. ASSUME NEW q, NEW d \in Dirs, Queue(q, d) PROVE q \in OneSided
  BY <1>2 DEF OneSided, Queue
<1>3. CASE p = <<>>
  <2>1. Queue(Append(p, e), e.dir)
    BY <1>3, NoQueue, QueueNext
  <2>2. Append(p, e) \in OneSided
    BY <1>1, <1>2, <2>1
  <2> QED BY <1>3, <2>2 DEF Dealt
<1>4. CASE p # <<>>
  <2>1. PICK d \in Dirs : Queue(p, d)
    BY DEF OneSided
  <2>2. Last(p).dir = d
    BY <1>4, <2>1, SameSide
  <2>3. CASE e.dir = d
    <3>1. Queue(Append(p, e), d)
      BY <2>1, <2>3, QueueNext
    <3>2. Append(p, e) \in OneSided
      BY <1>2, <3>1
    <3> QED BY <2>2, <2>3, <3>2 DEF Dealt
  <2>4. CASE e.dir # d
    <3>1. Dealt(p, e) = Consumed(p, e)
      BY <1>4, <2>2, <2>4 DEF Dealt
    <3>2. CASE e.volume <= Len(Units(p, d))
      <4>1. Queue(Consumed(p, e), d)
        BY <2>1, <3>2, ConsumedCovered
      <4> QED BY <1>2, <3>1, <4>1
    <3>3. CASE Len(Units(p, d)) < e.volume
      <4>1. Queue(Consumed(p, e), e.dir)
        BY <2>1, <3>3, ConsumedBeyond
      <4> QED BY <1>1, <1>2, <3>1, <4>1
    <3>4. Len(Units(p, d)) \in Nat /\ e.volume \in Nat
      BY <2>1, UnitsType, EntryType DEF Queue
    <3> QED BY <3>2, <3>3, <3>4
  <2> QED BY <2>3, <2>4
<1> QED BY <1>3, <1>4

\* The position p after one more event
After(p, e) == IF IsFill(e) THEN Dealt(p, e) ELSE p

PositionsLoop(g, s) ==
    /\ \A k \in 0..Len(s) : g[k] \in OneSided
    /\ g[0] = <<>>
    /\ \A k \in 1..Len(s) : g[k] = After(g[k - 1], s[k])

LEMMA PositionsAre ==
  ASSUME NEW s, Deals(s)
  PROVE  PositionsLoop(Positions(s), s)
<1> DEFINE n == Len(s)
           X == OneSided
           Defines(g) == g = [k \in 0..Len(s) |->
                                IF k = 0 THEN <<>>
                                ELSE IF IsFill(s[k]) THEN Dealt(g[k - 1], s[k]) ELSE g[k - 1]]
           G == [k \in 1..n |-> [x \in X |-> After(x, s[k])]]
<1>1. /\ n \in Nat /\ s \in Seq(Entry)
      /\ \A k \in 1..n : s[k] \in Entry /\ (IsFill(s[k]) => s[k].volume > 0)
  BY DEF Deals
<1>2. <<>> \in X
  BY NoQueue DEF OneSided, Dirs
<1>3. ASSUME NEW k \in 1..n, NEW x \in X
      PROVE  G[k][x] \in X /\ G[k][x] = After(x, s[k])
  <2>1. After(x, s[k]) \in X
    BY <1>1, DealtKeeps DEF After
  <2> QED BY <2>1
<1> HIDE DEF G, X
<1>4. PICK h : LoopOf(h, X, <<>>, n, G)
  <2>1. StaysIn(X, n, G)
    BY <1>3 DEF StaysIn
  <2> QED BY <1>1, <1>2, <2>1, LoopExists
<1>5. h \in [0..n -> X] /\ h[0] = <<>> /\ \A k \in 1..n : h[k] = After(h[k - 1], s[k])
  <2>1. \A k \in 1..n : h[k - 1] \in X
    BY <1>1, <1>4 DEF LoopOf
  <2> QED BY <1>3, <1>4, <2>1 DEF LoopOf
<1>6. Defines(h)
  <2>1. ASSUME NEW k \in 0..n
        PROVE  h[k] = IF k = 0 THEN <<>>
                      ELSE IF IsFill(s[k]) THEN Dealt(h[k - 1], s[k]) ELSE h[k - 1]
    <3>1. k # 0 => k \in 1..n
      BY <1>1
    <3>2. k # 0 => h[k] = After(h[k - 1], s[k])
      BY <1>5, <3>1, Zenon
    <3> QED BY <1>5, <3>2, Zenon DEF After
  <2>2. h = [k \in 0..n |-> h[k]]
    BY <1>5
  <2> QED BY <2>1, <2>2
<1> DEFINE g == CHOOSE g : Defines(g)
<1>7. Defines(g) /\ Positions(s) = g
  <2>1. Defines(g)
    <3> HIDE DEF Defines
    <3> QED BY <1>6
  <2> QED BY <2>1, Zenon DEF Positions
<1> HIDE DEF g
<1>8. g[0] = <<>> /\ \A k \in 1..n : g[k] = After(g[k - 1], s[k])
  <2>1. 0 \in 0..n /\ \A k \in 1..n : k \in 0..n /\ k # 0
    BY <1>1
  <2> QED BY <1>7, <2>1, Zenon DEF After
<1>9. \A k \in 0..n : g[k] = h[k]
  <2>1. Alike(n, g, h)
    BY <1>5, <1>8 DEF Alike
  <2>2. Agree(n, g, h)
    BY <1>1, <2>1, LoopsAgree
  <2> QED BY <2>2 DEF Agree
<1>10. \A k \in 0..n : g[k] \in X
  BY <1>5, <1>9
<1> QED BY <1>7, <1>8, <1>10 DEF PositionsLoop, X

LEMMA PositionType ==
  ASSUME NEW s, Deals(s)
  PROVE  Position(s) \in OneSided
<1>1. Len(s) \in 0..Len(s)
  BY DEF Deals
<1> QED BY <1>1, PositionsAre DEF PositionsLoop, Position

LEMMA PositionNone == Position(<<>>) = <<>>
<1>1. Deals(<<>>) /\ Len(<<>>) = 0
  BY DEF Deals
<1> QED BY <1>1, PositionsAre DEF PositionsLoop, Position

LEMMA DealsNext ==
  ASSUME NEW s, Deals(s), NEW e \in Entry, IsFill(e) => e.volume > 0
  PROVE  Deals(Append(s, e))
<1>1. s \in Seq(Entry)
  BY DEF Deals
<1>2. /\ Append(s, e) \in Seq(Entry) /\ Len(Append(s, e)) = Len(s) + 1 /\ Len(s) \in Nat
      /\ \A k \in 1..Len(s) : Append(s, e)[k] = s[k]
      /\ Append(s, e)[Len(s) + 1] = e
  BY <1>1, AppendIs
<1>3. ASSUME NEW k \in 1..Len(Append(s, e))
      PROVE  IsFill(Append(s, e)[k]) => Append(s, e)[k].volume > 0
  <2>1. k \in 1..Len(s) \/ k = Len(s) + 1
    BY <1>2
  <2> QED BY <1>2, <2>1 DEF Deals
<1> QED BY <1>2, <1>3 DEF Deals

LEMMA PositionNext ==
  ASSUME NEW s, Deals(s), NEW e \in Entry, IsFill(e) => e.volume > 0
  PROVE  Position(Append(s, e)) = After(Position(s), e)
<1> DEFINE n == Len(s)
           t == Append(s, e)
           g == Positions(s)
           h == Positions(t)
<1>1. s \in Seq(Entry) /\ Deals(t)
  BY DealsNext DEF Deals
<1>2. Len(t) = n + 1 /\ n \in Nat /\ t[n + 1] = e /\ \A k \in 1..n : t[k] = s[k]
  BY <1>1, AppendIs
<1>3. Position(s) = g[n] /\ Position(t) = h[n + 1]
  BY <1>2 DEF Position
<1> HIDE DEF t
<1>4. PositionsLoop(g, s) /\ PositionsLoop(h, t)
  BY <1>1, PositionsAre
<1> HIDE DEF g, h
<1>5. Agree(n, h, g)
  <2>1. ASSUME NEW k \in 1..n PROVE g[k] = After(g[k - 1], s[k]) /\ h[k] = After(h[k - 1], s[k])
    <3>1. k \in 1..Len(t) /\ t[k] = s[k]
      BY <1>2
    <3> QED BY <1>4, <3>1 DEF PositionsLoop
  <2>2. Alike(n, h, g)
    BY <1>4, <2>1 DEF Alike, PositionsLoop
  <2> QED BY <1>2, <2>2, LoopsAgree
<1>6. h[n + 1] = After(h[n], e)
  <2>1. n + 1 \in 1..Len(t) /\ (n + 1) - 1 = n
    BY <1>2
  <2> QED BY <1>2, <1>4, <2>1 DEF PositionsLoop
<1>7. h[n] = g[n]
  BY <1>2, <1>5, n \in 0..n DEF Agree
<1> QED BY <1>3, <1>6, <1>7 DEF t

-----------------------------------------------------------------------------
(* The books: what the position leaves of the units of the two sides *)

Other(d) == IF d = "Bid" THEN "Ask" ELSE "Bid"

Books(s) ==
    \A d \in Dirs : Units(Position(s), d) = Drop(Units(s, d), Len(Units(s, Other(d))))

LEMMA BooksNone == Books(<<>>)
<1>1. \A d : Units(<<>>, d) = <<>>
  BY UnitsNone
<1>2. Drop(<<>>, Len(<<>>)) = <<>>
  <2>1. <<>> \in Seq(Int) /\ Len(<<>>) = 0 /\ 0 \in Nat /\ Len(<<>>) <= 0
    OBVIOUS
  <2> QED BY <2>1, DropNone
<1> QED BY <1>1, <1>2, PositionNone DEF Books

LEMMA DirsTwo ==
  ASSUME NEW d \in Dirs
  PROVE  Other(d) \in Dirs /\ Other(d) # d /\ Other(Other(d)) = d /\ Dirs = {d, Other(d)}
BY DEF Dirs, Other

LEMMA BooksNext ==
  ASSUME NEW s, Deals(s), Books(s), NEW e \in Entry, IsFill(e) => e.volume > 0
  PROVE  Books(Append(s, e))
<1> DEFINE p == Position(s)
           t == Append(s, e)
           d == e.dir
           o == Other(e.dir)
           U == Units(s, d)
           W == Units(s, o)
           c == UnitsOf(e, d)
<1>1. s \in Seq(Entry) /\ p \in OneSided /\ p \in Seq(Entry) /\ d \in Dirs
  BY PositionType, EntryType DEF Deals, OneSided
<1>2. o \in Dirs /\ o # d /\ Other(o) = d /\ Dirs = {d, o}
  BY <1>1, DirsTwo
<1>3. Position(t) = After(p, e)
  BY PositionNext
<1>4. \A x : Units(t, x) = Units(s, x) \o UnitsOf(e, x)
  BY <1>1, UnitsNext
<1>5. Units(p, d) = Drop(U, Len(W)) /\ Units(p, o) = Drop(W, Len(U))
  BY <1>1, <1>2 DEF Books
<1>6. /\ U \in Seq(Int) /\ W \in Seq(Int) /\ Len(U) \in Nat /\ Len(W) \in Nat
      /\ U \o <<>> = U /\ W \o <<>> = W
  <2>1. U \in Seq(Int) /\ W \in Seq(Int) /\ Len(U) \in Nat /\ Len(W) \in Nat
    BY <1>1, UnitsType
  <2> HIDE DEF U, W
  <2> QED BY <2>1
<1> HIDE DEF p, t, d, o, U, W, c
<1>7. Units(t, o) = W
  <2>1. UnitsOf(e, o) = <<>>
    BY <1>2 DEF UnitsOf, d
  <2> QED BY <1>4, <1>6, <2>1 DEF W
<1>8. CASE ~IsFill(e)
  <2>1. c = <<>>
    BY <1>8 DEF UnitsOf, c
  <2>2. Units(t, d) = U
    BY <1>4, <1>6, <2>1 DEF c, U
  <2>3. Position(t) = p
    BY <1>3, <1>8 DEF After
  <2> QED BY <1>2, <1>5, <1>7, <2>2, <2>3 DEF Books, o, t, d
<1>9. CASE IsFill(e)
  <2>1. /\ c \in Seq(Int) /\ Len(c) = e.volume /\ e.volume \in Nat /\ e.volume > 0
        /\ Units(t, d) = U \o c
    BY <1>4, <1>9, UnitsOfType, EntryType DEF c, U, d
  <2>2. Len(U \o c) = Len(U) + e.volume /\ U \o c \in Seq(Int)
    <3>1. Len(U \o c) = Len(U) + Len(c) /\ U \o c \in Seq(Int)
      BY <1>6, <2>1, ConcatIs
    <3> QED BY <2>1, <3>1, Zenon
  <2>3. Position(t) = Dealt(p, e)
    BY <1>3, <1>9 DEF After
  <2> DEFINE q == Dealt(p, e)
  <2>4. /\ Units(q, d) = Drop(U \o c, Len(W))
        /\ Units(q, o) = Drop(W, Len(U) + e.volume)
    <3>1. CASE p = <<>> \/ Queue(p, d)
      <4>1. Queue(p, d) /\ q = Append(p, e)
        <5>1. Queue(p, d)
          BY <3>1, NoQueue
        <5>2. p # <<>> => Last(p).dir = e.dir
          BY <5>1, SameSide DEF d
        <5> QED BY <5>1, <5>2 DEF Dealt
      <4>2. /\ Queue(q, d) /\ Units(q, d) = Units(p, d) \o c
        BY <1>9, <2>1, <4>1, QueueNext DEF c, d
      <4>3. Units(q, o) = <<>> /\ Units(p, o) = <<>>
        BY <1>2, <4>1, <4>2, OtherSide
      <4>4. Len(W) <= Len(U)
        <5>1. Len(Drop(W, Len(U))) = IF Len(U) <= Len(W) THEN Len(W) - Len(U) ELSE 0
          BY <1>6, DropIs
        <5>2. Len(Drop(W, Len(U))) = 0
          BY <1>5, <4>3
        <5> QED BY <1>6, <5>1, <5>2
      <4>5. Drop(U \o c, Len(W)) = Drop(U, Len(W)) \o c
        BY <1>6, <2>1, <4>4, DropLeft
      <4>6. Drop(W, Len(U) + e.volume) = <<>>
        <5>1. Len(U) + e.volume \in Nat /\ Len(W) <= Len(U) + e.volume
          BY <1>6, <2>1, <4>4
        <5> QED BY <1>6, <5>1, DropNone
      <4> QED BY <1>5, <4>2, <4>3, <4>5, <4>6
    <3>2. CASE p # <<>> /\ Queue(p, o)
      <4>1. q = Consumed(p, e)
        <5>1. Last(p).dir = o
          BY <3>2, SameSide
        <5> QED BY <1>2, <3>2, <5>1 DEF Dealt, d
      <4> DEFINE m == Len(Units(p, o))
      <4>2. Len(U) < Len(W) /\ m = Len(W) - Len(U) /\ m \in Nat
        <5>1. Len(Drop(W, Len(U))) = IF Len(U) <= Len(W) THEN Len(W) - Len(U) ELSE 0
          BY <1>6, DropIs
        <5>2. m > 0
          <6>1. /\ m = Head(p).volume + Len(Units(Tail(p), o)) /\ Head(p).volume \in Nat \ {0}
                /\ Len(Units(Tail(p), o)) \in Nat
            BY <3>2, QueueFirst
          <6> HIDE DEF m
          <6> QED BY <6>1
        <5>3. m = Len(Drop(W, Len(U)))
          BY <1>5
        <5> HIDE DEF m
        <5> QED BY <1>6, <5>1, <5>2, <5>3
      <4>3. CASE e.volume <= m
        <5>1. Queue(q, o) /\ Units(q, o) = Drop(Units(p, o), e.volume)
          BY <3>2, <4>1, <4>3, ConsumedCovered
        <5>2. Units(q, d) = <<>>
          BY <1>2, <5>1, OtherSide
        <5>3. Drop(Drop(W, Len(U)), e.volume) = Drop(W, Len(U) + e.volume)
          <6>1. Len(U) <= Len(W)
            BY <1>6, <4>2
          <6> QED BY <1>6, <2>1, <6>1, DropTwice
        <5>4. Drop(U \o c, Len(W)) = <<>>
          <6>1. Len(U \o c) <= Len(W)
            <7> HIDE DEF m
            <7> QED BY <1>6, <2>1, <2>2, <4>2, <4>3
          <6> QED BY <1>6, <2>2, <6>1, DropNone
        <5> QED BY <1>5, <5>1, <5>2, <5>3, <5>4
      <4>4. CASE m < e.volume
        <5>1. Queue(q, d) /\ Units(q, d) = Drop(c, m)
          BY <1>9, <3>2, <4>1, <4>4, ConsumedBeyond DEF d, c
        <5>2. Units(q, o) = <<>>
          BY <1>2, <5>1, OtherSide
        <5> HIDE DEF m
        <5>3. Drop(U \o c, Len(W)) = Drop(c, m)
          <6>1. Len(U) <= Len(W) /\ Len(W) - Len(U) = m
            BY <1>6, <4>2
          <6>2. Drop(U \o c, Len(W)) = Drop(c, Len(W) - Len(U))
            BY <1>6, <2>1, <6>1, DropRight
          <6> QED BY <6>1, <6>2
        <5>4. Drop(W, Len(U) + e.volume) = <<>>
          <6>1. Len(U) + e.volume \in Nat /\ Len(W) <= Len(U) + e.volume
            BY <1>6, <2>1, <4>2, <4>4
          <6> QED BY <1>6, <6>1, DropNone
        <5> QED BY <5>1, <5>2, <5>3, <5>4
      <4> HIDE DEF m
      <4> QED BY <2>1, <4>2, <4>3, <4>4
    <3>3. p = <<>> \/ Queue(p, d) \/ Queue(p, o)
      BY <1>1, <1>2 DEF OneSided
    <3> QED BY <3>1, <3>2, <3>3
  <2> HIDE DEF q
  <2>5. Len(Units(t, d)) = Len(U) + e.volume
    BY <2>1, <2>2
  <2> QED BY <1>2, <1>7, <2>1, <2>3, <2>4, <2>5 DEF Books, o, t, d, q
<1> QED BY <1>8, <1>9

-----------------------------------------------------------------------------
(* What the properties say, of any log *)

LEMMA BooksLengths ==
  ASSUME NEW s, Deals(s), Books(s), NEW d \in Dirs
  PROVE  /\ Units(s, d) \in Seq(Int) /\ Len(Units(s, d)) \in Nat
         /\ Units(Position(s), d) \in Seq(Int) /\ Len(Units(Position(s), d)) \in Nat
<1>1. s \in Seq(Entry) /\ Position(s) \in Seq(Entry)
  BY PositionType DEF Deals, OneSided
<1> QED BY <1>1, UnitsType

LEMMA NetKept ==
  ASSUME NEW s, Deals(s), Books(s)
  PROVE  Net(Position(s)) = Net(s)
<1> DEFINE B == Units(s, "Bid")
           A == Units(s, "Ask")
<1>1. s \in Seq(Entry) /\ Position(s) \in Seq(Entry)
  BY PositionType DEF Deals, OneSided
<1>2. B \in Seq(Int) /\ A \in Seq(Int) /\ Len(B) \in Nat /\ Len(A) \in Nat
  BY <1>1, UnitsType
<1>3. /\ Units(Position(s), "Bid") = Drop(B, Len(A))
      /\ Units(Position(s), "Ask") = Drop(A, Len(B))
  BY DEF Books, Other, Dirs
<1>4. Net(s) = Len(B) - Len(A)
  BY <1>1, NetIs
<1>5. Net(Position(s)) = Len(Drop(B, Len(A))) - Len(Drop(A, Len(B)))
  BY <1>1, <1>3, NetIs
<1> HIDE DEF A, B
<1>6. /\ Len(Drop(B, Len(A))) = (IF Len(A) <= Len(B) THEN Len(B) - Len(A) ELSE 0)
      /\ Len(Drop(A, Len(B))) = (IF Len(B) <= Len(A) THEN Len(A) - Len(B) ELSE 0)
  BY <1>2, DropIs
<1> QED BY <1>2, <1>4, <1>5, <1>6

\* Every unit is either in a pair or in the position.
LEMMA MoneyKept ==
  ASSUME NEW s, Deals(s), Books(s)
  PROVE  Cash(s) = Profit(s) + Cash(Position(s))
<1> DEFINE B == Units(s, "Bid")
           A == Units(s, "Ask")
           m == IF Len(B) <= Len(A) THEN Len(B) ELSE Len(A)
           f == [k \in 1..m |-> A[k] - B[k]]
<1>1. s \in Seq(Entry) /\ Position(s) \in Seq(Entry)
  BY PositionType DEF Deals, OneSided
<1>2. B \in Seq(Int) /\ A \in Seq(Int) /\ Len(B) \in Nat /\ Len(A) \in Nat
  BY <1>1, UnitsType
<1>3. /\ Units(Position(s), "Bid") = Drop(B, Len(A))
      /\ Units(Position(s), "Ask") = Drop(A, Len(B))
  BY DEF Books, Other, Dirs
<1>4. Cash(s) = Sum(A) - Sum(B)
  BY <1>1, CashIs
<1>5. Cash(Position(s)) = Sum(Drop(A, Len(B))) - Sum(Drop(B, Len(A)))
  BY <1>1, <1>3, CashIs
<1>6. Profit(s) = Total(f, m)
  <2>1. Min({Len(B), Len(A)}) = m
    <3> HIDE DEF A, B
    <3>1. Len(A) \in Int /\ Len(B) \in Int
      BY <1>2
    <3> QED BY <3>1, MinOfTwo
  <2> QED BY <2>1 DEF Profit
<1> HIDE DEF A, B
<1>7. m \in Nat /\ m <= Len(A) /\ m <= Len(B) /\ (m = Len(A) \/ m = Len(B))
  BY <1>2
<1>8. Total(f, m) = Total(A, m) - Total(B, m)
  <2>1. /\ \A k \in 1..m : A[k] \in Int /\ B[k] \in Int
        /\ \A k \in 1..m : f[k] = A[k] - B[k]
    BY <1>2
  <2> HIDE DEF f, m
  <2> QED BY <1>7, <2>1, TotalMinus
<1>9. /\ Sum(A) = Total(A, m) + Sum(Drop(A, m))
      /\ Total(A, m) \in Int /\ Sum(Drop(A, m)) \in Int
      /\ Sum(B) = Total(B, m) + Sum(Drop(B, m))
      /\ Total(B, m) \in Int /\ Sum(Drop(B, m)) \in Int
  <2> HIDE DEF f, m
  <2> QED BY <1>2, <1>7, SumDrop
<1>10. Drop(A, Len(B)) = Drop(A, m) /\ Drop(B, Len(A)) = Drop(B, m)
  <2>1. CASE m = Len(B)
    <3>1. Drop(B, Len(A)) = <<>>
      <4>1. Len(B) <= Len(A)
        BY <1>2, <1>7, <2>1
      <4> QED BY <1>2, <4>1, DropNone
    <3>2. Drop(B, m) = <<>>
      <4>1. Len(B) <= m
        BY <1>2, <2>1
      <4> HIDE DEF m
      <4> QED BY <1>2, <1>7, <4>1, DropNone
    <3> QED BY <2>1, <3>1, <3>2
  <2>2. CASE m = Len(A)
    <3>1. Drop(A, Len(B)) = <<>>
      <4>1. Len(A) <= Len(B)
        BY <1>2, <1>7, <2>2
      <4> QED BY <1>2, <4>1, DropNone
    <3>2. Drop(A, m) = <<>>
      <4>1. Len(A) <= m
        BY <1>2, <2>2
      <4> HIDE DEF m
      <4> QED BY <1>2, <1>7, <4>1, DropNone
    <3> QED BY <2>2, <3>1, <3>2
  <2> QED BY <1>7, <2>1, <2>2
<1> HIDE DEF m, f
<1> QED BY <1>4, <1>5, <1>6, <1>8, <1>9, <1>10

LEMMA UsedUp ==
  ASSUME NEW p, NEW d, Queue(p, d), Len(Units(p, d)) = 0
  PROVE  p = <<>>
<1>1. SUFFICES ASSUME p # <<>> PROVE FALSE
  OBVIOUS
<1>2. /\ Len(Units(p, d)) = Head(p).volume + Len(Units(Tail(p), d))
      /\ Head(p).volume \in Nat \ {0} /\ Len(Units(Tail(p), d)) \in Nat
  BY <1>1, QueueFirst
<1> QED BY <1>2

\* A deal of the other side that the position covers
LEMMA Covered ==
  ASSUME NEW s, Deals(s), NEW d \in Dirs, Queue(Position(s), d), Position(s) # <<>>,
         NEW e \in Entry, IsFill(e), e.dir = Other(d), e.volume > 0,
         e.volume <= Len(Units(Position(s), d))
  PROVE  /\ Deals(Append(s, e)) /\ Queue(Position(Append(s, e)), d)
         /\ Units(Position(Append(s, e)), d) = Drop(Units(Position(s), d), e.volume)
<1>1. Deals(Append(s, e)) /\ Position(Append(s, e)) = Dealt(Position(s), e)
  BY DealsNext, PositionNext DEF After
<1>2. Dealt(Position(s), e) = Consumed(Position(s), e)
  <2>1. Last(Position(s)).dir = d /\ Other(d) # d
    BY SameSide, DirsTwo
  <2> QED BY <2>1 DEF Dealt
<1> QED BY <1>1, <1>2, ConsumedCovered

\* A deal of order c over v units
DealOf(c, i, v) == [id |-> i, dir |-> c.dir, status |-> "Fill", volume |-> v, price |-> 0,
                    rest |-> c.volume - v]

LEMMA ClosingKept ==
  ASSUME NEW s, Deals(s), Position(s) # <<>>, NEW i \in Ids,
         NEW c, c = ClosingOrder(Position(s)), NEW v \in 1..c.volume
  PROVE  Position(s \o <<DealOf(c, i, v)>>
                    \o (IF v = c.volume THEN <<>> ELSE <<DealOf(c, i, c.volume - v)>>)) = <<>>
<1> DEFINE p == Position(s)
           n == c.volume
           Deal(x) == DealOf(c, i, x)
           a == Deal(v)
           b == Deal(n - v)
<1>1. PICK d \in Dirs : Queue(p, d)
  BY PositionType DEF OneSided
<1>2. c.dir = Other(d) /\ c.volume = Len(Units(p, d)) /\ Len(Units(p, d)) \in Nat
      /\ Units(p, d) \in Seq(Int)
  <2>1. Head(p).dir = d
    BY <1>1, QueueFirst
  <2>2. Volume(p) = Len(Units(p, d))
    BY <1>1, VolumeIs
  <2>3. Units(p, d) \in Seq(Int) /\ Len(Units(p, d)) \in Nat
    BY <1>1, UnitsType DEF Queue
  <2> QED BY <2>1, <2>2, <2>3 DEF ClosingOrder, Other
<1>3. s \in Seq(Entry)
  BY DEF Deals
<1>4. \A x \in 1..n : /\ Deal(x) \in Entry /\ IsFill(Deal(x)) /\ Deal(x).dir = Other(d)
                      /\ Deal(x).volume = x
  <2> SUFFICES ASSUME NEW x \in 1..n
               PROVE  /\ Deal(x) \in Entry /\ IsFill(Deal(x)) /\ Deal(x).dir = Other(d)
                      /\ Deal(x).volume = x
    OBVIOUS
  <2>1. Deal(x) = [id |-> i, dir |-> c.dir, status |-> "Fill", volume |-> x,
                   price |-> 0, rest |-> c.volume - x]
    BY DEF DealOf
  <2>2. n \in Nat /\ x \in Nat /\ n - x \in Int /\ c.dir \in Dirs
    BY <1>2, DirsTwo
  <2> QED BY <1>2, <2>1, <2>2 DEF Entry, IsFill
<1>5. v \in 1..n /\ n \in Nat
  BY <1>2
<1>6. /\ a \in Entry /\ IsFill(a) /\ a.dir = Other(d) /\ a.volume = v /\ a.volume > 0
      /\ a.volume <= Len(Units(p, d))
  <2>1. v > 0 /\ v <= Len(Units(p, d))
    BY <1>2, <1>5
  <2> QED BY <1>4, <2>1
<1> DEFINE t == Append(s, a)
           q == Position(t)
<1>7. Deals(t) /\ Queue(q, d) /\ Units(q, d) = Drop(Units(p, d), v)
  <2> HIDE DEF a
  <2> QED BY <1>1, <1>6, Covered
<1>8. Len(Units(q, d)) = n - v
  <2>1. v <= Len(Units(p, d)) /\ v \in Nat
    BY <1>2, <1>5
  <2> HIDE DEF p
  <2> QED BY <1>2, <1>7, <2>1, DropIs
<1>9. s \o <<a>> = t
  <2> HIDE DEF a
  <2> QED BY <1>3, <1>6
<1>10. CASE v = n
  <2>1. q = <<>>
    BY <1>5, <1>7, <1>8, <1>10, UsedUp
  <2>2. t \o <<>> = t
    <3>1. t \in Seq(Entry)
      BY <1>7 DEF Deals
    <3> HIDE DEF t
    <3> QED BY <3>1
  <2> QED BY <1>9, <1>10, <2>1, <2>2
<1>11. CASE v # n
  <2>1. n - v \in 1..n /\ n - v > 0
    BY <1>5, <1>11
  <2>2. /\ b \in Entry /\ IsFill(b) /\ b.dir = Other(d) /\ b.volume = n - v /\ b.volume > 0
        /\ b.volume <= Len(Units(q, d))
    <3>1. n - v <= n - v
      BY <1>5
    <3> QED BY <1>4, <1>8, <2>1, <3>1
  <2>3. q # <<>>
    <3>1. Units(<<>>, d) = <<>> /\ Len(<<>>) = 0
      BY UnitsNone
    <3> HIDE DEF q
    <3> QED BY <1>5, <1>8, <2>1, <3>1
  <2>4. /\ Queue(Position(Append(t, b)), d)
        /\ Units(Position(Append(t, b)), d) = Drop(Units(q, d), n - v)
    <3> HIDE DEF b, t
    <3> QED BY <1>7, <2>2, <2>3, Covered
  <2>5. Len(Units(Position(Append(t, b)), d)) = 0
    <3>1. Units(q, d) \in Seq(Int)
      BY <1>7, UnitsType DEF Queue
    <3>2. n - v \in Nat /\ n - v <= Len(Units(q, d))
      BY <1>5, <1>8, <2>1
    <3> HIDE DEF q, n, b, t
    <3>3. Len(Drop(Units(q, d), n - v)) = Len(Units(q, d)) - (n - v)
      BY <3>1, <3>2, DropIs
    <3> QED BY <1>8, <2>4, <3>2, <3>3
  <2>6. Position(Append(t, b)) = <<>>
    BY <2>4, <2>5, UsedUp
  <2>7. t \o <<b>> = Append(t, b)
    <3>1. t \in Seq(Entry)
      BY <1>7 DEF Deals
    <3> HIDE DEF t, b
    <3> QED BY <2>2, <3>1
  <2> QED BY <1>9, <1>11, <2>6, <2>7
<1> QED BY <1>10, <1>11

-----------------------------------------------------------------------------
(* The orders of a log *)

\* The last event of order i is at k.
LastOf(s, i, k) == /\ k \in 1..Len(s) /\ s[k].id = i
                   /\ \A j \in (k + 1)..Len(s) : s[j].id # i

KnownIn(s, i) == \E k \in 1..Len(s) : s[k].id = i

EndedIn(s, i) == \E k \in 1..Len(s) : s[k].id = i /\ s[k].status = "Cancel"

\* The volume of the events of order i with status st
SumOf(s, i, st) ==
    Total([k \in DOMAIN s |-> IF s[k].id = i /\ s[k].status = st THEN s[k].volume ELSE 0], Len(s))

\* Each order's last event says whether it is ended and, if not, what is left
\* of it.
Ledger(s) ==
    \A i \in Ids :
        /\ ~KnownIn(s, i) => SumOf(s, i, "Add") = 0 /\ SumOf(s, i, "Fill") = 0
        /\ \A k : LastOf(s, i, k) =>
             /\ s[k].status # "Cancel" => s[k].rest = SumOf(s, i, "Add") - SumOf(s, i, "Fill")
             /\ EndedIn(s, i) <=> s[k].status = "Cancel"

LEMMA LastExists ==
  ASSUME NEW s \in Seq(Entry), NEW i, KnownIn(s, i)
  PROVE  \E k : LastOf(s, i, k)
<1> DEFINE n == Len(s)
           T == {n - k : k \in {j \in 1..n : s[j].id = i}}
<1>1. n \in Nat
  OBVIOUS
<1>2. T \in SUBSET Nat /\ T # {}
  BY DEF KnownIn
<1>3. PICK m \in T : \A j \in T : m <= j
  <2> HIDE DEF T
  <2> QED BY <1>2, LeastOne
<1>4. PICK k \in 1..n : s[k].id = i /\ m = n - k
  BY <1>3
<1>5. ASSUME NEW j \in (k + 1)..n PROVE s[j].id # i
  <2>1. SUFFICES ASSUME s[j].id = i PROVE FALSE
    OBVIOUS
  <2>2. j \in 1..n /\ n - j \in T
    BY <1>1, <2>1
  <2>3. n - k <= n - j
    BY <1>3, <1>4, <2>2
  <2> QED BY <1>1, <2>3
<1> QED BY <1>4, <1>5 DEF LastOf

LEMMA LastIsMax ==
  ASSUME NEW s \in Seq(Entry), NEW i, NEW k, LastOf(s, i, k)
  PROVE  Max({j \in DOMAIN s : s[j].id = i}) = k
<1> DEFINE T == {j \in DOMAIN s : s[j].id = i}
<1>1. k \in T /\ k \in Nat
  BY DEF LastOf
<1>2. \A j \in T : j <= k /\ j \in Nat
  BY DEF LastOf
<1> HIDE DEF T
<1>3. Max(T) \in T /\ \A j \in T : Max(T) >= j
  <2>1. \E x \in T : \A y \in T : x >= y
    BY <1>1, <1>2
  <2> QED BY <2>1 DEF Max
<1>4. Max(T) = k
  <2> DEFINE m == Max(T)
  <2>1. m \in Nat /\ m <= k /\ m >= k
    BY <1>1, <1>2, <1>3, Zenon
  <2> HIDE DEF m
  <2>2. m = k
    BY <1>1, <2>1
  <2> QED BY <2>2 DEF m
<1> QED BY <1>4 DEF T

LEMMA SumNone ==
  ASSUME NEW i, NEW st
  PROVE  SumOf(<<>>, i, st) = 0
<1>1. Len(<<>>) = 0
  OBVIOUS
<1> QED BY <1>1, TotalZero DEF SumOf

LEMMA SumNext ==
  ASSUME NEW s \in Seq(Entry), NEW e \in Entry, NEW i, NEW st
  PROVE  /\ SumOf(Append(s, e), i, st)
              = SumOf(s, i, st) + (IF e.id = i /\ e.status = st THEN e.volume ELSE 0)
         /\ SumOf(s, i, st) \in Int
<1> DEFINE n == Len(s)
           t == Append(s, e)
           f == [k \in DOMAIN s |-> IF s[k].id = i /\ s[k].status = st THEN s[k].volume ELSE 0]
           h == [k \in DOMAIN t |-> IF t[k].id = i /\ t[k].status = st THEN t[k].volume ELSE 0]
<1>1. t \in Seq(Entry) /\ Len(t) = n + 1 /\ n \in Nat /\ t[n + 1] = e /\ \A k \in 1..n : t[k] = s[k]
  BY AppendIs
<1> HIDE DEF t
<1>2. ASSUME NEW k \in 1..(n + 1)
      PROVE  /\ h[k] = (IF t[k].id = i /\ t[k].status = st THEN t[k].volume ELSE 0)
             /\ h[k] \in Int
  <2>1. k \in DOMAIN t /\ t[k] \in Entry
    BY <1>1
  <2> QED BY <2>1, EntryType
<1>3. ASSUME NEW k \in 1..n PROVE h[k] = f[k]
  <2>1. t[k] = s[k] /\ k \in 1..(n + 1)
    BY <1>1
  <2>2. k \in DOMAIN s
    OBVIOUS
  <2>3. f[k] = (IF s[k].id = i /\ s[k].status = st THEN s[k].volume ELSE 0)
    BY <2>2
  <2> HIDE DEF f, h
  <2> QED BY <1>2, <2>1, <2>3
<1>4. h[n + 1] = IF e.id = i /\ e.status = st THEN e.volume ELSE 0
  <2>1. n + 1 \in 1..(n + 1)
    BY <1>1
  <2> HIDE DEF h
  <2> QED BY <1>1, <1>2, <2>1
<1> HIDE DEF f, h
<1>5. Total(h, n + 1) = Total(f, n) + h[n + 1] /\ Total(f, n) \in Int
  BY <1>1, <1>2, <1>3, TotalNext
<1> QED BY <1>1, <1>4, <1>5 DEF SumOf, f, h, t

LEMMA LedgerNone == Ledger(<<>>)
<1>1. \A i, k : ~LastOf(<<>>, i, k)
  BY DEF LastOf
<1> QED BY <1>1, SumNone DEF Ledger

\* An event adds a new order, or takes its volume from what is left, or ends it.
Follows(s, e) ==
    \/ ~KnownIn(s, e.id) /\ e.status = "Add" /\ e.rest = e.volume
    \/ \E k : /\ LastOf(s, e.id, k) /\ s[k].status # "Cancel"
              /\ \/ e.status = "Fill" /\ e.rest = s[k].rest - e.volume
                 \/ e.status = "Cancel"

LEMMA LedgerNext ==
  ASSUME NEW s \in Seq(Entry), Ledger(s), NEW e \in Entry, Follows(s, e)
  PROVE  Ledger(Append(s, e))
<1> DEFINE n == Len(s)
           t == Append(s, e)
<1>1. t \in Seq(Entry) /\ Len(t) = n + 1 /\ n \in Nat /\ t[n + 1] = e /\ \A k \in 1..n : t[k] = s[k]
  BY AppendIs
<1> HIDE DEF t
<1>2. SUFFICES ASSUME NEW i \in Ids
               PROVE  /\ ~KnownIn(t, i) => SumOf(t, i, "Add") = 0 /\ SumOf(t, i, "Fill") = 0
                      /\ \A k : LastOf(t, i, k) =>
                           /\ t[k].status # "Cancel" =>
                                  t[k].rest = SumOf(t, i, "Add") - SumOf(t, i, "Fill")
                           /\ EndedIn(t, i) <=> t[k].status = "Cancel"
  BY DEF Ledger, t
<1> DEFINE A == SumOf(s, i, "Add")
           F == SumOf(s, i, "Fill")
<1>3. /\ SumOf(t, i, "Add") = A + (IF e.id = i /\ e.status = "Add" THEN e.volume ELSE 0)
      /\ SumOf(t, i, "Fill") = F + (IF e.id = i /\ e.status = "Fill" THEN e.volume ELSE 0)
      /\ A \in Int /\ F \in Int
  BY SumNext DEF t
<1>4. /\ ~KnownIn(s, i) => A = 0 /\ F = 0
      /\ \A k : LastOf(s, i, k) => /\ s[k].status # "Cancel" => s[k].rest = A - F
                                   /\ EndedIn(s, i) <=> s[k].status = "Cancel"
  BY DEF Ledger
<1> HIDE DEF A, F
<1>5. e.volume \in Nat
  BY EntryType
<1>6. n + 1 \in 1..Len(t)
  BY <1>1
<1>7. CASE e.id # i
  <2>1. SumOf(t, i, "Add") = A /\ SumOf(t, i, "Fill") = F
    BY <1>3, <1>7
  <2>2. KnownIn(s, i) => KnownIn(t, i)
    BY <1>1 DEF KnownIn
  <2>3. EndedIn(t, i) <=> EndedIn(s, i)
    <3>1. ASSUME NEW j \in 1..Len(t), t[j].id = i PROVE j \in 1..n /\ t[j] = s[j]
      <4>1. j \in 1..n \/ j = n + 1
        BY <1>1
      <4> QED BY <1>1, <1>7, <3>1, <4>1
    <3>2. \A j \in 1..n : j \in 1..Len(t) /\ t[j] = s[j]
      BY <1>1
    <3> QED BY <3>1, <3>2 DEF EndedIn
  <2>4. ASSUME NEW k, LastOf(t, i, k) PROVE LastOf(s, i, k) /\ t[k] = s[k]
    <3>1. k \in 1..Len(t) /\ t[k].id = i /\ \A j \in (k + 1)..Len(t) : t[j].id # i
      BY <2>4 DEF LastOf
    <3>2. k \in 1..n
      <4>1. k # n + 1
        BY <1>1, <1>7, <3>1
      <4> QED BY <1>1, <3>1, <4>1
    <3>3. t[k] = s[k] /\ \A j \in (k + 1)..n : j \in (k + 1)..Len(t) /\ t[j] = s[j]
      BY <1>1, <3>2
    <3> QED BY <3>1, <3>2, <3>3 DEF LastOf
  <2> QED BY <1>4, <2>1, <2>2, <2>3, <2>4
<1>8. CASE e.id = i
  <2>1. KnownIn(t, i)
    BY <1>1, <1>6, <1>8 DEF KnownIn
  <2>2. ASSUME NEW k, LastOf(t, i, k) PROVE t[k] = e
    <3>1. k \in 1..Len(t) /\ \A j \in (k + 1)..Len(t) : t[j].id # i
      BY <2>2 DEF LastOf
    <3>2. ~(n + 1 \in (k + 1)..Len(t))
      BY <1>1, <1>8, <3>1
    <3>3. k = n + 1
      BY <1>1, <3>1, <3>2
    <3> QED BY <1>1, <3>3
  <2>3. EndedIn(t, i) <=> EndedIn(s, i) \/ e.status = "Cancel"
    <3>1. ASSUME NEW j \in 1..Len(t) PROVE (j \in 1..n /\ t[j] = s[j]) \/ (j = n + 1 /\ t[j] = e)
      BY <1>1
    <3>2. \A j \in 1..n : j \in 1..Len(t) /\ t[j] = s[j]
      BY <1>1
    <3> QED BY <1>1, <1>6, <1>8, <3>1, <3>2 DEF EndedIn
  <2>4. /\ e.status # "Cancel" => e.rest = SumOf(t, i, "Add") - SumOf(t, i, "Fill")
        /\ EndedIn(t, i) <=> e.status = "Cancel"
    <3>1. CASE ~KnownIn(s, i) /\ e.status = "Add" /\ e.rest = e.volume
      <4>1. ~EndedIn(s, i)
        BY <3>1 DEF KnownIn, EndedIn
      <4> QED BY <1>3, <1>4, <1>5, <1>8, <2>3, <3>1, <4>1
    <3>2. ASSUME NEW k, LastOf(s, i, k), s[k].status # "Cancel",
                 \/ e.status = "Fill" /\ e.rest = s[k].rest - e.volume
                 \/ e.status = "Cancel"
          PROVE  /\ e.status # "Cancel" => e.rest = SumOf(t, i, "Add") - SumOf(t, i, "Fill")
                 /\ EndedIn(t, i) <=> e.status = "Cancel"
      <4>1. s[k].rest = A - F /\ ~EndedIn(s, i)
        BY <1>4, <3>2
      <4>2. CASE e.status = "Fill" /\ e.rest = s[k].rest - e.volume
        BY <1>3, <1>5, <1>8, <2>3, <4>1, <4>2
      <4>3. CASE e.status = "Cancel"
        BY <2>3, <4>3
      <4> QED BY <3>2, <4>2, <4>3
    <3> QED BY <1>8, <3>1, <3>2 DEF Follows
  <2> QED BY <2>1, <2>2, <2>4
<1> QED BY <1>7, <1>8

LEMMA OrdersKept ==
  ASSUME NEW s \in Seq(Entry), Ledger(s), \A k \in 1..Len(s) : s[k].id \in Ids /\ s[k].rest \in Nat
  PROVE  {<<e.id, e.rest>> : e \in OpenOrders(s)}
           = {<<i, SumOf(s, i, "Add") - SumOf(s, i, "Fill")>> : i \in
                 {j \in Ids : SumOf(s, j, "Add") - SumOf(s, j, "Fill") > 0 /\ ~EndedIn(s, j)}}
<1> DEFINE Unfilled(i) == SumOf(s, i, "Add") - SumOf(s, i, "Fill")
           Open == {j \in Ids : Unfilled(j) > 0 /\ ~EndedIn(s, j)}
<1>1. ASSUME NEW i \in Ids, NEW k, LastOf(s, i, k)
      PROVE  /\ s[k].status # "Cancel" => Unfilled(i) = s[k].rest
             /\ EndedIn(s, i) <=> s[k].status = "Cancel"
  BY <1>1 DEF Ledger
<1>2. ASSUME NEW i \in Ids, ~KnownIn(s, i) PROVE ~(Unfilled(i) > 0)
  BY <1>2 DEF Ledger
<1> HIDE DEF Unfilled
<1>3. ASSUME NEW e \in OpenOrders(s) PROVE e.id \in Open /\ e.rest = Unfilled(e.id)
  <2>1. PICK k \in DOMAIN s :
          e = s[k] /\ IsLatest(s, k) /\ s[k].status # "Cancel" /\ s[k].rest # 0
    BY DEF OpenOrders
  <2>2. k \in 1..Len(s) /\ e.id \in Ids /\ e.rest \in Nat
    BY <2>1
  <2>3. LastOf(s, e.id, k)
    BY <2>1, <2>2 DEF LastOf, IsLatest
  <2>4. Unfilled(e.id) = e.rest /\ ~EndedIn(s, e.id)
    BY <1>1, <2>1, <2>2, <2>3
  <2> QED BY <2>1, <2>2, <2>4
<1>4. ASSUME NEW i \in Open PROVE \E e \in OpenOrders(s) : e.id = i /\ e.rest = Unfilled(i)
  <2>1. i \in Ids /\ Unfilled(i) > 0 /\ ~EndedIn(s, i)
    OBVIOUS
  <2>2. KnownIn(s, i)
    BY <1>2, <2>1
  <2>3. PICK k : LastOf(s, i, k)
    BY <2>2, LastExists
  <2>4. /\ k \in DOMAIN s /\ s[k].id = i /\ IsLatest(s, k)
        /\ Unfilled(i) = s[k].rest /\ s[k].status # "Cancel"
    BY <1>1, <2>1, <2>3 DEF LastOf, IsLatest
  <2>5. s[k].rest # 0
    BY <2>1, <2>4
  <2>6. s[k] \in OpenOrders(s)
    BY <2>4, <2>5 DEF OpenOrders
  <2> QED BY <2>4, <2>6
<1> HIDE DEF Open
<1>5. {<<e.id, e.rest>> : e \in OpenOrders(s)} = {<<i, Unfilled(i)>> : i \in Open}
  BY <1>3, <1>4
<1> QED BY <1>5 DEF Open, Unfilled

-----------------------------------------------------------------------------
(* The log of the program *)

\* The inductive invariant of Portfolio: every deal has a volume; the position
\* is what the units of the two sides leave of each other; each order's last
\* event carries what is left of it, unless it was cancelled.
AccountInv == LogOK /\ Deals(log) /\ Books(log) /\ Ledger(log)

LEMMA EventIsEntry ==
  ASSUME BoundsAssumption, PricesAssumption, NEW e \in OrderEvent
  PROVE  e \in Entry /\ e.id \in Ids /\ e.rest \in Nat
<1>1. 0..MaxSize \in SUBSET Nat /\ Prices \cup {0} \subseteq Int /\ Nat \subseteq Int
  BY DEF BoundsAssumption, PricesAssumption
<1> QED BY <1>1 DEF OrderEvent, Entry, Dirs

LEMMA LogIsSeq ==
  ASSUME BoundsAssumption, PricesAssumption, LogOK
  PROVE  /\ log \in Seq(Entry) /\ Len(log) \in Nat
         /\ \A k \in 1..Len(log) : log[k] \in OrderEvent /\ log[k].id \in Ids /\ log[k].rest \in Nat
<1>1. log \in Seq(OrderEvent)
  BY DEF LogOK
<1>2. OrderEvent \subseteq Entry
  BY EventIsEntry
<1>3. \A k \in 1..Len(log) : log[k] \in OrderEvent
  BY <1>1
<1>4. log \in Seq(Entry)
  <2> HIDE DEF OrderEvent
  <2> QED BY <1>1, <1>2
<1> QED BY <1>1, <1>3, <1>4, EventIsEntry

LEMMA LatestIs ==
  ASSUME BoundsAssumption, PricesAssumption, LogOK, NEW i \in Ids, Known(i)
  PROVE  \E k : LastOf(log, i, k) /\ Latest(i) = log[k] /\ log[k] \in OrderEvent /\ log[k].id = i
<1>1. log \in Seq(Entry) /\ \A k \in 1..Len(log) : log[k] \in OrderEvent
  BY LogIsSeq
<1>2. KnownIn(log, i)
  BY <1>1 DEF Known, KnownIn
<1>3. PICK k : LastOf(log, i, k)
  BY <1>1, <1>2, LastExists
<1>4. Max({j \in DOMAIN log : log[j].id = i}) = k
  BY <1>1, <1>3, LastIsMax
<1>5. k \in 1..Len(log) /\ log[k].id = i
  BY <1>3 DEF LastOf
<1> QED BY <1>1, <1>3, <1>4, <1>5 DEF Latest

LEMMA Appended ==
  ASSUME BoundsAssumption, PricesAssumption, AccountInv, NEW e \in OrderEvent,
         IsFill(e) => e.volume > 0, Follows(log, e), log' = Append(log, e)
  PROVE  AccountInv'
<1>1. log \in Seq(Entry) /\ e \in Entry /\ log \in Seq(OrderEvent)
  BY LogIsSeq, EventIsEntry DEF AccountInv, LogOK
<1>2. Deals(Append(log, e)) /\ Books(Append(log, e))
  BY <1>1, DealsNext, BooksNext DEF AccountInv
<1>3. Ledger(Append(log, e))
  BY <1>1, LedgerNext DEF AccountInv
<1>4. Append(log, e) \in Seq(OrderEvent)
  <2> HIDE DEF OrderEvent
  <2> QED BY <1>1
<1>5. LogOK'
  BY <1>4 DEF LogOK
<1> QED BY <1>2, <1>3, <1>5 DEF AccountInv

LEMMA AccountInvStep ==
  ASSUME BoundsAssumption, PricesAssumption
  PROVE  AccountInv /\ [LogNext]_log => AccountInv'
<1> SUFFICES ASSUME AccountInv, [LogNext]_log PROVE AccountInv'
  OBVIOUS
<1>1. CASE UNCHANGED log
  BY <1>1 DEF AccountInv, LogOK
<1>2. CASE LogNext
  <2>1. PICK i \in Ids : Added(i) \/ Filled(i) \/ Withdrawn(i)
    BY <1>2 DEF LogNext
  <2>2. CASE Added(i)
    <3>1. PICK d \in {"Bid", "Ask"}, v \in 1..MaxSize :
            log' = Append(log, [id |-> i, dir |-> d, status |-> "Add", volume |-> v,
                                price |-> 0, rest |-> v])
      BY <2>2 DEF Added
    <3> DEFINE e == [id |-> i, dir |-> d, status |-> "Add", volume |-> v, price |-> 0, rest |-> v]
    <3>2. e \in OrderEvent /\ e.id = i /\ e.status = "Add" /\ e.rest = e.volume
      BY DEF OrderEvent
    <3>3. ~KnownIn(log, i)
      <4>1. ~Known(i)
        BY <2>2 DEF Added
      <4>2. DOMAIN log = 1..Len(log)
        BY DEF AccountInv, LogOK
      <4> QED BY <4>1, <4>2 DEF Known, KnownIn
    <3> HIDE DEF e
    <3>4. Follows(log, e) /\ ~IsFill(e)
      BY <3>2, <3>3 DEF Follows, IsFill
    <3> QED BY <3>1, <3>2, <3>4, Appended DEF e
  <2>3. CASE Filled(i)
    <3>1. Known(i) /\ Latest(i).status # "Cancel"
      BY <2>3 DEF Filled
    <3>2. PICK k : LastOf(log, i, k) /\ Latest(i) = log[k] /\ log[k] \in OrderEvent /\ log[k].id = i
      BY <3>1, LatestIs DEF AccountInv
    <3> DEFINE l == log[k]
    <3>3. PICK v \in 1..l.rest, p \in Prices :
            log' = Append(log, [l EXCEPT !.status = "Fill", !.volume = v, !.price = p,
                                         !.rest = @ - v])
      BY <2>3, <3>2, Zenon DEF Filled
    <3> DEFINE e == [l EXCEPT !.status = "Fill", !.volume = v, !.price = p, !.rest = @ - v]
    <3>4. /\ e \in OrderEvent /\ e.id = i /\ e.status = "Fill" /\ e.volume = v
          /\ e.rest = l.rest - v
      <4>1. l \in OrderEvent /\ l.id = i /\ l.rest \in 0..MaxSize /\ MaxSize \in Nat
        BY <3>2 DEF OrderEvent, BoundsAssumption
      <4>2. v \in 0..MaxSize /\ l.rest - v \in 0..MaxSize /\ p \in Prices \cup {0}
        BY <4>1
      <4> HIDE DEF l
      <4> QED BY <4>1, <4>2 DEF OrderEvent
    <3>5. v > 0
      <4>1. l.rest \in Nat
        BY <3>2, EventIsEntry
      <4> QED BY <4>1
    <3> HIDE DEF e
    <3>6. Follows(log, e) /\ (IsFill(e) => e.volume > 0)
      BY <3>1, <3>2, <3>4, <3>5 DEF Follows
    <3> QED BY <3>3, <3>4, <3>6, Appended DEF e
  <2>4. CASE Withdrawn(i)
    <3>1. Known(i) /\ Latest(i).status # "Cancel"
      BY <2>4 DEF Withdrawn
    <3>2. PICK k : LastOf(log, i, k) /\ Latest(i) = log[k] /\ log[k] \in OrderEvent /\ log[k].id = i
      BY <3>1, LatestIs DEF AccountInv
    <3> DEFINE l == log[k]
               e == [l EXCEPT !.status = "Cancel", !.rest = 0]
    <3>3. log' = Append(log, e)
      BY <2>4, <3>2 DEF Withdrawn
    <3>4. e \in OrderEvent /\ e.id = i /\ e.status = "Cancel"
      <4>1. l \in OrderEvent /\ l.id = i /\ 0 \in 0..MaxSize
        BY <3>2 DEF BoundsAssumption
      <4> HIDE DEF l
      <4> QED BY <4>1 DEF OrderEvent
    <3> HIDE DEF e
    <3>5. Follows(log, e) /\ ~IsFill(e)
      BY <3>1, <3>2, <3>4 DEF Follows, IsFill
    <3> QED BY <3>3, <3>4, <3>5, Appended
  <2> QED BY <2>1, <2>2, <2>3, <2>4
<1> QED BY <1>1, <1>2

LEMMA AccountInvInit == LogInit => AccountInv
<1> SUFFICES ASSUME log = <<>> PROVE AccountInv
  BY DEF LogInit
<1>1. LogOK /\ Deals(log)
  BY DEF LogOK, Deals
<1> QED BY <1>1, BooksNone, LedgerNone DEF AccountInv

\* The inductive invariant is one: whatever events the exchange reports, the position is what
\* the units of the two sides leave of each other (_position, calc_profit), and each order's
\* last event carries what is left of it unless it was cancelled (_orders).
THEOREM LedgerCorrect == LogSpec => []AccountInv
<1>1. AccountInv /\ [LogNext]_log => AccountInv'
  BY AccountInvStep, BoundsAssumption, PricesAssumption
<1> QED BY <1>1, AccountInvInit, PTL DEF LogSpec

\* After any log the queue that Portfolio::_position keeps is one-sided, has no empty entry,
\* and holds exactly what the deals add up to, over every change of sides.
THEOREM PositionCorrect == LogSpec => []PositionInv
<1>1. AccountInv => PositionInv
  <2> SUFFICES ASSUME AccountInv PROVE PositionInv
    OBVIOUS
  <2>1. Deals(log) /\ Books(log) /\ LogOK
    BY DEF AccountInv
  <2>2. Position(log) \in OneSided
    BY <2>1, PositionType
  <2>3. PICK d \in Dirs : Queue(Position(log), d)
    BY <2>2 DEF OneSided
  <2>4. \A k \in DOMAIN Position(log) :
          Position(log)[k].volume > 0 /\ Position(log)[k].dir = Position(log)[1].dir
    <3>1. DOMAIN Position(log) = 1..Len(Position(log))
      BY <2>3 DEF Queue
    <3>2. ASSUME NEW k \in 1..Len(Position(log))
          PROVE  Position(log)[k].volume > 0 /\ Position(log)[k].dir = Position(log)[1].dir
      <4>1. Position(log)[k].volume > 0 /\ Position(log)[k].dir = d
        BY <2>3 DEF Queue
      <4>2. Position(log) # <<>>
        BY <2>3 DEF Queue
      <4>3. Position(log)[1].dir = d
        BY <2>3, <4>2, SameSide
      <4> QED BY <4>1, <4>3
    <3> QED BY <3>1, <3>2
  <2>5. Net(Position(log)) = Net(log)
    BY <2>1, NetKept
  <2> QED BY <2>1, <2>4, <2>5 DEF PositionInv, PositionIsNet
<1> QED BY <1>1, LedgerCorrect, PTL

\* Whenever there is a position, the order that Portfolio::closing_order proposes leaves none
\* once it is filled, in one deal or in two.
THEOREM ClosingOrderCorrect == LogSpec => []ClosingOrderCloses
<1>1. AccountInv => ClosingOrderCloses
  <2> SUFFICES ASSUME AccountInv, Position(log) # <<>>,
                      NEW v \in 1..ClosingOrder(Position(log)).volume
               PROVE  LET c == ClosingOrder(Position(log))
                          Deal(x) == [id |-> log[1].id, dir |-> c.dir, status |-> "Fill",
                                      volume |-> x, price |-> 0, rest |-> c.volume - x]
                      IN  Position(log \o <<Deal(v)>> \o (IF v = c.volume THEN <<>>
                                                       ELSE <<Deal(c.volume - v)>>)) = <<>>
    BY DEF ClosingOrderCloses
  <2>1. Deals(log) /\ LogOK
    BY DEF AccountInv
  <2>2. log[1].id \in Ids
    <3>1. log # <<>>
      BY PositionNone
    <3>2. 1 \in 1..Len(log)
      BY <2>1, <3>1 DEF Deals
    <3> QED BY <2>1, <3>2, LogIsSeq, BoundsAssumption, PricesAssumption
  <2> QED BY <2>1, <2>2, ClosingKept DEF DealOf
<1> QED BY <1>1, LedgerCorrect, PTL

\* What was received minus what was paid is always the profit that calc_profit finds in pairs of
\* units plus what the open position cost: no unit is counted twice or left out.
THEOREM MoneyCorrect == LogSpec => []MoneyAccounted
<1>1. AccountInv => MoneyAccounted
  BY MoneyKept DEF AccountInv, MoneyAccounted
<1> QED BY <1>1, LedgerCorrect, PTL

\* The orders that Portfolio::_orders calls open are those with a volume that is neither traded
\* nor taken back, each with exactly this volume.
THEOREM OpenOrdersCorrect == LogSpec => []OpenOrdersExact
<1>1. AccountInv => OpenOrdersExact
  <2> SUFFICES ASSUME AccountInv PROVE OpenOrdersExact
    OBVIOUS
  <2>1. /\ log \in Seq(Entry) /\ Ledger(log)
        /\ \A k \in 1..Len(log) : log[k].id \in Ids /\ log[k].rest \in Nat
    BY LogIsSeq, BoundsAssumption, PricesAssumption DEF AccountInv
  <2>2. {<<e.id, e.rest>> : e \in OpenOrders(log)}
          = {<<i, SumOf(log, i, "Add") - SumOf(log, i, "Fill")>> : i \in
              {j \in Ids : SumOf(log, j, "Add") - SumOf(log, j, "Fill") > 0 /\ ~EndedIn(log, j)}}
    BY <2>1, OrdersKept
  <2>3. DOMAIN log = 1..Len(log)
    BY <2>1
  <2> QED BY <2>2, <2>3, Zenon DEF OpenOrdersExact, SumOf, EndedIn
<1> QED BY <1>1, LedgerCorrect, PTL

=============================================================================
