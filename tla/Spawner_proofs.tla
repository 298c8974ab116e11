---------------------------- MODULE Spawner_proofs ----------------------------
(****************************************************************************)
(* Proofs about Spawner, for every finite set of strategies and any number  *)
(* of resets.  JoinInv and ResumedOnce together are inductive; that frames  *)
(* outlive their use and that a Spawner implements TaskGroup follows.       *)
(****************************************************************************)
EXTENDS Spawner, TLAPS, FiniteSetTheorems, SequenceTheorems

\* What the queue holds
Handler == [who : Tasks, res : Outcomes]
              \cup [who : {Owner}, res : {"go", "closed", "joined", "timeout"}]

\* Every entry of a sequence of handlers resumes another coroutine.
Once(q) == \A j, k \in DOMAIN q : q[j].who = q[k].who => j = k
\* Who is resumed by a sequence of handlers
Whos(q) == {q[k].who : k \in DOMAIN q}

LEMMA OnceConcat ==
  ASSUME NEW q \in Seq(Handler), NEW n \in Seq(Handler),
         Once(q), Once(n), Whos(q) \cap Whos(n) = {}
  PROVE  /\ q \o n \in Seq(Handler)
         /\ Once(q \o n)
         /\ Whos(q \o n) = Whos(q) \cup Whos(n)
<1>1. /\ q \o n \in Seq(Handler)
      /\ Len(q \o n) = Len(q) + Len(n)
      /\ \A k \in 1..Len(q) + Len(n) : (q \o n)[k] = IF k <= Len(q) THEN q[k] ELSE n[k - Len(q)]
  BY ConcatProperties
<1>2. Whos(q \o n) = Whos(q) \cup Whos(n)
  <2>1. \A k \in DOMAIN (q \o n) : (q \o n)[k].who \in Whos(q) \cup Whos(n)
    BY <1>1 DEF Whos
  <2>2. \A k \in DOMAIN q : k \in DOMAIN (q \o n) /\ (q \o n)[k] = q[k]
    BY <1>1
  <2>3. \A k \in DOMAIN n : Len(q) + k \in DOMAIN (q \o n) /\ (q \o n)[Len(q) + k] = n[k]
    BY <1>1
  <2>4. Whos(q) \subseteq Whos(q \o n)
    BY <2>2 DEF Whos
  <2>5. Whos(n) \subseteq Whos(q \o n)
    BY <2>3 DEF Whos
  <2>6. Whos(q \o n) \subseteq Whos(q) \cup Whos(n)
    BY <2>1 DEF Whos
  <2> QED BY <2>4, <2>5, <2>6
<1>3. Once(q \o n)
  <2>1. SUFFICES ASSUME NEW j \in 1..Len(q) + Len(n), NEW k \in 1..Len(q) + Len(n),
                        (q \o n)[j].who = (q \o n)[k].who
                 PROVE  j = k
    BY <1>1 DEF Once
  <2>2. CASE j <= Len(q) /\ k <= Len(q)
    BY <1>1, <2>1, <2>2 DEF Once
  <2>3. CASE j > Len(q) /\ k > Len(q)
    <3>1. j - Len(q) \in DOMAIN n /\ k - Len(q) \in DOMAIN n
      BY <2>3
    <3>2. n[j - Len(q)].who = n[k - Len(q)].who
      BY <1>1, <2>1, <2>3
    <3> QED BY <3>1, <3>2 DEF Once
  <2>4. CASE j <= Len(q) /\ k > Len(q)
    <3>1. q[j].who = n[k - Len(q)].who /\ j \in DOMAIN q /\ k - Len(q) \in DOMAIN n
      BY <1>1, <2>1, <2>4
    <3> QED BY <3>1 DEF Whos
  <2>5. CASE j > Len(q) /\ k <= Len(q)
    <3>1. q[k].who = n[j - Len(q)].who /\ k \in DOMAIN q /\ j - Len(q) \in DOMAIN n
      BY <1>1, <2>1, <2>5
    <3> QED BY <3>1 DEF Whos
  <2> QED BY <2>2, <2>3, <2>4, <2>5
<1> QED BY <1>1, <1>2, <1>3

\* An entry of a concatenation is one of the first part or of the second.
LEMMA ConcatEntry ==
  ASSUME NEW q \in Seq(Handler), NEW n \in Seq(Handler), NEW k \in DOMAIN (q \o n)
  PROVE  \/ k \in DOMAIN q /\ (q \o n)[k] = q[k]
         \/ \E j \in DOMAIN n : k = Len(q) + j /\ (q \o n)[k] = n[j]
<1>1. /\ q \o n \in Seq(Handler)
      /\ Len(q \o n) = Len(q) + Len(n)
      /\ \A i \in 1..Len(q) + Len(n) : (q \o n)[i] = IF i <= Len(q) THEN q[i] ELSE n[i - Len(q)]
  BY ConcatProperties
<1>2. DOMAIN q = 1..Len(q) /\ DOMAIN n = 1..Len(n) /\ Len(q) \in Nat /\ Len(n) \in Nat
  OBVIOUS
<1>3. k \in 1..Len(q) + Len(n)
  BY <1>1
<1>4. CASE k <= Len(q)
  BY <1>1, <1>2, <1>3, <1>4
<1>5. CASE k > Len(q)
  <2>1. k - Len(q) \in 1..Len(n) /\ k = Len(q) + (k - Len(q))
    BY <1>2, <1>3, <1>5
  <2>2. (q \o n)[k] = n[k - Len(q)]
    BY <1>1, <1>2, <1>3, <1>5
  <2> QED BY <1>2, <2>1, <2>2
<1> QED BY <1>2, <1>3, <1>4, <1>5

LEMMA OnceTail ==
  ASSUME NEW q \in Seq(Handler), q # <<>>, Once(q)
  PROVE  /\ Head(q) \in Handler /\ Head(q) = q[1]
         /\ Tail(q) \in Seq(Handler)
         /\ Len(Tail(q)) = Len(q) - 1
         /\ \A k \in DOMAIN Tail(q) : k + 1 \in DOMAIN q /\ Tail(q)[k] = q[k + 1]
         /\ Once(Tail(q))
         /\ Whos(Tail(q)) = Whos(q) \ {Head(q).who}
         /\ Head(q).who \in Whos(q)
<1>1. /\ Len(q) >= 1
      /\ Head(q) \in Handler /\ Head(q) = q[1]
      /\ Tail(q) \in Seq(Handler)
      /\ Len(Tail(q)) = Len(q) - 1
      /\ \A k \in 1..Len(q) - 1 : k + 1 \in 1..Len(q) /\ Tail(q)[k] = q[k + 1]
  OBVIOUS
<1>2. DOMAIN Tail(q) = 1..Len(q) - 1 /\ DOMAIN q = 1..Len(q)
  BY <1>1
<1>3. Once(Tail(q))
  <2>1. SUFFICES ASSUME NEW j \in 1..Len(q) - 1, NEW k \in 1..Len(q) - 1,
                        Tail(q)[j].who = Tail(q)[k].who
                 PROVE  j = k
    BY <1>2 DEF Once
  <2>2. q[j + 1].who = q[k + 1].who /\ j + 1 \in 1..Len(q) /\ k + 1 \in 1..Len(q)
    BY <1>1, <2>1
  <2>3. j + 1 = k + 1
    BY <1>2, <2>2 DEF Once
  <2> QED BY <2>3
<1>4. Whos(Tail(q)) = Whos(q) \ {Head(q).who}
  <2>1. ASSUME NEW k \in 1..Len(q) - 1
        PROVE  Tail(q)[k].who \in Whos(q) /\ Tail(q)[k].who # Head(q).who
    <3>1. k + 1 \in 1..Len(q) /\ Tail(q)[k] = q[k + 1] /\ 1 \in 1..Len(q) /\ k + 1 # 1
      BY <1>1
    <3> QED BY <1>1, <1>2, <3>1 DEF Whos, Once
  <2>2. ASSUME NEW k \in 1..Len(q), q[k].who # Head(q).who
        PROVE  q[k].who \in Whos(Tail(q))
    <3>1. k - 1 \in 1..Len(q) - 1 /\ Tail(q)[k - 1] = q[k]
      BY <1>1, <2>2
    <3> QED BY <1>2, <3>1 DEF Whos
  <2>3. Whos(Tail(q)) \subseteq Whos(q) \ {Head(q).who}
    BY <1>2, <2>1 DEF Whos
  <2>4. Whos(q) \ {Head(q).who} \subseteq Whos(Tail(q))
    BY <1>2, <2>2 DEF Whos
  <2> QED BY <2>3, <2>4
<1>5. Head(q).who \in Whos(q)
  <2>1. 1 \in DOMAIN q
    BY <1>1, <1>2
  <2> QED BY <1>1, <2>1 DEF Whos
<1> QED BY <1>1, <1>2, <1>3, <1>4, <1>5

\* Closing posts one notice to each that waits.
LEMMA NoticesOnce ==
  ASSUME NEW S \in SUBSET Tasks, NEW n \in Notices(S)
  PROVE  /\ n \in Seq(Handler)
         /\ \A k \in DOMAIN n : n[k].res = "closed"
         /\ Once(n)
         /\ Whos(n) = S
<1>1. IsFiniteSet(S)
  BY TasksAssumption, FS_Subset
<1> DEFINE D == 1..Cardinality(S)
<1>2. Cardinality(S) \in Nat /\ IsFiniteSet(D) /\ Cardinality(D) = Cardinality(S)
  <2>1. Cardinality(S) \in Nat
    BY <1>1, FS_CardinalityType
  <2> QED BY <2>1, FS_Interval
<1>3. PICK s \in [D -> S] : /\ \A i, j \in D : i # j => s[i] # s[j]
                            /\ n = [k \in DOMAIN s |-> [who |-> s[k], res |-> "closed"]]
  BY DEF Notices, SetToSeqs
<1>4. DOMAIN s = D
  BY <1>3
<1>5. /\ DOMAIN n = D
      /\ \A k \in D : n[k] = [who |-> s[k], res |-> "closed"] /\ s[k] \in S
  BY <1>3, <1>4
<1>6. \A k \in D : n[k] \in Handler
  BY <1>5 DEF Handler, Outcomes
<1>7. n \in Seq(Handler)
  <2>1. n \in [D -> Handler]
    BY <1>3, <1>4, <1>6
  <2> QED BY <1>2, <2>1
<1>8. Once(n)
  BY <1>3, <1>5 DEF Once
<1>9. Whos(n) = S
  <2>1. s \in Injection(D, S)
    BY <1>3 DEF Injection, IsInjective
  <2>2. s \in Surjection(D, S)
    BY <1>1, <1>2, <2>1, FS_Injection
  <2>3. \A x \in S : \E k \in D : s[k] = x
    BY <2>2 DEF Surjection
  <2> QED BY <1>5, <2>3 DEF Whos
<1> QED BY <1>5, <1>7, <1>8, <1>9

\* No coroutine is on a stack twice.
Distinct(s) == \A j, k \in DOMAIN s : s[j] = s[k] => j = k
Members(s) == {s[k] : k \in DOMAIN s}

LEMMA FrontDistinct ==
  ASSUME NEW C, NEW s \in Seq(C), s # <<>>, Distinct(s)
  PROVE  /\ Front(s) \in Seq(C)
         /\ Distinct(Front(s))
         /\ Last(s) \in Members(s)
         /\ Members(Front(s)) = Members(s) \ {Last(s)}
<1>1. /\ Len(s) \in Nat /\ Len(s) >= 1 /\ DOMAIN s = 1..Len(s)
      /\ \A k \in 1..Len(s) : s[k] \in C
  OBVIOUS
<1>2. Front(s) = [k \in 1..Len(s) - 1 |-> s[k]]
  BY <1>1 DEF Front
<1>3. Front(s) \in Seq(C)
  BY <1>1, <1>2
<1>4. DOMAIN Front(s) = 1..Len(s) - 1 /\ \A k \in 1..Len(s) - 1 : Front(s)[k] = s[k] /\ k \in 1..Len(s)
  BY <1>1, <1>2
<1>5. Distinct(Front(s))
  BY <1>1, <1>4 DEF Distinct
<1>6. Last(s) = s[Len(s)] /\ Len(s) \in 1..Len(s)
  BY <1>1 DEF Last
<1>7. Members(Front(s)) \subseteq Members(s) \ {Last(s)}
  <2>1. ASSUME NEW k \in 1..Len(s) - 1 PROVE s[k] \in Members(s) /\ s[k] # s[Len(s)]
    <3>1. Len(s) \in Nat
      BY <1>1
    <3>2. k \in 1..Len(s) /\ k # Len(s)
      BY <3>1
    <3> QED BY <1>1, <1>6, <3>2 DEF Members, Distinct
  <2> QED BY <1>4, <1>6, <2>1 DEF Members
<1>8. Members(s) \ {Last(s)} \subseteq Members(Front(s))
  <2>1. ASSUME NEW k \in 1..Len(s), s[k] # s[Len(s)] PROVE s[k] \in Members(Front(s))
    <3>1. k \in 1..Len(s) - 1
      BY <1>1, <2>1
    <3> QED BY <1>4, <3>1 DEF Members
  <2> QED BY <1>1, <1>6, <2>1 DEF Members
<1>9. Last(s) \in Members(s)
  BY <1>1, <1>6 DEF Members
<1> QED BY <1>3, <1>5, <1>7, <1>8, <1>9

LEMMA AppendDistinct ==
  ASSUME NEW C, NEW s \in Seq(C), NEW c \in C, Distinct(s), c \notin Members(s)
  PROVE  /\ Append(s, c) \in Seq(C)
         /\ Distinct(Append(s, c))
         /\ Members(Append(s, c)) = Members(s) \cup {c}
<1>1. /\ Append(s, c) \in Seq(C)
      /\ Len(Append(s, c)) = Len(s) + 1 /\ Len(s) \in Nat
      /\ \A k \in 1..Len(s) + 1 : Append(s, c)[k] = IF k = Len(s) + 1 THEN c ELSE s[k]
  OBVIOUS
<1>2. DOMAIN s = 1..Len(s) /\ DOMAIN Append(s, c) = 1..Len(s) + 1
  BY <1>1
<1>3. \A k \in 1..Len(s) + 1 : k = Len(s) + 1 \/ k \in 1..Len(s)
  BY <1>1
<1>4. Distinct(Append(s, c))
  BY <1>1, <1>2, <1>3 DEF Distinct, Members
<1>5. Members(s) \subseteq Members(Append(s, c)) /\ c \in Members(Append(s, c))
  <2>1. \A k \in 1..Len(s) : k \in 1..Len(s) + 1 /\ Append(s, c)[k] = s[k]
    BY <1>1
  <2>2. Len(s) + 1 \in 1..Len(s) + 1
    BY <1>1
  <2> QED BY <1>1, <1>2, <2>1, <2>2 DEF Members
<1>6. Members(Append(s, c)) \subseteq Members(s) \cup {c}
  BY <1>1, <1>2, <1>3 DEF Members
<1> QED BY <1>1, <1>4, <1>5, <1>6

LEMMA PostOnce ==
  ASSUME NEW c, NEW r, [who |-> c, res |-> r] \in Handler
  PROVE  /\ Post(c, r) \in Seq(Handler)
         /\ DOMAIN Post(c, r) = {1} /\ Post(c, r)[1] = [who |-> c, res |-> r]
         /\ Once(Post(c, r))
         /\ Whos(Post(c, r)) = {c}
  BY DEF Post, Once, Whos

-----------------------------------------------------------------------------
(* The invariant *)

IInv == JoinInv /\ ResumedOnce

\* Who has a handler in the queue, and who runs
Posted == {c \in Coroutines : Stage(c) \in {"posted", "told"}}
OnCpu == {c \in Coroutines : Stage(c) = "running"}
Born == \A t \in Tasks : task[t].born <= gen

LEMMA Parts ==
  /\ ResumedOnce <=> Once(queue) /\ Whos(queue) = Posted
  /\ OneThread <=> Distinct(stack) /\ Members(stack) = OnCpu
  /\ JoinInv <=> /\ TypeOK /\ CounterExact /\ NobodyForgotten /\ OneThread
                 /\ JoinTold /\ FrameKept /\ Born
  BY DEF ResumedOnce, OneThread, JoinInv, Once, Whos, Posted, Distinct, Members, OnCpu, Born

LEMMA PartsNext ==
  /\ ResumedOnce' <=> Once(queue') /\ Whos(queue') = Posted'
  /\ OneThread' <=> Distinct(stack') /\ Members(stack') = OnCpu'
  /\ IInv' <=> /\ TypeOK' /\ CounterExact' /\ NobodyForgotten' /\ OneThread'
              /\ JoinTold' /\ FrameKept' /\ Born' /\ ResumedOnce'
  BY DEF IInv, ResumedOnce, OneThread, JoinInv, Once, Whos, Posted, Distinct, Members, OnCpu, Born

\* Types in the form the provers use
LEMMA Types ==
  TypeOK <=>
    /\ kind \in {"trader", "opp", "guard"}
    /\ shut \in BOOLEAN /\ value \in BOOLEAN /\ crashed \in BOOLEAN
    /\ gen \in 0..MaxResets
    /\ counter \in 0..Cardinality(Tasks)
    /\ task \in [Tasks -> [stage : Stages \cup {"none", "ended"}, born : 0..MaxResets,
                           told : Outcomes \cup {"handled"}]]
    /\ owner \in [stage : Stages \cup {"joining", "told", "left"},
                  told : Outcomes \cup {"joined", "timeout", "caught"}]
    /\ queue \in Seq(Handler)
    /\ stack \in Seq(Coroutines)
  BY DEF TypeOK, Handler

LEMMA TypesNext ==
  TypeOK' <=>
    /\ kind' \in {"trader", "opp", "guard"}
    /\ shut' \in BOOLEAN /\ value' \in BOOLEAN /\ crashed' \in BOOLEAN
    /\ gen' \in 0..MaxResets
    /\ counter' \in 0..Cardinality(Tasks)
    /\ task' \in [Tasks -> [stage : Stages \cup {"none", "ended"}, born : 0..MaxResets,
                           told : Outcomes \cup {"handled"}]]
    /\ owner' \in [stage : Stages \cup {"joining", "told", "left"},
                  told : Outcomes \cup {"joined", "timeout", "caught"}]
    /\ queue' \in Seq(Handler)
    /\ stack' \in Seq(Coroutines)
  BY DEF TypeOK, Handler

\* Strategies are finitely many, so running ones can be counted.
LEMMA Counting ==
  /\ IsFiniteSet(Running) /\ Cardinality(Running) \in Nat
  /\ Cardinality(Running) <= Cardinality(Tasks) /\ Cardinality(Tasks) \in Nat
  /\ Cardinality(Running) = 0 <=> Running = {}
<1>1. Running \in SUBSET Tasks
  BY DEF Running
<1>2. IsFiniteSet(Running) /\ Cardinality(Running) <= Cardinality(Tasks)
  BY <1>1, TasksAssumption, FS_Subset
<1> QED BY <1>2, TasksAssumption, FS_CardinalityType, FS_EmptySet

LEMMA CountingNext ==
  /\ IsFiniteSet(Running') /\ Cardinality(Running') \in Nat
  /\ Cardinality(Running') <= Cardinality(Tasks) /\ Cardinality(Tasks) \in Nat
  /\ Cardinality(Running') = 0 <=> Running' = {}
<1>1. Running' \in SUBSET Tasks
  BY DEF Running
<1>2. IsFiniteSet(Running') /\ Cardinality(Running') <= Cardinality(Tasks)
  BY <1>1, TasksAssumption, FS_Subset
<1> QED BY <1>2, TasksAssumption, FS_CardinalityType, FS_EmptySet

\* The coroutine in control is the one that runs, and leaves the stack alone.
LEMMA Control ==
  ASSUME TypeOK, OneThread, NEW c \in Coroutines, InControl(c)
  PROVE  /\ Stage(c) = "running"
         /\ Front(stack) \in Seq(Coroutines)
         /\ Distinct(Front(stack)) /\ Members(Front(stack)) = OnCpu \ {c}
         /\ stack # <<>>
<1>1. stack \in Seq(Coroutines) /\ stack # <<>> /\ Last(stack) = c
  BY Types DEF InControl
<1>2. Distinct(stack) /\ Members(stack) = OnCpu
  BY Parts
<1>3. c \in OnCpu
  BY <1>1, <1>2, FrontDistinct
<1> QED BY <1>1, <1>2, <1>3, FrontDistinct DEF OnCpu

\* Nobody runs while the loop does.
LEMMA Looping ==
  ASSUME OneThread, InLoop
  PROVE  OnCpu = {}
  BY Parts DEF InLoop, Members

\* New handlers for coroutines that had none
LEMMA Posting ==
  ASSUME TypeOK, ResumedOnce, NEW n \in Seq(Handler), Once(n), Whos(n) \cap Posted = {},
         queue' = queue \o n, Posted' = Posted \cup Whos(n)
  PROVE  queue' \in Seq(Handler) /\ ResumedOnce'
  BY Parts, PartsNext, Types, OnceConcat

-----------------------------------------------------------------------------
(* The owner's frame *)

\* Notices that contexts closed, to strategies, do not touch what FrameKept says.
LEMMA FrameClosing ==
  ASSUME TypeOK, FrameKept, NEW n \in Seq(Handler),
         \A k \in DOMAIN n : n[k].res = "closed" /\ n[k].who # Owner,
         queue' = queue \o n, kind' = kind, owner' = owner, Running' = Running, shut' = shut,
         owner.stage = "running" /\ stack = <<Owner>> => stack' = stack,
         owner.stage = "left" =>
             \A t \in Tasks : task'[t].stage = "running" =>
                 \/ task[t].stage = "running" /\ task'[t].told = task[t].told
                 \/ task'[t].told = "closed"
  PROVE  FrameKept'
<1>1. /\ Len(queue \o n) = Len(queue) + Len(n) /\ Len(queue) \in Nat /\ Len(n) \in Nat
      /\ \A k \in 1..Len(queue) + Len(n) :
            (queue \o n)[k] = IF k <= Len(queue) THEN queue[k] ELSE n[k - Len(queue)]
      /\ DOMAIN queue = 1..Len(queue) /\ DOMAIN n = 1..Len(n)
      /\ queue \o n \in Seq(Handler)
  BY Types, ConcatProperties
<1>2. DOMAIN (queue \o n) = 1..Len(queue) + Len(n)
  BY <1>1
<1>3. ASSUME NEW k \in DOMAIN queue'
      PROVE  \/ k \in DOMAIN queue /\ queue'[k] = queue[k]
             \/ queue'[k].res = "closed" /\ queue'[k].who # Owner
  <2>1. CASE k <= Len(queue)
    BY <1>1, <1>2, <2>1
  <2>2. CASE k > Len(queue)
    <3>1. k - Len(queue) \in DOMAIN n
      BY <1>1, <1>2, <2>2
    <3> QED BY <1>1, <1>2, <2>2, <3>1
  <2> QED BY <1>1, <1>2, <2>1, <2>2
<1> QED BY <1>3 DEF FrameKept

\* Waiting strategies are told, each by one handler.
LEMMA Telling ==
  ASSUME TypeOK, ResumedOnce, NEW S \in SUBSET Waiting,
         NEW n \in Seq(Handler), Once(n), Whos(n) = S, queue' = queue \o n,
         \A t \in Tasks : task'[t].stage = IF t \in S THEN "posted" ELSE task[t].stage,
         owner'.stage = owner.stage
  PROVE  /\ Running' = Running /\ OnCpu' = OnCpu
         /\ queue' \in Seq(Handler) /\ ResumedOnce'
<1>1. \A t \in S : t \in Tasks /\ t # Owner /\ task[t].stage = "waiting"
  BY OwnerAssumption DEF Waiting
<1>2. Running' = Running /\ OnCpu' = OnCpu
  BY <1>1, OwnerAssumption DEF Running, OnCpu, Stage, Stages, Coroutines
<1>3. Posted' = Posted \cup S /\ S \cap Posted = {}
  BY <1>1, OwnerAssumption DEF Posted, Stage, Coroutines
<1>4. queue' \in Seq(Handler) /\ ResumedOnce'
  BY <1>3, Posting
<1> QED BY <1>2, <1>4

\* What Told does
LEMMA ToldType ==
  ASSUME TypeOK, NEW S \in SUBSET Waiting
  PROVE  /\ Told(S) \in [Tasks -> [stage : Stages \cup {"none", "ended"}, born : 0..MaxResets,
                                   told : Outcomes \cup {"handled"}]]
         /\ \A t \in Tasks : /\ Told(S)[t].stage = IF t \in S THEN "posted" ELSE task[t].stage
                             /\ Told(S)[t].born = task[t].born
                             /\ Told(S)[t].told = task[t].told
<1>1. task \in [Tasks -> [stage : Stages \cup {"none", "ended"}, born : 0..MaxResets,
                         told : Outcomes \cup {"handled"}]]
  BY Types
<1> QED BY <1>1 DEF Told, Stages

\* The owner gets its handler.
LEMMA OwnerPosted ==
  ASSUME TypeOK, ResumedOnce, NEW r \in {"go", "closed", "joined", "timeout"},
         queue' = queue \o Post(Owner, r), task' = task,
         owner.stage \notin {"posted", "told"}, owner'.stage \in {"posted", "told"}
  PROVE  /\ queue' \in Seq(Handler) /\ ResumedOnce' /\ Running' = Running
         /\ OnCpu' = OnCpu \ {Owner}
         /\ \A k \in DOMAIN queue' : queue'[k].who = Owner => queue'[k].res = r
<1> DEFINE n == Post(Owner, r)
<1>1. /\ n \in Seq(Handler) /\ DOMAIN n = {1} /\ n[1] = [who |-> Owner, res |-> r]
      /\ Once(n) /\ Whos(n) = {Owner}
  BY PostOnce DEF Handler
<1>2. Posted' = Posted \cup {Owner} /\ Owner \notin Posted /\ OnCpu' = OnCpu \ {Owner}
  BY OwnerAssumption DEF Posted, OnCpu, Stage, Coroutines
<1>3. queue' = queue \o n /\ queue \in Seq(Handler)
  BY Types
<1> HIDE DEF n
<1>4. queue' \in Seq(Handler) /\ ResumedOnce'
  BY <1>1, <1>2, <1>3, Posting
<1>5. \A k \in DOMAIN queue : queue[k].who # Owner
  BY <1>2, Parts DEF Whos
<1>6. \A k \in DOMAIN (queue \o n) : \/ k \in DOMAIN queue /\ (queue \o n)[k] = queue[k]
                                    \/ (queue \o n)[k] = [who |-> Owner, res |-> r]
  BY <1>1, <1>3, ConcatEntry
<1>7. Running' = Running
  BY DEF Running
<1> QED BY <1>2, <1>3, <1>4, <1>5, <1>6, <1>7

-----------------------------------------------------------------------------
(* One lemma per action *)

LEMMA WaitStep ==
  ASSUME IInv, NEW t \in Tasks, Wait(t)
  PROVE  IInv'
<1>1. /\ TypeOK /\ CounterExact /\ NobodyForgotten /\ OneThread
      /\ JoinTold /\ FrameKept /\ Born /\ ResumedOnce
  BY Parts DEF IInv
<1>2. /\ InControl(t) /\ task[t].told \in {"go", "error"} /\ Waits(t)
      /\ stack' = Front(stack)
      /\ UNCHANGED <<kind, shut, gen, counter, value, owner, crashed>>
  BY DEF Wait
<1>3. t # Owner /\ t \in Coroutines /\ task[t].stage = "running"
  BY <1>1, <1>2, OwnerAssumption, Control DEF Stage, Coroutines
<1>4. /\ stack' \in Seq(Coroutines)
      /\ Distinct(stack') /\ Members(stack') = OnCpu \ {t}
  BY <1>1, <1>2, <1>3, Control
<1>5. stack # <<Owner>>
  BY <1>2, <1>3 DEF InControl, Last
<1>6. /\ task \in [Tasks -> [stage : Stages \cup {"none", "ended"}, born : 0..MaxResets,
                           told : Outcomes \cup {"handled"}]]
      /\ queue \in Seq(Handler)
  BY <1>1, Types
<1>7. PICK s \in {"waiting", "posted"} : task' = [task EXCEPT ![t].stage = s]
  BY <1>2 DEF Waits
<1>8. Running' = Running /\ OnCpu' = OnCpu \ {t}
  BY <1>2, <1>3, <1>6, <1>7 DEF Running, OnCpu, Stage, Stages, Coroutines
<1>9. CounterExact' /\ JoinTold' /\ Born' /\ OneThread'
  BY <1>1, <1>2, <1>4, <1>6, <1>7, <1>8, PartsNext DEF CounterExact, JoinTold, Born
<1>10. queue' \in Seq(Handler) /\ ResumedOnce' /\ FrameKept' /\ NobodyForgotten'
  <2>1. CASE Cut(t)
    <3> DEFINE n == Post(t, "closed")
    <3>1. /\ n \in Seq(Handler) /\ DOMAIN n = {1} /\ n[1] = [who |-> t, res |-> "closed"]
          /\ Once(n) /\ Whos(n) = {t}
      BY PostOnce DEF Handler, Outcomes
    <3>2. queue' = queue \o n /\ task' = [task EXCEPT ![t].stage = "posted"]
      BY <1>2, <2>1 DEF Waits
    <3>3. Posted' = Posted \cup {t} /\ t \notin Posted
      BY <1>2, <1>3, <1>6, <3>2 DEF Posted, Stage, Coroutines
    <3> HIDE DEF n
    <3>4. queue' \in Seq(Handler) /\ ResumedOnce'
      BY <1>1, <3>1, <3>2, <3>3, Posting
    <3>5. \A u \in Tasks : task'[u].stage = "running" =>
             task[u].stage = "running" /\ task'[u].told = task[u].told
      BY <1>6, <3>2
    <3>6. FrameKept'
      <4>1. \A k \in DOMAIN n : n[k].res = "closed" /\ n[k].who # Owner
        BY <1>3, <3>1
      <4> QED BY <1>1, <1>2, <1>5, <1>8, <3>1, <3>2, <3>5, <4>1, FrameClosing
    <3>7. NobodyForgotten'
      BY <1>1, <1>2, <1>6, <1>8, <3>2 DEF NobodyForgotten, Waiting, Cut
    <3> QED BY <3>4, <3>6, <3>7
  <2>2. CASE ~Cut(t)
    <3>1. queue' = queue /\ task' = [task EXCEPT ![t].stage = "waiting"]
      BY <1>2, <2>2 DEF Waits
    <3>2. Posted' = Posted
      BY <1>2, <1>3, <1>6, <3>1 DEF Posted, Stage, Coroutines
    <3>3. queue' \in Seq(Handler) /\ ResumedOnce'
      BY <1>1, <1>6, <3>1, <3>2, Parts, PartsNext
    <3>4. \A u \in Tasks : task'[u].stage = "running" =>
             task[u].stage = "running" /\ task'[u].told = task[u].told
      BY <1>6, <3>1
    <3>5. FrameKept'
      <4>1. queue' = queue \o <<>> /\ <<>> \in Seq(Handler) /\ DOMAIN <<>> = {}
        BY <1>6, <3>1
      <4> QED BY <1>1, <1>2, <1>5, <1>8, <3>4, <4>1, FrameClosing
    <3>6. NobodyForgotten'
      BY <1>1, <1>2, <1>6, <1>8, <2>2, <3>1 DEF NobodyForgotten, Waiting, Cut
    <3> QED BY <3>3, <3>5, <3>6
  <2> QED BY <2>1, <2>2
<1>11. TypeOK'
  BY <1>1, <1>2, <1>4, <1>6, <1>7, <1>10, Types, TypesNext DEF Stages
<1> QED BY <1>9, <1>10, <1>11, PartsNext

LEMMA ResetStep ==
  ASSUME IInv, NEW c \in Coroutines, Reset(c)
  PROVE  IInv'
<1>1. /\ TypeOK /\ CounterExact /\ NobodyForgotten /\ OneThread
      /\ JoinTold /\ FrameKept /\ Born /\ ResumedOnce
  BY Parts DEF IInv
<1>2. /\ c = Owner => kind = "guard"
      /\ c # Owner => c \in Tasks /\ task[c].told \in {"go", "error"}
      /\ InControl(c)
      /\ UNCHANGED <<kind, shut, counter, value, stack, crashed>>
  BY DEF Reset, Free, Coroutines
<1>3. Stage(c) = "running"
  BY <1>1, <1>2, Control
<1>4. /\ task \in [Tasks -> [stage : Stages \cup {"none", "ended"}, born : 0..MaxResets,
                           told : Outcomes \cup {"handled"}]]
      /\ owner \in [stage : Stages \cup {"joining", "told", "left"},
                    told : Outcomes \cup {"joined", "timeout", "caught"}]
      /\ queue \in Seq(Handler) /\ stack \in Seq(Coroutines) /\ gen \in 0..MaxResets
  BY <1>1, Types
<1>5. CASE shut
  <2>1. Thrown(c) /\ gen' = gen /\ queue' = queue
    BY <1>5 DEF Reset
  <2>2. /\ task' \in [Tasks -> [stage : Stages \cup {"none", "ended"}, born : 0..MaxResets,
                           told : Outcomes \cup {"handled"}]]
        /\ owner' \in [stage : Stages \cup {"joining", "told", "left"},
                    told : Outcomes \cup {"joined", "timeout", "caught"}]
        /\ \A t \in Tasks : task'[t].stage = task[t].stage /\ task'[t].born = task[t].born
        /\ \A t \in Tasks : task'[t].told \in {task[t].told, "closed"}
        /\ owner'.stage = owner.stage
        /\ c # Owner => owner' = owner
    BY <1>4, <2>1 DEF Thrown, Outcomes
  <2>3. queue' = queue \o <<>> /\ <<>> \in Seq(Handler) /\ DOMAIN <<>> = {}
    BY <1>4, <2>1
  <2>4. Running' = Running /\ OnCpu' = OnCpu /\ queue' \in Seq(Handler) /\ ResumedOnce'
    <3>1. Once(<<>>) /\ Whos(<<>>) = {} /\ {} \in SUBSET Waiting
      BY DEF Once, Whos
    <3> QED BY <1>1, <2>2, <2>3, <3>1, Telling
  <2>5. CounterExact' /\ JoinTold' /\ Born' /\ OneThread'
    BY <1>1, <1>2, <2>1, <2>2, <2>4, Parts, PartsNext DEF CounterExact, JoinTold, Born
  <2>6. NobodyForgotten'
    BY <1>1, <1>2, <2>1, <2>2, <2>4 DEF NobodyForgotten, Waiting, Cut
  <2>7. FrameKept'
    <3>1. CASE c = Owner
      BY <1>2, <3>1 DEF FrameKept
    <3>2. CASE c # Owner
      <4>1. \A t \in Tasks : task'[t].stage = "running" =>
             \/ task[t].stage = "running" /\ task'[t].told = task[t].told
             \/ task'[t].told = "closed"
        BY <2>2
      <4> QED BY <1>1, <1>2, <2>2, <2>3, <2>4, <3>2, <4>1, FrameClosing
    <3> QED BY <3>1, <3>2
  <2>8. TypeOK'
    BY <1>1, <1>2, <2>1, <2>2, <2>4, Types, TypesNext
  <2> QED BY <2>4, <2>5, <2>6, <2>7, <2>8, PartsNext
<1>6. CASE ~shut
  <2> DEFINE S == {t \in Waiting : task[t].born = gen}
  <2>1. PICK n \in Notices(S) : queue' = queue \o n
    BY <1>6 DEF Reset, Replaced
  <2>2. gen < MaxResets /\ gen' = gen + 1 /\ task' = Told(S)
    BY <1>6 DEF Reset, Replaced
  <2>3. /\ owner' \in [stage : Stages \cup {"joining", "told", "left"},
                    told : Outcomes \cup {"joined", "timeout", "caught"}]
        /\ owner'.stage = owner.stage
        /\ c # Owner => owner' = owner
    BY <1>4, <1>6 DEF Reset
  <2>4. S \in SUBSET Waiting /\ S \in SUBSET Tasks
    BY DEF Waiting
  <2>5. /\ n \in Seq(Handler) /\ Once(n) /\ Whos(n) = S
        /\ \A k \in DOMAIN n : n[k].res = "closed"
    BY <2>1, <2>4, NoticesOnce
  <2>6. \A k \in DOMAIN n : n[k].who # Owner
    BY <2>4, <2>5, OwnerAssumption DEF Whos
  <2>7. /\ task' \in [Tasks -> [stage : Stages \cup {"none", "ended"}, born : 0..MaxResets,
                                told : Outcomes \cup {"handled"}]]
        /\ \A t \in Tasks : /\ task'[t].stage = IF t \in S THEN "posted" ELSE task[t].stage
                            /\ task'[t].born = task[t].born
                            /\ task'[t].told = task[t].told
    BY <1>1, <2>2, <2>4, ToldType
  <2>8. \A t \in S : t \in Waiting /\ task[t].born = gen
    OBVIOUS
  <2>9. \A t \in Waiting : task[t].born = gen => t \in S
    OBVIOUS
  <2> HIDE DEF S
  <2>10. Running' = Running /\ OnCpu' = OnCpu /\ queue' \in Seq(Handler) /\ ResumedOnce'
    BY <1>1, <2>1, <2>3, <2>4, <2>5, <2>7, Telling
  <2>11. Born'
    BY <1>1, <1>4, <2>2, <2>7 DEF Born
  <2>12. CounterExact' /\ JoinTold' /\ OneThread'
    BY <1>1, <1>2, <2>3, <2>10, Parts, PartsNext DEF CounterExact, JoinTold
  <2>13. NobodyForgotten'
    <3>1. ASSUME NEW t \in Tasks, task'[t].stage = "waiting"
          PROVE  ~shut' /\ owner'.stage # "left" /\ ~(task'[t].born < gen')
      <4>1. t \in Waiting /\ t \notin S
        BY <2>7, <3>1 DEF Waiting
      <4>2. ~(task[t].born < gen)
        BY <1>1, <4>1 DEF NobodyForgotten, Cut
      <4>3. task[t].born <= gen /\ task[t].born # gen
        BY <1>1, <2>9, <4>1 DEF Born
      <4>4. task[t].born \in Nat /\ gen \in Nat
        BY <1>4
      <4> QED BY <4>2, <4>3, <4>4
    <3>2. \A t \in Waiting' : ~Cut(t)'
      BY <3>1 DEF Waiting, Cut
    <3> QED BY <1>1, <1>2, <2>3, <2>10, <3>2 DEF NobodyForgotten
  <2>14. FrameKept'
    <3>1. CASE c = Owner
      BY <1>2, <3>1 DEF FrameKept
    <3>2. CASE c # Owner
      <4>1. \A t \in Tasks : task'[t].stage = "running" =>
             task[t].stage = "running" /\ task'[t].told = task[t].told
        BY <2>7
      <4> QED BY <1>1, <1>2, <2>1, <2>3, <2>5, <2>6, <2>10, <3>2, <4>1, FrameClosing
    <3> QED BY <3>1, <3>2
  <2>15. TypeOK'
    <3>1. gen' \in 0..MaxResets
      BY <1>4, <2>2, ResetsAssumption
    <3> QED BY <1>1, <1>2, <2>3, <2>7, <2>10, <3>1, Types, TypesNext
  <2> QED BY <2>10, <2>11, <2>12, <2>13, <2>14, <2>15, PartsNext
<1> QED BY <1>5, <1>6

LEMMA FailStep ==
  ASSUME IInv, NEW f \in Tasks, Fail(f)
  PROVE  IInv'
<1>1. /\ TypeOK /\ CounterExact /\ NobodyForgotten /\ OneThread
      /\ JoinTold /\ FrameKept /\ Born /\ ResumedOnce
  BY Parts DEF IInv
<1>2. /\ kind # "guard" /\ task[f].told = "error" /\ InControl(f)
      /\ UNCHANGED <<kind, shut, counter, value, owner, stack>>
  BY DEF Fail
<1>3. f # Owner /\ task[f].stage = "running"
  BY <1>1, <1>2, OwnerAssumption, Control DEF Stage, Coroutines
<1>4. /\ task \in [Tasks -> [stage : Stages \cup {"none", "ended"}, born : 0..MaxResets,
                           told : Outcomes \cup {"handled"}]]
      /\ queue \in Seq(Handler) /\ stack \in Seq(Coroutines) /\ gen \in 0..MaxResets
  BY <1>1, Types
<1>5. CASE Cut(f)
  <2>1. crashed' = TRUE /\ UNCHANGED <<gen, task, queue>>
    BY <1>5 DEF Fail
  <2>2. /\ TypeOK' /\ CounterExact' /\ NobodyForgotten' /\ OneThread'
        /\ JoinTold' /\ FrameKept' /\ Born' /\ ResumedOnce'
    <3>1. TypeOK'
      BY <1>1, <1>2, <2>1, Types, TypesNext
    <3>2. CounterExact' /\ NobodyForgotten' /\ JoinTold' /\ Born'
      BY <1>1, <1>2, <2>1 DEF CounterExact, NobodyForgotten, JoinTold, Born, Running, Waiting, Cut
    <3>3. OneThread' /\ ResumedOnce' /\ FrameKept'
      BY <1>1, <1>2, <2>1 DEF OneThread, ResumedOnce, FrameKept, Stage, Running
    <3> QED BY <3>1, <3>2, <3>3
  <2> QED BY <2>2, PartsNext
<1>6. CASE ~Cut(f)
  <2> DEFINE S == {t \in Waiting : task[t].born = gen}
  <2>1. PICK n \in Notices(S) : queue' = queue \o n
    BY <1>6 DEF Fail
  <2>2. /\ gen < MaxResets /\ gen' = gen + 1 /\ crashed' = crashed
        /\ task' = [Told(S) EXCEPT ![f].told = "handled"]
    BY <1>6 DEF Fail
  <2>3. S \in SUBSET Waiting /\ S \in SUBSET Tasks
    BY DEF Waiting
  <2>4. /\ n \in Seq(Handler) /\ Once(n) /\ Whos(n) = S
        /\ \A k \in DOMAIN n : n[k].res = "closed"
    BY <2>1, <2>3, NoticesOnce
  <2>5. \A k \in DOMAIN n : n[k].who # Owner
    BY <2>3, <2>4, OwnerAssumption DEF Whos
  <2>6. /\ Told(S) \in [Tasks -> [stage : Stages \cup {"none", "ended"}, born : 0..MaxResets,
                                told : Outcomes \cup {"handled"}]]
        /\ \A t \in Tasks : /\ Told(S)[t].stage = IF t \in S THEN "posted" ELSE task[t].stage
                            /\ Told(S)[t].born = task[t].born
    BY <1>1, <2>3, ToldType
  <2>7. \A t \in Waiting : task[t].born = gen => t \in S
    OBVIOUS
  <2> HIDE DEF S
  <2>8. /\ task' \in [Tasks -> [stage : Stages \cup {"none", "ended"}, born : 0..MaxResets,
                                told : Outcomes \cup {"handled"}]]
        /\ \A t \in Tasks : /\ task'[t].stage = IF t \in S THEN "posted" ELSE task[t].stage
                            /\ task'[t].born = task[t].born
    BY <2>2, <2>6
  <2>9. owner'.stage = owner.stage
    BY <1>2
  <2>10. Running' = Running /\ OnCpu' = OnCpu /\ queue' \in Seq(Handler) /\ ResumedOnce'
    BY <1>1, <2>1, <2>3, <2>4, <2>8, <2>9, Telling
  <2>11. Born'
    BY <1>1, <1>4, <2>2, <2>8 DEF Born
  <2>12. CounterExact' /\ JoinTold' /\ OneThread'
    BY <1>1, <1>2, <2>10, Parts, PartsNext DEF CounterExact, JoinTold
  <2>13. NobodyForgotten'
    <3>1. ASSUME NEW t \in Tasks, task'[t].stage = "waiting"
          PROVE  ~shut' /\ owner'.stage # "left" /\ ~(task'[t].born < gen')
      <4>1. t \in Waiting /\ t \notin S
        BY <2>8, <3>1 DEF Waiting
      <4>2. ~(task[t].born < gen) /\ ~shut /\ owner.stage # "left"
        BY <1>1, <4>1 DEF NobodyForgotten, Cut
      <4>3. task[t].born <= gen /\ task[t].born # gen
        BY <1>1, <2>7, <4>1 DEF Born
      <4>4. task[t].born \in Nat /\ gen \in Nat
        BY <1>4
      <4> QED BY <4>2, <4>3, <4>4
    <3>2. \A t \in Waiting' : ~Cut(t)'
      BY <3>1 DEF Waiting, Cut
    <3> QED BY <1>1, <1>2, <2>10, <3>2 DEF NobodyForgotten
  <2>14. FrameKept'
    BY <1>1, <1>2, <1>6, <2>1, <2>4, <2>5, <2>10, FrameClosing DEF Cut
  <2>15. TypeOK'
    <3>1. gen' \in 0..MaxResets
      BY <1>4, <2>2, ResetsAssumption
    <3> QED BY <1>1, <1>2, <2>2, <2>8, <2>10, <3>1, Types, TypesNext
  <2> QED BY <2>10, <2>11, <2>12, <2>13, <2>14, <2>15, PartsNext
<1> QED BY <1>5, <1>6

LEMMA FinishStep ==
  ASSUME IInv, NEW t \in Tasks, Finish(t)
  PROVE  IInv'
<1>1. /\ TypeOK /\ CounterExact /\ NobodyForgotten /\ OneThread
      /\ JoinTold /\ FrameKept /\ Born /\ ResumedOnce
  BY Parts DEF IInv
<1>2. /\ InControl(t) /\ task' = [task EXCEPT ![t].stage = "ended"]
      /\ Discounted /\ stack' = Front(stack)
      /\ UNCHANGED <<kind, shut, gen, crashed>>
  BY DEF Finish
<1>3. t # Owner /\ t \in Coroutines /\ task[t].stage = "running"
  BY <1>1, <1>2, OwnerAssumption, Control DEF Stage, Coroutines
<1>4. /\ stack' \in Seq(Coroutines)
      /\ Distinct(stack') /\ Members(stack') = OnCpu \ {t}
  BY <1>1, <1>2, <1>3, Control
<1>5. stack # <<Owner>>
  BY <1>2, <1>3 DEF InControl, Last
<1>6. /\ task \in [Tasks -> [stage : Stages \cup {"none", "ended"}, born : 0..MaxResets,
                           told : Outcomes \cup {"handled"}]]
      /\ owner \in [stage : Stages \cup {"joining", "told", "left"},
                    told : Outcomes \cup {"joined", "timeout", "caught"}]
      /\ queue \in Seq(Handler)
      /\ value \in BOOLEAN /\ counter \in 0..Cardinality(Tasks)
  BY <1>1, Types
<1>7. /\ task' \in [Tasks -> [stage : Stages \cup {"none", "ended"}, born : 0..MaxResets,
                                told : Outcomes \cup {"handled"}]]
      /\ \A u \in Tasks : /\ task'[u].stage = IF u = t THEN "ended" ELSE task[u].stage
                          /\ task'[u].born = task[u].born /\ task'[u].told = task[u].told
  BY <1>2, <1>6
<1>8. t \in Running /\ Running' = Running \ {t}
  BY <1>3, <1>7 DEF Running, Stages
<1>9. Cardinality(Running') = Cardinality(Running) - 1
  BY <1>8, Counting, FS_RemoveElement
<1>10. /\ counter' = counter - 1 /\ value' = (counter = 1) /\ ~value
       /\ counter = Cardinality(Running)
  BY <1>1, <1>2, <1>6, <1>8, Counting DEF Discounted, CounterExact
<1>11. CounterExact'
  BY <1>9, <1>10, Counting DEF CounterExact
<1>12. value' <=> Running' = {}
  <2>1. counter = 1 <=> Running' = {}
    BY <1>9, <1>10, Counting, CountingNext
  <2> QED BY <1>10, <2>1
<1>13. Born'
  BY <1>1, <1>2, <1>7 DEF Born
<1>14. CASE value' /\ owner.stage = "joining"
  <2> DEFINE n == Post(Owner, "joined")
  <2>1. owner' = [owner EXCEPT !.stage = "told"] /\ queue' = queue \o n
    BY <1>2, <1>10, <1>14 DEF Discounted
  <2>2. /\ n \in Seq(Handler) /\ DOMAIN n = {1} /\ n[1] = [who |-> Owner, res |-> "joined"]
        /\ Once(n) /\ Whos(n) = {Owner}
    BY PostOnce DEF Handler
  <2>3. /\ owner' \in [stage : Stages \cup {"joining", "told", "left"},
                       told : Outcomes \cup {"joined", "timeout", "caught"}]
        /\ owner'.stage = "told" /\ owner'.told = owner.told
    BY <1>6, <2>1
  <2>4. Posted' = Posted \cup {Owner} /\ Owner \notin Posted /\ OnCpu' = OnCpu \ {t}
    BY <1>3, <1>7, <1>14, <2>3, OwnerAssumption DEF Posted, OnCpu, Stage, Coroutines
  <2> HIDE DEF n
  <2>5. queue' \in Seq(Handler) /\ ResumedOnce'
    BY <1>1, <2>1, <2>2, <2>4, Posting
  <2>6. \A k \in DOMAIN queue' : queue'[k].who = Owner => queue'[k].res = "joined"
    <3>1. \A k \in DOMAIN queue : queue[k].who # Owner
      BY <1>1, <2>4, Parts DEF Whos
    <3>2. \A k \in DOMAIN (queue \o n) : \/ k \in DOMAIN queue /\ (queue \o n)[k] = queue[k]
                                        \/ (queue \o n)[k] = [who |-> Owner, res |-> "joined"]
      BY <1>6, <2>2, ConcatEntry
    <3> QED BY <2>1, <2>2, <3>1, <3>2
  <2>7. FrameKept'
    BY <1>1, <1>2, <1>12, <1>14, <2>3, <2>6 DEF FrameKept
  <2>8. NobodyForgotten' /\ JoinTold' /\ OneThread'
    BY <1>1, <1>2, <1>4, <1>7, <1>12, <1>14, <2>3, <2>4, PartsNext
       DEF NobodyForgotten, JoinTold, Waiting, Cut
  <2>9. TypeOK'
    BY <1>1, <1>2, <1>4, <1>7, <1>9, <1>10, <2>3, <2>5, CountingNext, Types, TypesNext
  <2> QED BY <1>11, <1>13, <2>5, <2>7, <2>8, <2>9, PartsNext
<1>15. CASE ~(value' /\ owner.stage = "joining")
  <2>1. owner' = owner /\ queue' = queue
    BY <1>2, <1>10, <1>15 DEF Discounted
  <2>2. Posted' = Posted /\ OnCpu' = OnCpu \ {t}
    BY <1>3, <1>7, <2>1, OwnerAssumption DEF Posted, OnCpu, Stage, Coroutines
  <2>3. ResumedOnce'
    BY <1>1, <2>1, <2>2, Parts, PartsNext
  <2>4. NobodyForgotten' /\ JoinTold' /\ OneThread'
    BY <1>1, <1>2, <1>4, <1>7, <1>8, <1>12, <1>15, <2>1, <2>2, PartsNext
       DEF NobodyForgotten, JoinTold, Waiting, Cut
  <2>5. FrameKept'
    BY <1>1, <1>2, <1>5, <1>7, <1>8, <2>1 DEF FrameKept
  <2>6. TypeOK'
    BY <1>1, <1>2, <1>4, <1>6, <1>7, <1>9, <1>10, <2>1, CountingNext, Types, TypesNext
  <2> QED BY <1>11, <1>13, <2>3, <2>4, <2>5, <2>6, PartsNext
<1> QED BY <1>14, <1>15

\* In a closed context the attempt to spawn only tells the coroutine so.
LEMMA SpawnThrownStep ==
  ASSUME IInv, NEW c \in Coroutines, NEW u \in Tasks, Spawn(c, u), shut
  PROVE  IInv'
<1>1. /\ TypeOK /\ CounterExact /\ NobodyForgotten /\ OneThread
      /\ JoinTold /\ FrameKept /\ Born /\ ResumedOnce
  BY Parts DEF IInv
<1>2. /\ c = Owner => owner.told \in {"go", "joined"}
      /\ c # Owner => c \in Tasks
      /\ InControl(c)
      /\ Thrown(c)
      /\ UNCHANGED <<kind, shut, gen, counter, value, queue, stack, crashed>>
  BY DEF Spawn, Free, Coroutines
<1>3. Stage(c) = "running"
  BY <1>1, <1>2, Control
<1>4. /\ task \in [Tasks -> [stage : Stages \cup {"none", "ended"}, born : 0..MaxResets,
                           told : Outcomes \cup {"handled"}]]
      /\ owner \in [stage : Stages \cup {"joining", "told", "left"},
                    told : Outcomes \cup {"joined", "timeout", "caught"}]
      /\ queue \in Seq(Handler) /\ stack \in Seq(Coroutines)
  BY <1>1, Types
<1>5. /\ task' \in [Tasks -> [stage : Stages \cup {"none", "ended"}, born : 0..MaxResets,
                           told : Outcomes \cup {"handled"}]]
      /\ owner' \in [stage : Stages \cup {"joining", "told", "left"},
                     told : Outcomes \cup {"joined", "timeout", "caught"}]
      /\ \A t \in Tasks : task'[t].stage = task[t].stage /\ task'[t].born = task[t].born
      /\ \A t \in Tasks : task'[t].told \in {task[t].told, "closed"}
      /\ owner'.stage = owner.stage
      /\ owner'.told \in {owner.told, "closed"}
      /\ c # Owner => owner' = owner
  BY <1>2, <1>4 DEF Thrown, Outcomes
<1>6. queue' = queue \o <<>> /\ <<>> \in Seq(Handler) /\ DOMAIN <<>> = {}
  BY <1>2, <1>4
<1>7. Running' = Running /\ OnCpu' = OnCpu /\ queue' \in Seq(Handler) /\ ResumedOnce'
  <2>1. Once(<<>>) /\ Whos(<<>>) = {} /\ {} \in SUBSET Waiting
    BY DEF Once, Whos
  <2> QED BY <1>1, <1>5, <1>6, <2>1, Telling
<1>8. CounterExact' /\ JoinTold' /\ Born' /\ OneThread'
  BY <1>1, <1>2, <1>5, <1>7, Parts, PartsNext DEF CounterExact, JoinTold, Born
<1>9. NobodyForgotten'
  BY <1>1, <1>2, <1>5, <1>7 DEF NobodyForgotten, Waiting, Cut
<1>10. FrameKept'
  <2>1. CASE c = Owner
    <3>1. owner.stage = "running" /\ owner.told \in {"go", "joined"}
      BY <1>2, <1>3, <2>1 DEF Stage
    <3>2. kind = "trader" => Running = {}
      BY <1>1, <3>1 DEF FrameKept
    <3> QED BY <1>1, <1>2, <1>5, <1>7, <3>1, <3>2 DEF FrameKept
  <2>2. CASE c # Owner
    BY <1>1, <1>2, <1>5, <1>6, <1>7, <2>2, FrameClosing
  <2> QED BY <2>1, <2>2
<1>11. TypeOK'
  BY <1>1, <1>2, <1>5, <1>7, Types, TypesNext
<1> QED BY <1>7, <1>8, <1>9, <1>10, <1>11, PartsNext

LEMMA SpawnStep ==
  ASSUME IInv, NEW c \in Coroutines, NEW u \in Tasks, Spawn(c, u), ~shut
  PROVE  IInv'
<1>1. /\ TypeOK /\ CounterExact /\ NobodyForgotten /\ OneThread
      /\ JoinTold /\ FrameKept /\ Born /\ ResumedOnce
  BY Parts DEF IInv
<1>2. /\ c = Owner => owner.told \in {"go", "joined"}
      /\ c # Owner => c \in Tasks /\ task[c].told \in {"go", "error", "handled"}
      /\ InControl(c)
      /\ task[u].stage = "none" /\ Counted
      /\ owner' = IF c = Owner THEN [owner EXCEPT !.told = "go"] ELSE owner
      /\ UNCHANGED <<kind, shut, gen, crashed>>
  BY DEF Spawn, Free, Coroutines
<1>3. Stage(c) = "running" /\ u # Owner /\ u \in Coroutines
  BY <1>1, <1>2, Control, OwnerAssumption DEF Coroutines
<1>4. /\ task \in [Tasks -> [stage : Stages \cup {"none", "ended"}, born : 0..MaxResets,
                           told : Outcomes \cup {"handled"}]]
      /\ owner \in [stage : Stages \cup {"joining", "told", "left"},
                    told : Outcomes \cup {"joined", "timeout", "caught"}]
      /\ queue \in Seq(Handler) /\ stack \in Seq(Coroutines)
      /\ value \in BOOLEAN /\ counter \in 0..Cardinality(Tasks)
      /\ gen \in 0..MaxResets
  BY <1>1, Types
<1>5. /\ owner' \in [stage : Stages \cup {"joining", "told", "left"},
                     told : Outcomes \cup {"joined", "timeout", "caught"}]
      /\ owner'.stage = owner.stage
      /\ owner'.told = IF c = Owner THEN "go" ELSE owner.told
  BY <1>2, <1>4 DEF Outcomes
<1>6. PICK s \in {"running", "posted"} :
         /\ task' = [task EXCEPT ![u] = [stage |-> s, born |-> gen, told |-> "go"]]
         /\ s = "running" => stack' = Append(stack, u) /\ queue' = queue
         /\ s = "posted" => queue' = queue \o Post(u, "go") /\ stack' = stack
  BY DEF Spawn
<1>7. /\ task' \in [Tasks -> [stage : Stages \cup {"none", "ended"}, born : 0..MaxResets,
                           told : Outcomes \cup {"handled"}]]
      /\ task'[u].stage = s /\ task'[u].born = gen /\ task'[u].told = "go"
      /\ \A t \in Tasks : t # u => task'[t] = task[t]
  BY <1>4, <1>6 DEF Stages, Outcomes
<1>8. u \notin Running /\ Running' = Running \cup {u}
  BY <1>2, <1>6, <1>7 DEF Running, Stages
<1>9. Cardinality(Running') = Cardinality(Running) + 1
  BY <1>8, Counting, FS_AddElement
<1>10. CounterExact' /\ counter' \in 0..Cardinality(Tasks) /\ value' \in BOOLEAN
  <2>1. counter = Cardinality(Running) /\ counter' = counter + 1 /\ value' = FALSE
    BY <1>1, <1>2 DEF CounterExact, Counted
  <2>2. counter' = Cardinality(Running') /\ counter' # 0 /\ counter' \in 0..Cardinality(Tasks)
    BY <1>9, <2>1, Counting, CountingNext
  <2> QED BY <2>1, <2>2 DEF CounterExact
<1>11. Born'
  <2>1. gen <= gen
    BY <1>4, ResetsAssumption
  <2> QED BY <1>1, <1>2, <1>7, <2>1 DEF Born
<1>12. c # Owner => c \in Running
  BY <1>2, <1>3 DEF Running, Stages, Stage
<1>13. c = Owner => owner.stage = "running"
  BY <1>3 DEF Stage
<1>14. JoinTold'
  BY <1>1, <1>5, <1>12, <1>13 DEF JoinTold
<1>15. NobodyForgotten'
  <2>1. Waiting' = Waiting /\ \A t \in Waiting : t \in Tasks /\ t # u
    BY <1>2, <1>6, <1>7 DEF Waiting
  <2>2. \A t \in Waiting' : ~Cut(t)'
    BY <1>1, <1>2, <1>5, <1>7, <2>1 DEF NobodyForgotten, Cut
  <2> QED BY <1>1, <1>2, <1>5, <1>8, <2>2 DEF NobodyForgotten
<1>16. kind = "trader" => \A k \in DOMAIN queue : queue[k].who # Owner
  <2>1. CASE c = Owner
    <3>1. Owner \notin Posted
      BY <1>13, <2>1 DEF Posted, Stage
    <3> QED BY <1>1, <3>1, Parts DEF Whos
  <2>2. CASE c # Owner
    BY <1>1, <1>12, <2>2 DEF FrameKept
  <2> QED BY <2>1, <2>2
<1>17. ASSUME \A k \in DOMAIN queue' : queue'[k].who = Owner =>
                 \E j \in DOMAIN queue : queue[j].who = Owner
       PROVE  FrameKept'
  <2>1. CASE c = Owner
    BY <1>1, <1>2, <1>5, <1>13, <1>16, <1>17, <2>1 DEF FrameKept
  <2>2. CASE c # Owner
    <3>1. kind = "trader" => owner.stage # "left"
      BY <1>1, <1>2, <1>3, <2>2 DEF FrameKept, Stage
    <3> QED BY <1>1, <1>2, <1>5, <1>12, <1>16, <1>17, <2>2, <3>1 DEF FrameKept
  <2> QED BY <2>1, <2>2
<1>18. CASE s = "running"
  <2>1. u \notin Members(stack)
    <3>1. u \notin OnCpu
      BY <1>2, <1>3 DEF OnCpu, Stage
    <3> QED BY <1>1, <3>1, Parts
  <2>2. /\ stack' \in Seq(Coroutines) /\ Distinct(stack')
        /\ Members(stack') = OnCpu \cup {u}
    <3>1. Distinct(stack) /\ Members(stack) = OnCpu /\ stack' = Append(stack, u)
      BY <1>1, <1>6, <1>18, Parts
    <3> QED BY <1>3, <1>4, <2>1, <3>1, AppendDistinct
  <2>3. OnCpu' = OnCpu \cup {u} /\ Posted' = Posted
    BY <1>2, <1>3, <1>5, <1>7, <1>18 DEF OnCpu, Posted, Stage, Coroutines
  <2>4. OneThread' /\ ResumedOnce'
    BY <1>1, <1>6, <1>18, <2>2, <2>3, Parts, PartsNext
  <2>5. FrameKept'
    BY <1>6, <1>17, <1>18
  <2>6. TypeOK'
    BY <1>1, <1>2, <1>4, <1>5, <1>6, <1>7, <1>10, <1>18, <2>2, Types, TypesNext
  <2> QED BY <1>10, <1>11, <1>14, <1>15, <2>4, <2>5, <2>6, PartsNext
<1>19. CASE s = "posted"
  <2> DEFINE n == Post(u, "go")
  <2>1. /\ n \in Seq(Handler) /\ DOMAIN n = {1} /\ n[1] = [who |-> u, res |-> "go"]
        /\ Once(n) /\ Whos(n) = {u}
    BY PostOnce DEF Handler, Outcomes
  <2>2. queue' = queue \o n /\ stack' = stack
    BY <1>6, <1>19
  <2>3. OnCpu' = OnCpu /\ Posted' = Posted \cup {u} /\ u \notin Posted
    BY <1>2, <1>3, <1>5, <1>7, <1>19 DEF OnCpu, Posted, Stage, Coroutines
  <2> HIDE DEF n
  <2>4. queue' \in Seq(Handler) /\ ResumedOnce'
    BY <1>1, <2>1, <2>2, <2>3, Posting
  <2>5. OneThread'
    BY <1>1, <2>2, <2>3, Parts, PartsNext
  <2>6. FrameKept'
    <3>1. \A k \in DOMAIN (queue \o n) : \/ k \in DOMAIN queue /\ (queue \o n)[k] = queue[k]
                                        \/ (queue \o n)[k] = [who |-> u, res |-> "go"]
      BY <1>4, <2>1, ConcatEntry
    <3> QED BY <1>3, <1>17, <2>2, <3>1
  <2>7. TypeOK'
    BY <1>1, <1>2, <1>4, <1>5, <1>7, <1>10, <2>2, <2>4, Types, TypesNext
  <2> QED BY <1>10, <1>11, <1>14, <1>15, <2>4, <2>5, <2>6, <2>7, PartsNext
<1> QED BY <1>18, <1>19

LEMMA JoinStep ==
  ASSUME IInv, Join
  PROVE  IInv'
<1>1. /\ TypeOK /\ CounterExact /\ NobodyForgotten /\ OneThread
      /\ JoinTold /\ FrameKept /\ Born /\ ResumedOnce
  BY Parts DEF IInv
<1>2. /\ InControl(Owner) /\ owner.told \in {"go", "joined"}
      /\ Joins /\ stack' = Front(stack)
      /\ UNCHANGED <<kind, shut, gen, counter, value, task, crashed>>
  BY DEF Join, Free
<1>3. owner.stage = "running" /\ Owner \in Coroutines
  BY <1>1, <1>2, Control DEF Stage, Coroutines
<1>4. /\ stack' \in Seq(Coroutines)
      /\ Distinct(stack') /\ Members(stack') = OnCpu \ {Owner}
  BY <1>1, <1>2, <1>3, Control
<1>5. /\ owner \in [stage : Stages \cup {"joining", "told", "left"},
                    told : Outcomes \cup {"joined", "timeout", "caught"}]
      /\ queue \in Seq(Handler)
  BY <1>1, Types
<1>6. Running' = Running /\ Waiting' = Waiting /\ CounterExact' /\ Born'
  BY <1>1, <1>2 DEF Running, Waiting, CounterExact, Born
<1>7. value <=> Running = {}
  BY <1>1, Counting DEF CounterExact
<1>8. kind = "trader" => Running = {} \/ ~shut
  BY <1>1, <1>2, <1>3 DEF FrameKept
<1>9. CASE value \/ shut
  <2>1. PICK r \in {"joined", "closed"}, s \in {"told", "posted"} :
           /\ owner' = [owner EXCEPT !.stage = s] /\ queue' = queue \o Post(Owner, r)
           /\ IF value THEN s = "told" /\ r = "joined" ELSE s = "posted" /\ r = "closed"
    BY <1>2, <1>9 DEF Joins
  <2>2. /\ owner' \in [stage : Stages \cup {"joining", "told", "left"},
                    told : Outcomes \cup {"joined", "timeout", "caught"}]
        /\ owner'.stage = s /\ owner'.told = owner.told
    BY <1>5, <2>1 DEF Stages
  <2>3. /\ queue' \in Seq(Handler) /\ ResumedOnce'
        /\ OnCpu' = OnCpu \ {Owner}
        /\ \A k \in DOMAIN queue' : queue'[k].who = Owner => queue'[k].res = r
    BY <1>1, <1>2, <1>3, <2>1, <2>2, OwnerPosted
  <2>4. OneThread'
    BY <1>4, <2>3, PartsNext
  <2>5. NobodyForgotten' /\ JoinTold'
    BY <1>1, <1>2, <1>6, <1>7, <1>9, <2>1, <2>2 DEF NobodyForgotten, JoinTold, Cut
  <2>6. FrameKept'
    BY <1>1, <1>2, <1>3, <1>6, <1>7, <1>8, <1>9, <2>1, <2>2, <2>3 DEF FrameKept
  <2>7. TypeOK'
    BY <1>1, <1>2, <1>4, <2>2, <2>3, Types, TypesNext
  <2> QED BY <1>6, <2>3, <2>4, <2>5, <2>6, <2>7, PartsNext
<1>10. CASE ~value /\ ~shut
  <2>1. owner' = [owner EXCEPT !.stage = "joining"] /\ queue' = queue
    BY <1>2, <1>10 DEF Joins
  <2>2. /\ owner' \in [stage : Stages \cup {"joining", "told", "left"},
                    told : Outcomes \cup {"joined", "timeout", "caught"}]
        /\ owner'.stage = "joining" /\ owner'.told = owner.told
    BY <1>5, <2>1
  <2>3. Posted' = Posted /\ OnCpu' = OnCpu \ {Owner} /\ Owner \notin Posted
    BY <1>2, <1>3, <2>2, OwnerAssumption DEF Posted, OnCpu, Stage, Coroutines
  <2>4. OneThread' /\ ResumedOnce'
    BY <1>1, <1>4, <2>1, <2>3, Parts, PartsNext
  <2>5. NobodyForgotten' /\ JoinTold'
    BY <1>1, <1>2, <1>6, <1>7, <1>10, <2>2 DEF NobodyForgotten, JoinTold, Cut
  <2>6. \A k \in DOMAIN queue : queue[k].who # Owner
    BY <1>1, <2>3, Parts DEF Whos
  <2>7. FrameKept'
    BY <1>1, <1>2, <1>6, <2>1, <2>2, <2>6 DEF FrameKept
  <2>8. TypeOK'
    BY <1>1, <1>2, <1>4, <1>5, <2>1, <2>2, Types, TypesNext
  <2> QED BY <1>6, <2>4, <2>5, <2>7, <2>8, PartsNext
<1> QED BY <1>9, <1>10

LEMMA OwnWaitStep ==
  ASSUME IInv, OwnWait
  PROVE  IInv'
<1>1. /\ TypeOK /\ CounterExact /\ NobodyForgotten /\ OneThread
      /\ JoinTold /\ FrameKept /\ Born /\ ResumedOnce
  BY Parts DEF IInv
<1>2. /\ InControl(Owner) /\ owner.told \in {"go", "joined"}
      /\ kind = "trader" => Running = {}
      /\ stack' = Front(stack)
      /\ UNCHANGED <<kind, shut, gen, counter, value, task, crashed>>
  BY DEF OwnWait, Free
<1>3. owner.stage = "running" /\ Owner \in Coroutines
  BY <1>1, <1>2, Control DEF Stage, Coroutines
<1>4. /\ stack' \in Seq(Coroutines)
      /\ Distinct(stack') /\ Members(stack') = OnCpu \ {Owner}
  BY <1>1, <1>2, <1>3, Control
<1>5. /\ owner \in [stage : Stages \cup {"joining", "told", "left"},
                    told : Outcomes \cup {"joined", "timeout", "caught"}]
      /\ queue \in Seq(Handler)
  BY <1>1, Types
<1>6. Running' = Running /\ Waiting' = Waiting /\ CounterExact' /\ Born'
  BY <1>1, <1>2 DEF Running, Waiting, CounterExact, Born
<1>7. CASE shut
  <2>1. owner' = [owner EXCEPT !.stage = "posted"] /\ queue' = queue \o Post(Owner, "closed")
    BY <1>7 DEF OwnWait
  <2>2. /\ owner' \in [stage : Stages \cup {"joining", "told", "left"},
                    told : Outcomes \cup {"joined", "timeout", "caught"}]
        /\ owner'.stage = "posted" /\ owner'.told = owner.told
    BY <1>5, <2>1 DEF Stages
  <2>3. /\ queue' \in Seq(Handler) /\ ResumedOnce'
        /\ OnCpu' = OnCpu \ {Owner}
        /\ \A k \in DOMAIN queue' : queue'[k].who = Owner => queue'[k].res = "closed"
    BY <1>1, <1>2, <1>3, <2>1, <2>2, OwnerPosted
  <2>4. OneThread'
    BY <1>4, <2>3, PartsNext
  <2>5. NobodyForgotten' /\ JoinTold'
    BY <1>1, <1>2, <1>6, <2>2 DEF NobodyForgotten, JoinTold, Cut
  <2>6. FrameKept'
    BY <1>1, <1>2, <1>6, <2>2, <2>3 DEF FrameKept
  <2>7. TypeOK'
    BY <1>1, <1>2, <1>4, <2>2, <2>3, Types, TypesNext
  <2> QED BY <1>6, <2>3, <2>4, <2>5, <2>6, <2>7, PartsNext
<1>8. CASE ~shut
  <2>1. owner' = [owner EXCEPT !.stage = "waiting"] /\ queue' = queue
    BY <1>8 DEF OwnWait
  <2>2. /\ owner' \in [stage : Stages \cup {"joining", "told", "left"},
                    told : Outcomes \cup {"joined", "timeout", "caught"}]
        /\ owner'.stage = "waiting" /\ owner'.told = owner.told
    BY <1>5, <2>1 DEF Stages
  <2>3. Posted' = Posted /\ OnCpu' = OnCpu \ {Owner} /\ Owner \notin Posted
    BY <1>2, <1>3, <2>2, OwnerAssumption DEF Posted, OnCpu, Stage, Coroutines
  <2>4. OneThread' /\ ResumedOnce'
    BY <1>1, <1>4, <2>1, <2>3, Parts, PartsNext
  <2>5. NobodyForgotten' /\ JoinTold'
    BY <1>1, <1>2, <1>6, <1>8, <2>2 DEF NobodyForgotten, JoinTold, Cut
  <2>6. \A k \in DOMAIN queue : queue[k].who # Owner
    BY <1>1, <2>3, Parts DEF Whos
  <2>7. FrameKept'
    BY <1>1, <1>2, <1>6, <2>1, <2>2, <2>6 DEF FrameKept
  <2>8. TypeOK'
    BY <1>1, <1>2, <1>4, <1>5, <2>1, <2>2, Types, TypesNext
  <2> QED BY <1>6, <2>4, <2>5, <2>7, <2>8, PartsNext
<1> QED BY <1>7, <1>8

LEMMA CompleteOwnerStep ==
  ASSUME IInv, CompleteOwner \/ JoinTimeout
  PROVE  IInv'
<1>1. /\ TypeOK /\ CounterExact /\ NobodyForgotten /\ OneThread
      /\ JoinTold /\ FrameKept /\ Born /\ ResumedOnce
  BY Parts DEF IInv
<1>2. PICK r \in {"go", "timeout"} :
         /\ queue' = queue \o Post(Owner, r)
         /\ owner' = [owner EXCEPT !.stage = "posted"]
         /\ owner.stage \in {"waiting", "joining"}
         /\ kind = "guard" \/ (r = "go" /\ owner.stage = "waiting")
         /\ UNCHANGED <<kind, shut, gen, counter, value, task, stack, crashed>>
  BY DEF CompleteOwner, JoinTimeout
<1>3. /\ owner \in [stage : Stages \cup {"joining", "told", "left"},
                    told : Outcomes \cup {"joined", "timeout", "caught"}]
      /\ queue \in Seq(Handler) /\ stack \in Seq(Coroutines)
  BY <1>1, Types
<1>4. /\ owner' \in [stage : Stages \cup {"joining", "told", "left"},
                     told : Outcomes \cup {"joined", "timeout", "caught"}]
      /\ owner'.stage = "posted" /\ owner'.told = owner.told
  BY <1>2, <1>3 DEF Stages
<1>5. /\ queue' \in Seq(Handler) /\ ResumedOnce'
      /\ OnCpu' = OnCpu \ {Owner}
      /\ \A k \in DOMAIN queue' : queue'[k].who = Owner => queue'[k].res = r
  BY <1>1, <1>2, <1>4, OwnerPosted
<1>6. Running' = Running /\ Waiting' = Waiting /\ CounterExact' /\ Born'
  BY <1>1, <1>2 DEF Running, Waiting, CounterExact, Born
<1>7. OneThread'
  <2>1. Owner \notin OnCpu
    BY <1>2 DEF OnCpu, Stage
  <2> QED BY <1>1, <1>2, <1>5, <2>1, Parts, PartsNext
<1>8. NobodyForgotten' /\ JoinTold'
  BY <1>1, <1>2, <1>4, <1>6 DEF NobodyForgotten, JoinTold, Cut
<1>9. FrameKept'
  BY <1>1, <1>2, <1>4, <1>5, <1>6 DEF FrameKept
<1>10. TypeOK'
  BY <1>1, <1>2, <1>3, <1>4, <1>5, Types, TypesNext
<1> QED BY <1>5, <1>6, <1>7, <1>8, <1>9, <1>10, PartsNext

LEMMA LeaveStep ==
  ASSUME IInv, Leave
  PROVE  IInv'
<1>1. /\ TypeOK /\ CounterExact /\ NobodyForgotten /\ OneThread
      /\ JoinTold /\ FrameKept /\ Born /\ ResumedOnce
  BY Parts DEF IInv
<1>2. /\ InControl(Owner) /\ owner.told \in {"joined", "closed", "caught"}
      /\ owner' = [owner EXCEPT !.stage = "left"]
      /\ task' = Told(Waiting) /\ stack' = Front(stack)
      /\ UNCHANGED <<kind, shut, gen, counter, value, crashed>>
  BY DEF Leave
<1>3. PICK n \in Notices(Waiting) : queue' = queue \o n
  BY DEF Leave
<1>4. owner.stage = "running" /\ Owner \in Coroutines
  BY <1>1, <1>2, Control DEF Stage, Coroutines
<1>5. /\ stack' \in Seq(Coroutines)
      /\ Distinct(stack') /\ Members(stack') = OnCpu \ {Owner}
  BY <1>1, <1>2, <1>4, Control
<1>6. /\ owner \in [stage : Stages \cup {"joining", "told", "left"},
                    told : Outcomes \cup {"joined", "timeout", "caught"}]
      /\ queue \in Seq(Handler) /\ stack \in Seq(Coroutines)
  BY <1>1, Types
<1>7. /\ owner' \in [stage : Stages \cup {"joining", "told", "left"},
                     told : Outcomes \cup {"joined", "timeout", "caught"}]
      /\ owner'.stage = "left" /\ owner'.told = owner.told
  BY <1>2, <1>6
<1>8. Waiting \in SUBSET Tasks /\ Waiting \in SUBSET Waiting
  BY DEF Waiting
<1>9. /\ n \in Seq(Handler) /\ Once(n) /\ Whos(n) = Waiting
      /\ \A k \in DOMAIN n : n[k].res = "closed"
  BY <1>3, <1>8, NoticesOnce
<1>10. /\ task' \in [Tasks -> [stage : Stages \cup {"none", "ended"}, born : 0..MaxResets,
                               told : Outcomes \cup {"handled"}]]
       /\ \A t \in Tasks : /\ task'[t].stage = IF t \in Waiting THEN "posted" ELSE task[t].stage
                           /\ task'[t].born = task[t].born
                           /\ task'[t].told = task[t].told
  BY <1>1, <1>2, <1>8, ToldType
<1>11. Running' = Running /\ OnCpu' = OnCpu \ {Owner} /\ Posted' = Posted \cup Waiting
       /\ Waiting \cap Posted = {} /\ Waiting' = {}
  <2>1. \A t \in Waiting : t \in Tasks /\ task[t].stage = "waiting"
    BY DEF Waiting
  <2>2. Running' = Running /\ Waiting' = {}
    BY <1>10, <2>1 DEF Running, Waiting, Stages
  <2>3. OnCpu' = OnCpu \ {Owner}
    BY <1>4, <1>7, <1>10, <2>1, OwnerAssumption DEF OnCpu, Stage, Coroutines
  <2>4. Posted' = Posted \cup Waiting /\ Waiting \cap Posted = {}
    BY <1>4, <1>7, <1>10, <2>1, OwnerAssumption DEF Posted, Stage, Coroutines
  <2> QED BY <2>2, <2>3, <2>4
<1>12. queue' \in Seq(Handler) /\ ResumedOnce'
  BY <1>1, <1>3, <1>9, <1>11, Posting
<1>13. OneThread'
  BY <1>5, <1>11, PartsNext
<1>14. CounterExact' /\ JoinTold' /\ NobodyForgotten'
  BY <1>1, <1>2, <1>7, <1>11 DEF CounterExact, JoinTold, NobodyForgotten
<1>15. Born'
  BY <1>1, <1>2, <1>10 DEF Born
<1>16. FrameKept'
  <2>1. SUFFICES ASSUME kind = "trader" PROVE FrameKept'
    BY <1>2 DEF FrameKept
  <2>2. owner.told \in {"joined", "closed"} /\ (Running = {} \/ stack = <<Owner>>)
    BY <1>1, <1>2, <1>4, <2>1 DEF FrameKept
  <2>3. \A k \in DOMAIN queue : queue[k].res = "closed"
    <3>1. CASE Running = {}
      <4>1. Posted = {}
        <5>1. \A t \in Tasks : task[t].stage # "told"
          BY <1>1, Types DEF Stages
        <5> QED BY <1>4, <3>1, <5>1 DEF Posted, Running, Stage, Coroutines, Stages
      <4> QED BY <1>1, <4>1, Parts DEF Whos
    <3>2. CASE Running # {}
      BY <1>1, <1>2, <1>4, <2>1, <3>2 DEF FrameKept
    <3> QED BY <3>1, <3>2
  <2>4. \A t \in Tasks : task'[t].stage # "running"
    <3>1. CASE Running = {}
      BY <1>11, <3>1 DEF Running, Stages
    <3>2. CASE stack = <<Owner>>
      <4>1. OnCpu = {Owner}
        BY <1>1, <3>2, Parts DEF Members
      <4>2. OnCpu' = {}
        BY <1>11, <4>1
      <4> QED BY <4>2, OwnerAssumption DEF OnCpu, Stage, Coroutines
    <3> QED BY <2>2, <3>1, <3>2
  <2>5. \A k \in DOMAIN queue' : queue'[k].res = "closed" /\ queue'[k].who # Owner
    <3>1. Owner \notin Posted /\ Owner \notin Waiting
      BY <1>4, OwnerAssumption DEF Posted, Stage, Waiting
    <3>2. \A k \in DOMAIN queue : queue[k].who # Owner
      BY <1>1, <3>1, Parts DEF Whos
    <3>3. \A k \in DOMAIN n : n[k].who # Owner
      BY <1>9, <3>1 DEF Whos
    <3> QED BY <1>3, <1>6, <1>9, <2>3, <3>2, <3>3, ConcatEntry
  <2> QED BY <1>2, <1>7, <2>2, <2>4, <2>5 DEF FrameKept
<1>17. TypeOK'
  BY <1>1, <1>2, <1>5, <1>7, <1>10, <1>12, Types, TypesNext
<1> QED BY <1>12, <1>13, <1>14, <1>15, <1>16, <1>17, PartsNext

LEMMA CompleteStep ==
  ASSUME IInv, NEW t \in Tasks, Complete(t)
  PROVE  IInv'
<1>1. /\ TypeOK /\ CounterExact /\ NobodyForgotten /\ OneThread
      /\ JoinTold /\ FrameKept /\ Born /\ ResumedOnce
  BY Parts DEF IInv
<1>2. /\ InLoop /\ t \in Waiting
      /\ task' = Told({t})
      /\ UNCHANGED <<kind, shut, gen, counter, value, owner, stack, crashed>>
  BY DEF Complete
<1>3. PICK r \in {"go", "error"} : queue' = queue \o Post(t, r)
  BY DEF Complete
<1> DEFINE n == Post(t, r)
<1>4. /\ n \in Seq(Handler) /\ DOMAIN n = {1} /\ n[1] = [who |-> t, res |-> r]
      /\ Once(n) /\ Whos(n) = {t}
  BY PostOnce DEF Handler, Outcomes
<1>5. queue' = queue \o n /\ {t} \in SUBSET Waiting
  BY <1>2, <1>3
<1> HIDE DEF n
<1>6. /\ task' \in [Tasks -> [stage : Stages \cup {"none", "ended"}, born : 0..MaxResets,
                              told : Outcomes \cup {"handled"}]]
      /\ \A u \in Tasks : /\ task'[u].stage = IF u \in {t} THEN "posted" ELSE task[u].stage
                          /\ task'[u].born = task[u].born
                          /\ task'[u].told = task[u].told
  BY <1>1, <1>2, <1>5, ToldType
<1>7. Running' = Running /\ OnCpu' = OnCpu /\ queue' \in Seq(Handler) /\ ResumedOnce'
  BY <1>1, <1>2, <1>4, <1>5, <1>6, Telling
<1>8. Waiting' \subseteq Waiting /\ t \in Running
  BY <1>2, <1>6 DEF Waiting, Running, Stages
<1>9. CounterExact' /\ JoinTold' /\ OneThread'
  BY <1>1, <1>2, <1>7, Parts, PartsNext DEF CounterExact, JoinTold
<1>10. NobodyForgotten'
  BY <1>1, <1>2, <1>6, <1>7, <1>8 DEF NobodyForgotten, Cut, Waiting
<1>11. Born'
  BY <1>1, <1>2, <1>6 DEF Born
<1>12. FrameKept'
  <2>1. ~shut /\ owner.stage # "left"
    BY <1>1, <1>2 DEF NobodyForgotten, Cut
  <2>2. kind = "trader" => \A k \in DOMAIN queue : queue[k].who # Owner
    BY <1>1, <1>8, <2>1 DEF FrameKept
  <2>3. kind = "trader" => \A k \in DOMAIN queue' : queue'[k].who # Owner
    <3>1. queue \in Seq(Handler) /\ t # Owner
      BY <1>1, OwnerAssumption, Types
    <3> QED BY <1>4, <1>5, <2>2, <3>1, ConcatEntry
  <2>4. owner.stage # "running"
    <3>1. OnCpu = {}
      BY <1>1, <1>2, Looping
    <3> QED BY <3>1 DEF OnCpu, Stage, Coroutines
  <2> QED BY <1>1, <1>2, <1>7, <2>1, <2>3, <2>4 DEF FrameKept
<1>13. TypeOK'
  BY <1>1, <1>2, <1>6, <1>7, Types, TypesNext
<1> QED BY <1>7, <1>9, <1>10, <1>11, <1>12, <1>13, PartsNext

LEMMA CloseOuterStep ==
  ASSUME IInv, CloseOuter
  PROVE  IInv'
<1>1. /\ TypeOK /\ CounterExact /\ NobodyForgotten /\ OneThread
      /\ JoinTold /\ FrameKept /\ Born /\ ResumedOnce
  BY Parts DEF IInv
<1>2. /\ InLoop /\ ~shut /\ owner.stage # "left" /\ shut' = TRUE
      /\ task' = Told(Waiting)
      /\ owner' = IF owner.stage \in {"joining", "waiting"}
                  THEN [owner EXCEPT !.stage = "posted"] ELSE owner
      /\ UNCHANGED <<kind, gen, counter, value, stack, crashed>>
  BY DEF CloseOuter
<1> DEFINE ToOwner == IF owner.stage \in {"joining", "waiting"} THEN {Post(Owner, "closed")} ELSE {<<>>}
<1>3. PICK n \in Notices(Waiting), o \in ToOwner : queue' = queue \o (n \o o)
  <2>1. PICK m \in Closings : queue' = queue \o m
    BY DEF CloseOuter
  <2>2. Closings = {n \o o : n \in Notices(Waiting), o \in ToOwner}
    BY DEF Closings
  <2> HIDE DEF ToOwner
  <2>3. \E n \in Notices(Waiting), o \in ToOwner : m = n \o o
    BY <2>1, <2>2
  <2> QED BY <2>1, <2>3
<1>4. /\ owner \in [stage : Stages \cup {"joining", "told", "left"},
                    told : Outcomes \cup {"joined", "timeout", "caught"}]
      /\ queue \in Seq(Handler) /\ stack \in Seq(Coroutines)
  BY <1>1, Types
<1>5. Waiting \in SUBSET Tasks /\ Waiting \in SUBSET Waiting
  BY DEF Waiting
<1>6. /\ n \in Seq(Handler) /\ Once(n) /\ Whos(n) = Waiting
      /\ \A k \in DOMAIN n : n[k].res = "closed"
  BY <1>3, <1>5, NoticesOnce
<1>7. /\ task' \in [Tasks -> [stage : Stages \cup {"none", "ended"}, born : 0..MaxResets,
                              told : Outcomes \cup {"handled"}]]
      /\ \A t \in Tasks : /\ task'[t].stage = IF t \in Waiting THEN "posted" ELSE task[t].stage
                          /\ task'[t].born = task[t].born
                          /\ task'[t].told = task[t].told
  BY <1>1, <1>2, <1>5, ToldType
<1>8. \A t \in Waiting : t \in Tasks /\ task[t].stage = "waiting" /\ t # Owner
  BY OwnerAssumption DEF Waiting
<1>9. Running' = Running /\ Waiting' = {}
  BY <1>7, <1>8 DEF Running, Waiting, Stages
<1>10. CounterExact' /\ Born'
  BY <1>1, <1>2, <1>7, <1>9 DEF CounterExact, Born
<1>11. OnCpu = {} /\ owner.stage # "running"
  <2>1. OnCpu = {}
    BY <1>1, <1>2, Looping
  <2> QED BY <2>1 DEF OnCpu, Stage, Coroutines
<1>12. Owner \notin Whos(n)
  BY <1>6, <1>8
<1>13. CASE owner.stage \in {"joining", "waiting"}
  <2>1. o = Post(Owner, "closed") /\ owner' = [owner EXCEPT !.stage = "posted"]
    BY <1>2, <1>3, <1>13
  <2>2. /\ owner' \in [stage : Stages \cup {"joining", "told", "left"},
                       told : Outcomes \cup {"joined", "timeout", "caught"}]
        /\ owner'.stage = "posted" /\ owner'.told = owner.told
    BY <1>4, <2>1 DEF Stages
  <2>3. /\ o \in Seq(Handler) /\ DOMAIN o = {1} /\ o[1] = [who |-> Owner, res |-> "closed"]
        /\ Once(o) /\ Whos(o) = {Owner}
    BY <2>1, PostOnce DEF Handler
  <2> DEFINE m == n \o o
  <2>4. m \in Seq(Handler) /\ Once(m) /\ Whos(m) = Waiting \cup {Owner}
    BY <1>6, <1>12, <2>3, OnceConcat
  <2>5. \A k \in DOMAIN m : m[k].res = "closed"
    BY <1>6, <2>3, ConcatEntry
  <2>6. queue' = queue \o m
    BY <1>3
  <2> HIDE DEF m
  <2>7. /\ Posted' = Posted \cup (Waiting \cup {Owner}) /\ (Waiting \cup {Owner}) \cap Posted = {}
        /\ OnCpu' = OnCpu
    BY <1>7, <1>8, <1>13, <2>2, OwnerAssumption DEF Posted, OnCpu, Stage, Coroutines
  <2>8. queue' \in Seq(Handler) /\ ResumedOnce'
    BY <1>1, <2>4, <2>6, <2>7, Posting
  <2>9. OneThread'
    BY <1>1, <1>2, <2>7, Parts, PartsNext
  <2>10. JoinTold' /\ NobodyForgotten'
    BY <1>9, <2>2 DEF JoinTold, NobodyForgotten
  <2>11. FrameKept'
    <3>1. \A k \in DOMAIN queue : queue[k].who # Owner
      BY <1>1, <2>7, Parts DEF Whos
    <3>2. ASSUME NEW k \in DOMAIN queue', queue'[k].who = Owner
          PROVE  queue'[k].res = "closed" /\ \A j \in DOMAIN queue' : j > k => queue'[j].res = "closed"
      <4>1. PICK i \in DOMAIN m : k = Len(queue) + i /\ queue'[k] = m[i]
        BY <1>4, <2>4, <2>6, <3>1, <3>2, ConcatEntry
      <4>2. ASSUME NEW j \in DOMAIN queue', j > k
            PROVE  queue'[j].res = "closed"
        <5>1. Len(queue) \in Nat /\ DOMAIN queue = 1..Len(queue)
          BY <1>4
        <5>2. i \in Nat /\ i >= 1
          BY <2>4
        <5>3. j \notin DOMAIN queue
          BY <4>1, <4>2, <5>1, <5>2
        <5>4. \E l \in DOMAIN m : queue'[j] = m[l]
          BY <1>4, <2>4, <2>6, <5>3, ConcatEntry
        <5> QED BY <2>5, <5>4
      <4> QED BY <2>5, <4>1, <4>2
    <3> QED BY <1>1, <1>2, <1>9, <2>2, <3>2 DEF FrameKept
  <2>12. TypeOK'
    BY <1>1, <1>2, <1>4, <1>7, <2>2, <2>8, Types, TypesNext
  <2> QED BY <1>10, <2>8, <2>9, <2>10, <2>11, <2>12, PartsNext
<1>14. CASE owner.stage \notin {"joining", "waiting"}
  <2>1. owner' = owner /\ queue' = queue \o n
    BY <1>2, <1>3, <1>6, <1>14
  <2>2. /\ Posted' = Posted \cup Waiting /\ Waiting \cap Posted = {}
        /\ OnCpu' = OnCpu
    BY <1>7, <1>8, <2>1, OwnerAssumption DEF Posted, OnCpu, Stage, Coroutines
  <2>3. queue' \in Seq(Handler) /\ ResumedOnce'
    BY <1>1, <1>6, <2>1, <2>2, Posting
  <2>4. OneThread'
    BY <1>1, <1>2, <2>2, Parts, PartsNext
  <2>5. JoinTold' /\ NobodyForgotten'
    BY <1>1, <1>9, <1>14, <2>1 DEF JoinTold, NobodyForgotten
  <2>6. \A k \in DOMAIN queue' :
           queue'[k].who = Owner => k \in DOMAIN queue /\ queue'[k] = queue[k]
    BY <1>4, <1>6, <1>12, <2>1, ConcatEntry DEF Whos
  <2>7. FrameKept'
    BY <1>1, <1>2, <1>9, <1>11, <2>1, <2>6 DEF FrameKept
  <2>8. TypeOK'
    BY <1>1, <1>2, <1>4, <1>7, <2>1, <2>3, Types, TypesNext
  <2> QED BY <1>10, <2>3, <2>4, <2>5, <2>7, <2>8, PartsNext
<1> QED BY <1>13, <1>14

LEMMA ResumeStep ==
  ASSUME IInv, Resume
  PROVE  IInv'
<1>1. /\ TypeOK /\ CounterExact /\ NobodyForgotten /\ OneThread
      /\ JoinTold /\ FrameKept /\ Born /\ ResumedOnce
  BY Parts DEF IInv
<1> DEFINE c == Head(queue).who
           r == Head(queue).res
<1>2. /\ InLoop /\ queue # <<>> /\ stack' = <<c>> /\ queue' = Tail(queue)
      /\ c = Owner => owner' = [stage |-> "running", told |-> r] /\ task' = task
      /\ c # Owner => /\ task' = [task EXCEPT ![c].stage = "running", ![c].told = r]
                      /\ owner' = owner
      /\ UNCHANGED <<kind, shut, gen, counter, value, crashed>>
  BY DEF Resume
<1>3. /\ task \in [Tasks -> [stage : Stages \cup {"none", "ended"}, born : 0..MaxResets,
                             told : Outcomes \cup {"handled"}]]
      /\ owner \in [stage : Stages \cup {"joining", "told", "left"},
                    told : Outcomes \cup {"joined", "timeout", "caught"}]
      /\ queue \in Seq(Handler)
  BY <1>1, Types
<1>4. Once(queue) /\ Whos(queue) = Posted
  BY <1>1, Parts
<1>5. /\ Head(queue) \in Handler /\ Head(queue) = queue[1] /\ 1 \in DOMAIN queue
      /\ queue' \in Seq(Handler) /\ Once(queue') /\ Whos(queue') = Posted \ {c}
      /\ c \in Posted
      /\ \A k \in DOMAIN queue' : k + 1 \in DOMAIN queue /\ queue'[k] = queue[k + 1] /\ k \in Nat /\ k >= 1
  <2>1. queue # <<>> /\ queue' = Tail(queue)
    BY <1>2
  <2>2. 1 \in DOMAIN queue
    BY <1>3, <2>1
  <2>3. \A k \in DOMAIN queue' : k \in Nat /\ k >= 1
    BY <1>3, <2>1
  <2> QED BY <1>3, <1>4, <2>1, <2>2, <2>3, OnceTail
<1>6. /\ c \in Coroutines
      /\ c = Owner => r \in {"go", "closed", "joined", "timeout"} /\ owner.stage \in {"posted", "told"}
      /\ c # Owner => c \in Tasks /\ r \in Outcomes /\ task[c].stage = "posted"
  <2>1. c \in Coroutines /\ Stage(c) \in {"posted", "told"}
    BY <1>5 DEF Posted
  <2>2. /\ c = Owner => r \in {"go", "closed", "joined", "timeout"}
        /\ c # Owner => c \in Tasks /\ r \in Outcomes
    BY <1>5, OwnerAssumption DEF Handler
  <2>3. c # Owner => task[c].stage = "posted"
    BY <1>3, <2>1, <2>2 DEF Stage, Stages
  <2> QED BY <2>1, <2>2, <2>3 DEF Stage
<1>7. OnCpu = {}
  BY <1>1, <1>2, Looping
<1> HIDE DEF c, r
<1>8. /\ task' \in [Tasks -> [stage : Stages \cup {"none", "ended"}, born : 0..MaxResets,
                              told : Outcomes \cup {"handled"}]]
      /\ owner' \in [stage : Stages \cup {"joining", "told", "left"},
                     told : Outcomes \cup {"joined", "timeout", "caught"}]
      /\ \A t \in Tasks : /\ task'[t].stage = IF t = c THEN "running" ELSE task[t].stage
                          /\ task'[t].born = task[t].born
                          /\ task'[t].told = IF t = c THEN r ELSE task[t].told
      /\ owner'.stage = IF c = Owner THEN "running" ELSE owner.stage
      /\ owner'.told = IF c = Owner THEN r ELSE owner.told
  <2>1. CASE c = Owner
    <3>1. owner' = [stage |-> "running", told |-> r] /\ task' = task
      BY <1>2, <2>1 DEF c, r
    <3> QED BY <1>3, <1>6, <2>1, <3>1, OwnerAssumption DEF Stages, Outcomes
  <2>2. CASE c # Owner
    <3>1. task' = [task EXCEPT ![c].stage = "running", ![c].told = r] /\ owner' = owner
      BY <1>2, <2>2 DEF c, r
    <3> QED BY <1>3, <1>6, <2>2, <3>1 DEF Stages, Outcomes
  <2> QED BY <2>1, <2>2
<1>9. Running' = Running /\ Waiting' = Waiting
  BY <1>6, <1>8, OwnerAssumption DEF Running, Waiting, Stages
<1>10. OnCpu' = {c} /\ Posted' = Posted \ {c}
  BY <1>6, <1>7, <1>8, OwnerAssumption DEF OnCpu, Posted, Stage, Coroutines
<1>11. ResumedOnce' /\ OneThread'
  <2>1. stack' = <<c>>
    BY <1>2 DEF c
  <2>2. Distinct(stack') /\ Members(stack') = {c}
    BY <2>1 DEF Distinct, Members
  <2> QED BY <1>5, <1>10, <2>2, PartsNext
<1>12. CounterExact' /\ Born'
  BY <1>1, <1>2, <1>8, <1>9 DEF CounterExact, Born
<1>13. JoinTold' /\ NobodyForgotten'
  BY <1>1, <1>2, <1>8, <1>9 DEF JoinTold, NobodyForgotten, Cut, Waiting
<1>14. FrameKept'
  <2>1. SUFFICES ASSUME kind = "trader" PROVE FrameKept'
    BY <1>2 DEF FrameKept
  <2>2. CASE c = Owner
    <3>1. queue[1].who = Owner /\ queue[1].res = r
      BY <1>5, <2>2 DEF c, r
    <3>2. \/ r \in {"go", "joined", "closed"} /\ Running = {}
          \/ r = "closed" /\ shut /\ \A j \in DOMAIN queue : j > 1 => queue[j].res = "closed"
      BY <1>1, <1>5, <2>1, <3>1 DEF FrameKept
    <3>3. \A k \in DOMAIN queue' : queue'[k].who # Owner
      BY <1>5, <2>2 DEF Whos
    <3>4. \/ r \in {"go", "joined", "closed"} /\ Running = {}
          \/ r = "closed" /\ shut /\ \A k \in DOMAIN queue' : queue'[k].res = "closed"
      <4>1. \A k \in DOMAIN queue' : k + 1 > 1
        BY <1>5
      <4> QED BY <1>5, <3>2, <4>1
    <3>5. stack' = <<Owner>>
      BY <1>2, <2>2 DEF c
    <3> QED BY <1>2, <1>8, <1>9, <2>2, <3>3, <3>4, <3>5 DEF FrameKept
  <2>3. CASE c # Owner
    <3>1. owner' = owner /\ owner.stage # "running"
      BY <1>2, <1>7, <2>3 DEF c, OnCpu, Stage, Coroutines
    <3>2. ASSUME NEW k \in DOMAIN queue', queue'[k].who = Owner
          PROVE  \/ queue'[k].res \in {"go", "joined", "closed"} /\ Running = {}
                 \/ /\ queue'[k].res = "closed" /\ shut
                    /\ \A j \in DOMAIN queue' : j > k => queue'[j].res = "closed"
      <4>1. k + 1 \in DOMAIN queue /\ queue'[k] = queue[k + 1] /\ k \in Nat
        BY <1>5
      <4>2. \/ queue[k + 1].res \in {"go", "joined", "closed"} /\ Running = {}
            \/ /\ queue[k + 1].res = "closed" /\ shut
               /\ \A j \in DOMAIN queue : j > k + 1 => queue[j].res = "closed"
        BY <1>1, <2>1, <3>2, <4>1 DEF FrameKept
      <4>3. \A j \in DOMAIN queue' : j > k => j + 1 > k + 1
        BY <1>5, <4>1
      <4> QED BY <1>5, <4>1, <4>2, <4>3
    <3>3. owner.stage = "left" =>
             /\ \A k \in DOMAIN queue' : queue'[k].res = "closed"
             /\ \A t \in Tasks : task'[t].stage = "running" => task'[t].told = "closed"
      <4>1. owner.stage = "left" => /\ \A k \in DOMAIN queue : queue[k].res = "closed"
                                   /\ \A t \in Tasks : task[t].stage = "running" => task[t].told = "closed"
        BY <1>1, <2>1 DEF FrameKept
      <4>2. queue[1].res = r
        BY <1>5 DEF r
      <4> QED BY <1>5, <1>8, <4>1, <4>2
    <3> QED BY <1>1, <1>2, <1>9, <2>1, <3>1, <3>2, <3>3 DEF FrameKept
  <2> QED BY <2>2, <2>3
<1>15. TypeOK'
  <2>1. stack' \in Seq(Coroutines)
    BY <1>2, <1>6 DEF c
  <2> QED BY <1>1, <1>2, <1>5, <1>8, <2>1, Types, TypesNext
<1> QED BY <1>11, <1>12, <1>13, <1>14, <1>15, PartsNext

-----------------------------------------------------------------------------
(* The invariant holds *)

LEMMA InitIInv == Init => IInv
<1> SUFFICES ASSUME Init PROVE IInv
  OBVIOUS
<1>1. /\ kind \in {"trader", "opp", "guard"}
      /\ shut = FALSE /\ gen = 0 /\ crashed = FALSE /\ counter = 0 /\ value = TRUE
      /\ task = [t \in Tasks |-> [stage |-> "none", born |-> 0, told |-> "go"]]
      /\ owner = [stage |-> "running", told |-> "go"]
      /\ queue = <<>> /\ stack = <<Owner>>
  BY DEF Init
<1>2. TypeOK
  <2>1. 0 \in 0..MaxResets /\ 0 \in 0..Cardinality(Tasks)
    BY ResetsAssumption, Counting
  <2>2. queue \in Seq(Handler) /\ stack \in Seq(Coroutines)
    BY <1>1 DEF Coroutines
  <2> QED BY <1>1, <2>1, <2>2, Types DEF Stages, Outcomes
<1>3. Running = {} /\ Waiting = {}
  BY <1>1 DEF Running, Waiting, Stages
<1>4. OnCpu = {Owner} /\ Posted = {}
  BY <1>1, OwnerAssumption DEF OnCpu, Posted, Stage, Coroutines
<1>5. OneThread /\ ResumedOnce
  BY <1>1, <1>4, Parts DEF Distinct, Members, Once, Whos
<1>6. CounterExact
  BY <1>1, <1>3, Counting DEF CounterExact
<1>7. NobodyForgotten /\ JoinTold /\ FrameKept
  BY <1>1, <1>3 DEF NobodyForgotten, JoinTold, FrameKept
<1>8. Born
  BY <1>1 DEF Born
<1> QED BY <1>2, <1>5, <1>6, <1>7, <1>8, Parts DEF IInv

LEMMA NextIInv == IInv /\ [Next]_vars => IInv'
<1> SUFFICES ASSUME IInv, [Next]_vars PROVE IInv'
  OBVIOUS
<1>1. ASSUME NEW c \in Coroutines, Reset(c) PROVE IInv'
  BY <1>1, ResetStep
<1>2. ASSUME NEW c \in Coroutines, NEW u \in Tasks, Spawn(c, u) PROVE IInv'
  <2>1. CASE shut
    BY <1>2, <2>1, SpawnThrownStep
  <2>2. CASE ~shut
    BY <1>2, <2>2, SpawnStep
  <2> QED BY <2>1, <2>2
<1>3. ASSUME NEW t \in Tasks, Wait(t) PROVE IInv'
  BY <1>3, WaitStep
<1>4. ASSUME NEW t \in Tasks, Finish(t) PROVE IInv'
  BY <1>4, FinishStep
<1>5. ASSUME NEW t \in Tasks, Fail(t) PROVE IInv'
  BY <1>5, FailStep
<1>6. CASE Join
  BY <1>6, JoinStep
<1>7. CASE OwnWait
  BY <1>7, OwnWaitStep
<1>8. CASE Leave
  BY <1>8, LeaveStep
<1>9. CASE Resume
  BY <1>9, ResumeStep
<1>10. ASSUME NEW t \in Tasks, Complete(t) PROVE IInv'
  BY <1>10, CompleteStep
<1>11. CASE CompleteOwner \/ JoinTimeout
  BY <1>11, CompleteOwnerStep
<1>12. CASE CloseOuter
  BY <1>12, CloseOuterStep
<1>13. CASE UNCHANGED vars
  BY <1>13 DEF vars, IInv, JoinInv, ResumedOnce, TypeOK, CounterExact, NobodyForgotten, OneThread,
               JoinTold, FrameKept, Running, Waiting, Cut, Stage
<1> QED BY <1>1, <1>2, <1>3, <1>4, <1>5, <1>6, <1>7, <1>8, <1>9, <1>10, <1>11, <1>12, <1>13
        DEF Next, Step, Coroutines

\* IInv, the inductive invariant, holds for every number of strategies, of resets and
\* every kind of owner.
THEOREM InvariantCorrect == Spec => []IInv
  BY InitIInv, NextIInv, PTL DEF Spec

\* The counter is the number of strategies that have not ended, nobody waits under
\* a closed context, and whoever runs is on the one stack (spawner.hpp, watcher.hpp).
THEOREM JoinInvCorrect == Spec => []JoinInv
<1>1. IInv => JoinInv
  BY DEF IInv
<1> QED BY <1>1, InvariantCorrect, PTL

\* Whatever answers a coroutine (an event, a timeout, a closing context, the last
\* strategy), it is resumed once (watcher.hpp, trading_context.hpp).
THEOREM ResumedOnceCorrect == Spec => []ResumedOnce
<1>1. IInv => ResumedOnce
  BY DEF IInv
<1> QED BY <1>1, InvariantCorrect, PTL

\* Strategies that run after the frame of their trading strategy is gone only hear
\* that their context closed (calm_strategy.hpp, spawner.hpp).
THEOREM FrameOutlivesUseCorrect == Spec => []FrameOutlivesUse
<1>1. IInv => FrameOutlivesUse
  <2> SUFFICES ASSUME IInv, kind = "trader", owner.stage = "left",
                      NEW t \in Tasks, InControl(t)
               PROVE  task[t].told = "closed"
    BY DEF FrameOutlivesUse
  <2>1. TypeOK /\ OneThread /\ FrameKept
    BY Parts DEF IInv
  <2>2. task[t].stage = "running"
    BY <2>1, Control, OwnerAssumption DEF Stage, Coroutines
  <2> QED BY <2>1, <2>2 DEF FrameKept
<1> QED BY <1>1, InvariantCorrect, PTL

-----------------------------------------------------------------------------
(* The spawner implements TaskGroup *)

\* What the two modules' variables have to do with each other
LEMMA GroupJoin ==
  /\ Group!Next <=>
        \/ \E t \in Tasks :
             \/ /\ owner.stage # "told" /\ t \notin Running /\ Running' = Running \cup {t}
                /\ (owner.stage = "joining" <=> owner'.stage = "joining") /\ owner'.stage # "told"
             \/ /\ t \in Running /\ Running' = Running \ {t}
                /\ IF owner.stage = "joining" /\ Running' = {} THEN owner'.stage = "told"
                   ELSE /\ owner.stage = "joining" <=> owner'.stage = "joining"
                        /\ owner.stage = "told" <=> owner'.stage = "told"
        \/ /\ owner.stage \notin {"joining", "told"} /\ Running' = Running
           /\ owner'.stage = IF Running = {} THEN "told" ELSE "joining"
        \/ owner.stage = "joining" /\ owner'.stage \notin {"joining", "told"} /\ Running' = Running
        \/ owner.stage = "told" /\ owner'.stage \notin {"joining", "told"} /\ Running' = Running
  BY DEF Group!Next, Group!Begin, Group!End, Group!Join, Group!GiveUp, Group!Continue

LEMMA GroupStutter ==
  ASSUME Running' = Running,
         \/ owner'.stage = owner.stage
         \/ {owner.stage, owner'.stage} \cap {"joining", "told"} = {}
  PROVE  UNCHANGED Group!vars
<1>1. /\ owner.stage = "joining" <=> owner'.stage = "joining"
      /\ owner.stage = "told" <=> owner'.stage = "told"
  OBVIOUS
<1> QED BY <1>1 DEF Group!vars

\* Where nobody begins or ends: tasks keep their stage, or those that wait are told.
LEMMA SameRunning ==
  ASSUME TypeOK,
         \A t \in Tasks : \/ task'[t].stage = task[t].stage
                         \/ {task[t].stage, task'[t].stage} \subseteq Stages
  PROVE  Running' = Running
  BY DEF Running

LEMMA GroupStep == IInv /\ [Next]_vars => [Group!Next]_(Group!vars)
<1> SUFFICES ASSUME IInv, [Next]_vars PROVE Group!Next \/ UNCHANGED Group!vars
  OBVIOUS
<1>1. TypeOK /\ CounterExact /\ OneThread /\ JoinTold /\ ResumedOnce /\ NobodyForgotten
  BY Parts DEF IInv
<1>2. /\ task \in [Tasks -> [stage : Stages \cup {"none", "ended"}, born : 0..MaxResets,
                             told : Outcomes \cup {"handled"}]]
      /\ owner \in [stage : Stages \cup {"joining", "told", "left"},
                    told : Outcomes \cup {"joined", "timeout", "caught"}]
      /\ queue \in Seq(Handler)
  BY <1>1, Types
<1>3. \A S \in SUBSET Waiting : \A t \in Tasks :
         Told(S)[t].stage = task[t].stage \/ {task[t].stage, Told(S)[t].stage} \subseteq Stages
  <2> SUFFICES ASSUME NEW S \in SUBSET Waiting, NEW t \in Tasks
               PROVE  \/ Told(S)[t].stage = task[t].stage
                      \/ {task[t].stage, Told(S)[t].stage} \subseteq Stages
    OBVIOUS
  <2>1. Told(S)[t].stage = IF t \in S THEN "posted" ELSE task[t].stage
    BY <1>1, ToldType
  <2>2. t \in S => task[t].stage = "waiting"
    BY DEF Waiting
  <2> QED BY <2>1, <2>2 DEF Stages
<1>4. ASSUME NEW c \in Coroutines, InControl(c)
      PROVE  Stage(c) = "running"
  BY <1>1, <1>4, Control
<1>5. ASSUME NEW c \in Coroutines, Reset(c) PROVE UNCHANGED Group!vars
  <2>1. owner'.stage = owner.stage
    BY <1>2, <1>5 DEF Reset, Thrown
  <2>2. \A t \in Tasks : \/ task'[t].stage = task[t].stage
                         \/ {task[t].stage, task'[t].stage} \subseteq Stages
    <3>1. CASE shut
      BY <1>2, <1>5, <3>1 DEF Reset, Thrown
    <3>2. CASE ~shut
      <4> DEFINE S == {t \in Waiting : task[t].born = gen}
      <4>1. S \in SUBSET Waiting /\ task' = Told(S)
        BY <1>5, <3>2 DEF Reset, Replaced
      <4> QED BY <1>3, <4>1
    <3> QED BY <3>1, <3>2
  <2> QED BY <1>1, <2>1, <2>2, SameRunning, GroupStutter
<1>6. ASSUME NEW c \in Coroutines, NEW u \in Tasks, Spawn(c, u)
      PROVE  Group!Next \/ UNCHANGED Group!vars
  <2>1. owner'.stage = owner.stage
    BY <1>2, <1>6 DEF Spawn, Thrown
  <2>2. CASE shut
    <3>1. \A t \in Tasks : task'[t].stage = task[t].stage
      BY <1>2, <1>6, <2>2 DEF Spawn, Thrown
    <3> QED BY <1>1, <2>1, <3>1, SameRunning, GroupStutter
  <2>3. CASE ~shut
    <3>1. PICK s \in {"running", "posted"} :
             task' = [task EXCEPT ![u] = [stage |-> s, born |-> gen, told |-> "go"]]
      BY <1>6, <2>3 DEF Spawn
    <3>2. u \notin Running /\ Running' = Running \cup {u}
      BY <1>2, <1>6, <3>1 DEF Spawn, Running, Stages
    <3>3. owner.stage # "told"
      <4>1. Stage(c) = "running"
        BY <1>4, <1>6 DEF Spawn, Free
      <4>2. CASE c = Owner
        BY <4>1, <4>2 DEF Stage
      <4>3. CASE c # Owner
        <5>1. c \in Running
          BY <4>1, <4>3 DEF Stage, Running, Stages, Coroutines
        <5> QED BY <1>1, <5>1 DEF JoinTold
      <4> QED BY <4>2, <4>3
    <3> QED BY <2>1, <3>2, <3>3, GroupJoin
  <2> QED BY <2>2, <2>3
<1>7. ASSUME NEW t \in Tasks, Wait(t) PROVE UNCHANGED Group!vars
  <2>1. task[t].stage = "running"
    BY <1>4, <1>7, OwnerAssumption DEF Wait, Stage, Coroutines
  <2>2. PICK s \in {"waiting", "posted"} : task' = [task EXCEPT ![t].stage = s]
    BY <1>7 DEF Wait, Waits
  <2>3. \A u \in Tasks : \/ task'[u].stage = task[u].stage
                         \/ {task[u].stage, task'[u].stage} \subseteq Stages
    BY <1>2, <2>1, <2>2 DEF Stages
  <2>4. owner' = owner
    BY <1>7 DEF Wait
  <2> QED BY <1>1, <2>3, <2>4, SameRunning, GroupStutter
<1>8. ASSUME NEW t \in Tasks, Finish(t) PROVE Group!Next
  <2>1. task[t].stage = "running" /\ task' = [task EXCEPT ![t].stage = "ended"] /\ Discounted
    BY <1>4, <1>8, OwnerAssumption DEF Finish, Stage, Coroutines
  <2>2. t \in Running /\ Running' = Running \ {t}
    BY <1>2, <2>1 DEF Running, Stages
  <2>3. Cardinality(Running') = Cardinality(Running) - 1
    BY <2>2, Counting, FS_RemoveElement
  <2>4. ~value /\ (counter = 1 <=> Running' = {})
    <3>1. Running # {} /\ counter = Cardinality(Running) /\ value = (counter = 0)
      BY <1>1, <2>2 DEF CounterExact
    <3>2. counter = 1 <=> Running' = {}
      BY <2>3, <3>1, Counting, CountingNext
    <3>3. counter # 0
      BY <3>1, Counting
    <3> QED BY <3>1, <3>2, <3>3
  <2>5. value' <=> Running' = {}
    BY <2>1, <2>4 DEF Discounted
  <2>6. owner'.stage = IF Running' = {} /\ owner.stage = "joining" THEN "told" ELSE owner.stage
    BY <1>2, <2>1, <2>4, <2>5 DEF Discounted
  <2> QED BY <2>2, <2>6, GroupJoin
<1>9. ASSUME NEW f \in Tasks, Fail(f) PROVE UNCHANGED Group!vars
  <2>1. owner' = owner
    BY <1>9 DEF Fail
  <2>2. \A t \in Tasks : \/ task'[t].stage = task[t].stage
                         \/ {task[t].stage, task'[t].stage} \subseteq Stages
    <3>1. CASE Cut(f)
      BY <1>9, <3>1 DEF Fail
    <3>2. CASE ~Cut(f)
      <4> DEFINE S == {t \in Waiting : task[t].born = gen}
      <4>1. S \in SUBSET Waiting /\ task' = [Told(S) EXCEPT ![f].told = "handled"]
        BY <1>9, <3>2 DEF Fail
      <4> HIDE DEF S
      <4>2. Told(S) \in [Tasks -> [stage : Stages \cup {"none", "ended"}, born : 0..MaxResets,
                                   told : Outcomes \cup {"handled"}]]
        BY <1>1, <4>1, ToldType
      <4>3. \A t \in Tasks : task'[t].stage = Told(S)[t].stage
        BY <4>1, <4>2
      <4> QED BY <1>3, <4>1, <4>3
    <3> QED BY <3>1, <3>2
  <2> QED BY <1>1, <2>1, <2>2, SameRunning, GroupStutter
<1>10. CASE Join
  <2>1. owner.stage = "running"
    BY <1>4, <1>10 DEF Join, Free, Stage, Coroutines
  <2>2. Running' = Running
    BY <1>10 DEF Join, Running
  <2>3. value <=> Running = {}
    BY <1>1, Counting DEF CounterExact
  <2>4. \/ value /\ owner'.stage = "told"
        \/ ~value /\ shut /\ owner'.stage = "posted"
        \/ ~value /\ ~shut /\ owner'.stage = "joining"
    BY <1>2, <1>10 DEF Join, Joins
  <2>5. CASE ~value /\ shut /\ owner'.stage = "posted"
    BY <2>1, <2>2, <2>5, GroupStutter
  <2>6. CASE owner'.stage = IF Running = {} THEN "told" ELSE "joining"
    BY <2>1, <2>2, <2>6, GroupJoin
  <2> QED BY <2>3, <2>4, <2>5, <2>6
<1>11. CASE OwnWait
  <2>1. owner.stage = "running"
    BY <1>4, <1>11 DEF OwnWait, Free, Stage, Coroutines
  <2>2. Running' = Running /\ owner'.stage \in {"posted", "waiting"}
    BY <1>2, <1>11 DEF OwnWait, Running
  <2> QED BY <2>1, <2>2, GroupStutter
<1>12. CASE Leave
  <2>1. owner.stage = "running" /\ owner'.stage = "left"
    BY <1>2, <1>4, <1>12 DEF Leave, Stage, Coroutines
  <2>2. Running' = Running
    BY <1>1, <1>3, <1>12, SameRunning DEF Leave
  <2> QED BY <2>1, <2>2, GroupStutter
<1>13. ASSUME NEW t \in Tasks, Complete(t) PROVE UNCHANGED Group!vars
  <2>1. owner' = owner /\ task' = Told({t}) /\ {t} \in SUBSET Waiting
    BY <1>13 DEF Complete
  <2>2. Running' = Running
    BY <1>1, <1>3, <2>1, SameRunning
  <2> QED BY <2>1, <2>2, GroupStutter
<1>14. CASE CompleteOwner
  <2>1. Running' = Running /\ owner.stage = "waiting" /\ owner'.stage = "posted"
    BY <1>2, <1>14 DEF CompleteOwner, Running
  <2> QED BY <2>1, GroupStutter
<1>15. CASE JoinTimeout
  <2>1. Running' = Running /\ owner.stage = "joining" /\ owner'.stage = "posted"
    BY <1>2, <1>15 DEF JoinTimeout, Running
  <2> QED BY <2>1, GroupJoin
<1>16. CASE CloseOuter
  <2>1. Running' = Running
    BY <1>1, <1>3, <1>16, SameRunning DEF CloseOuter
  <2>2. owner'.stage = IF owner.stage \in {"joining", "waiting"} THEN "posted" ELSE owner.stage
    BY <1>2, <1>16 DEF CloseOuter
  <2>3. CASE owner.stage = "joining"
    BY <2>1, <2>2, <2>3, GroupJoin
  <2>4. CASE owner.stage # "joining"
    BY <2>1, <2>2, <2>4, GroupStutter
  <2> QED BY <2>3, <2>4
<1>17. CASE Resume
  <2> DEFINE c == Head(queue).who
  <2>1. c \in Posted
    BY <1>1, <1>2, <1>17, OnceTail, Parts DEF Resume
  <2>2. CASE c = Owner
    <3>1. owner.stage \in {"posted", "told"} /\ owner'.stage = "running" /\ task' = task
      BY <1>17, <2>1, <2>2 DEF Resume, Posted, Stage
    <3>2. Running' = Running
      BY <3>1 DEF Running
    <3> QED BY <3>1, <3>2, GroupJoin, GroupStutter
  <2>3. CASE c # Owner
    <3>1. c \in Tasks /\ task[c].stage = "posted"
      BY <1>2, <2>1, <2>3 DEF Posted, Stage, Stages, Coroutines
    <3>2. owner' = owner /\ task' = [task EXCEPT ![c].stage = "running", ![c].told = Head(queue).res]
      BY <1>17, <2>3 DEF Resume
    <3> HIDE DEF c
    <3>3. \A t \in Tasks : \/ task'[t].stage = task[t].stage
                           \/ {task[t].stage, task'[t].stage} \subseteq Stages
      BY <1>2, <3>1, <3>2 DEF Stages
    <3> QED BY <1>1, <3>2, <3>3, SameRunning, GroupStutter
  <2> QED BY <2>2, <2>3
<1>18. CASE UNCHANGED vars
  BY <1>18, GroupStutter DEF vars, Running
<1> QED BY <1>5, <1>6, <1>7, <1>8, <1>9, <1>10, <1>11, <1>12, <1>13, <1>14, <1>15, <1>16, <1>17, <1>18
        DEF Next, Step, Coroutines

\* A join that succeeds found nobody running, and nobody begins until the owner goes
\* on, whatever resets, errors and their handlers do meanwhile (spawner.hpp).
THEOREM TaskGroupRefined == Spec => ImplementsTaskGroup
<1>1. Init => Group!Init
  BY DEF Init, Group!Init, Running, Stages
<1> QED BY <1>1, GroupStep, InvariantCorrect, PTL DEF Spec, ImplementsTaskGroup, Group!Spec
=============================================================================
