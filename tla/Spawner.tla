------------------------------- MODULE Spawner -------------------------------
(****************************************************************************)
(* A Spawner and its coroutines: the strategy that owns it (the one whose   *)
(* frame it lives in) and the strategies spawned into it, with the contexts *)
(* above them, the counter of running strategies and the Watcher that joins *)
(* wait with.  The contexts form a chain                                    *)
(*                                                                          *)
(*     owner's context <- m_general_ctx <- m_ctx <- a strategy's context    *)
(*                                                                          *)
(* and a reset closes m_ctx and puts a new generation in its place.  One    *)
(* thread runs everything: "stack" holds the coroutines that are on it,     *)
(* "queue" the handlers posted to the io_service.  What a strategy waits    *)
(* for (orders, timers, indicators) completes at any moment the loop runs.  *)
(*                                                                          *)
(* Three kinds of owner exist.  Trading strategies ("trader") wait for      *)
(* nothing but the join while strategies run, and hand the spawner to their *)
(* strategies, which reset it and spawn into it.  CalmOppStrategy ("opp")   *)
(* is one that runs a whole trading strategy of its own meanwhile.  The     *)
(* trading guard ("guard") resets and spawns itself and joins for 45 s.     *)
(****************************************************************************)
EXTENDS Integers, FiniteSets, SequencesExt

CONSTANTS
    Tasks,      \* strategies that may be spawned
    Owner,
    MaxResets   \* bound: how often m_ctx is replaced

ASSUME TasksAssumption == IsFiniteSet(Tasks)
ASSUME OwnerAssumption == Owner \notin Tasks
ASSUME ResetsAssumption == MaxResets \in Nat

VARIABLES
    kind,       \* what kind of strategy the owner is
    shut,       \* the owner's own context is closed
    gen,        \* generation of m_ctx
    counter,    \* CounterIndicator::m_counter ...
    value,      \* ... and what the indicator says
    task,       \* the spawned strategies
    owner,      \* where the owner stands
    queue,      \* handlers posted to the io_service
    stack,      \* coroutines on the call stack, the running one last
    crashed     \* an error nobody handled left the io_service

vars == <<kind, shut, gen, counter, value, task, owner, queue, stack, crashed>>

Coroutines == Tasks \cup {Owner}
Stages == {"running", "waiting", "posted"}
Outcomes == {"go", "error", "closed"}

TypeOK ==
    /\ kind \in {"trader", "opp", "guard"}
    /\ {shut, value, crashed} \subseteq BOOLEAN
    /\ gen \in 0..MaxResets
    /\ counter \in 0..Cardinality(Tasks)
    /\ task \in [Tasks -> [stage : Stages \cup {"none", "ended"}, born : 0..MaxResets,
                           told : Outcomes \cup {"handled"}]]
    /\ owner \in [stage : Stages \cup {"joining", "told", "left"},
                  told : Outcomes \cup {"joined", "timeout", "caught"}]
    /\ queue \in Seq([who : Tasks, res : Outcomes]
                        \cup [who : {Owner}, res : {"go", "closed", "joined", "timeout"}])
    /\ stack \in Seq(Coroutines)

-----------------------------------------------------------------------------
(* Contexts *)

Running == {t \in Tasks : task[t].stage \in Stages}

Waiting == {t \in Tasks : task[t].stage = "waiting"}

\* The context of t is closed, and its link to the contexts above is cut.
Cut(t) == shut \/ owner.stage = "left" \/ task[t].born < gen

Post(c, r) == <<[who |-> c, res |-> r]>>

\* Closing contexts post CtxClosed to whoever waits under them; children are
\* an unordered set.
Notices(S) == {[k \in DOMAIN s |-> [who |-> s[k], res |-> "closed"]] : s \in SetToSeqs(S)}

Told(S) == [t \in Tasks |-> IF t \in S THEN [task[t] EXCEPT !.stage = "posted"] ELSE task[t]]

-----------------------------------------------------------------------------
(* What a coroutine does while it is in control *)

InControl(c) == ~crashed /\ stack # <<>> /\ Last(stack) = c
InLoop == ~crashed /\ stack = <<>>

\* Who may use the spawner now: strategies of a guard do not know it, and a
\* closed context or an error caught on the way out ends a strategy.
Free(c) ==
    /\ InControl(c)
    /\ IF c = Owner THEN owner.told \in {"go", "joined"}
                    ELSE kind # "guard" /\ task[c].told \in {"go", "error"}

\* TradingContext's constructor throws on a closed parent: the caller ends.
Thrown(c) ==
    /\ task' = IF c = Owner THEN task ELSE [task EXCEPT ![c].told = "closed"]
    /\ owner' = IF c = Owner THEN [owner EXCEPT !.told = "closed"] ELSE owner

Counted == counter' = counter + 1 /\ value' = FALSE

\* The strategy starts inside the call, or is posted when the strand is taken.
Spawn(c, u) ==
    /\ Free(c) \/ (c # Owner /\ InControl(c) /\ task[c].told = "handled")
    /\ task[u].stage = "none"
    /\ IF shut
       THEN Thrown(c) /\ UNCHANGED <<counter, value, queue, stack>>
       ELSE /\ Counted
            /\ owner' = IF c = Owner THEN [owner EXCEPT !.told = "go"] ELSE owner
            /\ \/ /\ task' = [task EXCEPT ![u] = [stage |-> "running", born |-> gen, told |-> "go"]]
                  /\ stack' = Append(stack, u)
                  /\ UNCHANGED queue
               \/ /\ task' = [task EXCEPT ![u] = [stage |-> "posted", born |-> gen, told |-> "go"]]
                  /\ queue' = queue \o Post(u, "go")
                  /\ UNCHANGED stack
    /\ UNCHANGED <<kind, shut, gen, crashed>>

\* Mutant of Replaced: the old context is dropped but not closed.
ReplacedOpen == gen' = gen + 1 /\ UNCHANGED <<queue, task>>

\* m_ctx is closed and a new one takes its place.
Replaced ==
    LET S == {t \in Waiting : task[t].born = gen}
    IN  /\ gen' = gen + 1
        /\ \E n \in Notices(S) : queue' = queue \o n
        /\ task' = Told(S)

Reset(c) ==
    /\ IF c = Owner
       THEN kind = "guard" /\ (Free(c) \/ (InControl(c) /\ owner.told = "timeout"))
       ELSE Free(c)
    /\ IF shut
       THEN Thrown(c) /\ UNCHANGED <<gen, queue>>
       ELSE /\ gen < MaxResets
            /\ Replaced
            /\ owner' = IF c = Owner /\ owner.told = "timeout"
                        THEN [owner EXCEPT !.told = "caught"] ELSE owner
    /\ UNCHANGED <<kind, shut, counter, value, stack, crashed>>

\* Mutant of Waits: the operation does not look at the context.
WaitsBlindly(t) ==
    task' = [task EXCEPT ![t].stage = "waiting"] /\ UNCHANGED queue

\* An operation begun on a closed context is answered at once.  (A watcher tests
\* its predicate before the context; here it is one that does not hold yet.)
Waits(t) ==
    IF Cut(t) THEN /\ task' = [task EXCEPT ![t].stage = "posted"]
                   /\ queue' = queue \o Post(t, "closed")
    ELSE task' = [task EXCEPT ![t].stage = "waiting"] /\ UNCHANGED queue

Wait(t) ==
    /\ InControl(t) /\ task[t].told \in {"go", "error"}
    /\ Waits(t)
    /\ stack' = Front(stack)
    /\ UNCHANGED <<kind, shut, gen, counter, value, owner, crashed>>

\* The count goes down; the indicator turns true with the last one, and the
\* join, if one waits, is answered.
Discounted ==
    /\ counter' = counter - 1
    /\ value' = (value \/ counter = 1)
    /\ IF ~value /\ value' /\ owner.stage = "joining"
       THEN owner' = [owner EXCEPT !.stage = "told"] /\ queue' = queue \o Post(Owner, "joined")
       ELSE UNCHANGED <<owner, queue>>

Finish(t) ==
    /\ InControl(t)
    /\ task' = [task EXCEPT ![t].stage = "ended"]
    /\ Discounted
    /\ stack' = Front(stack)
    /\ UNCHANGED <<kind, shut, gen, crashed>>

\* Mutant of Fail: the strategy is discounted before its error is handled.
FailDiscounted(t) ==
    /\ InControl(t) /\ kind # "guard" /\ task[t].told = "error" /\ ~Cut(t) /\ gen < MaxResets
    /\ LET S == {u \in Waiting : task[u].born = gen}
       IN  /\ \E n \in Notices(S) :
                IF counter = 1 /\ owner.stage = "joining"
                THEN /\ queue' = queue \o n \o Post(Owner, "joined")
                     /\ owner' = [owner EXCEPT !.stage = "told"]
                ELSE queue' = queue \o n /\ UNCHANGED owner
           /\ task' = [Told(S) EXCEPT ![t].told = "handled"]
    /\ gen' = gen + 1
    /\ counter' = counter - 1 /\ value' = (counter = 1)
    /\ UNCHANGED <<kind, shut, stack, crashed>>

\* An error leaves the strategy.  The handler of the owner's context resets the
\* spawner and may spawn (see Spawn) before the strategy is discounted; with
\* the contexts cut nothing handles it and the program ends.
Fail(t) ==
    /\ InControl(t) /\ kind # "guard" /\ task[t].told = "error"
    /\ IF Cut(t)
       THEN crashed' = TRUE /\ UNCHANGED <<gen, task, queue>>
       ELSE LET S == {u \in Waiting : task[u].born = gen}
            IN  /\ gen < MaxResets
                /\ gen' = gen + 1
                /\ \E n \in Notices(S) : queue' = queue \o n
                /\ task' = [Told(S) EXCEPT ![t].told = "handled"]
                /\ UNCHANGED crashed
    /\ UNCHANGED <<kind, shut, counter, value, owner, stack>>

-----------------------------------------------------------------------------
(* The owner *)

\* Mutant of Joins: the join is registered without a look at the counter.
JoinsLater == owner' = [owner EXCEPT !.stage = "joining"] /\ UNCHANGED queue

\* WatcherService::async_wait: already true, closed, or recorded.
Joins ==
    \/ /\ value
       /\ owner' = [owner EXCEPT !.stage = "told"] /\ queue' = queue \o Post(Owner, "joined")
    \/ /\ ~value /\ shut
       /\ owner' = [owner EXCEPT !.stage = "posted"] /\ queue' = queue \o Post(Owner, "closed")
    \/ /\ ~value /\ ~shut
       /\ owner' = [owner EXCEPT !.stage = "joining"] /\ UNCHANGED queue

Join ==
    /\ Free(Owner)
    /\ Joins
    /\ stack' = Front(stack)
    /\ UNCHANGED <<kind, shut, gen, counter, value, task, crashed>>

\* Something else the owner waits for, under its own context
OwnWait ==
    /\ Free(Owner)
    /\ kind = "trader" => Running = {}
    /\ IF shut THEN /\ owner' = [owner EXCEPT !.stage = "posted"]
                    /\ queue' = queue \o Post(Owner, "closed")
       ELSE owner' = [owner EXCEPT !.stage = "waiting"] /\ UNCHANGED queue
    /\ stack' = Front(stack)
    /\ UNCHANGED <<kind, shut, gen, counter, value, task, crashed>>

\* The frame is left after a join, or by the exception of a closed context;
\* the spawner's contexts close with it.
Leave ==
    /\ InControl(Owner)
    /\ owner.told \in {"joined", "closed", "caught"}
    /\ owner' = [owner EXCEPT !.stage = "left"]
    /\ \E n \in Notices(Waiting) : queue' = queue \o n
    /\ task' = Told(Waiting)
    /\ stack' = Front(stack)
    /\ UNCHANGED <<kind, shut, gen, counter, value, crashed>>

-----------------------------------------------------------------------------
(* The loop *)

\* An order event, a timer or an indicator ends what t waits for.
Complete(t) ==
    /\ InLoop /\ t \in Waiting
    /\ \E r \in {"go", "error"} : queue' = queue \o Post(t, r)
    /\ task' = Told({t})
    /\ UNCHANGED <<kind, shut, gen, counter, value, owner, stack, crashed>>

CompleteOwner ==
    /\ InLoop /\ owner.stage = "waiting"
    /\ queue' = queue \o Post(Owner, "go")
    /\ owner' = [owner EXCEPT !.stage = "posted"]
    /\ UNCHANGED <<kind, shut, gen, counter, value, task, stack, crashed>>

\* Mutant of JoinTimeout: the watcher's record stays.
JoinTimeoutKept ==
    /\ InLoop /\ kind = "guard" /\ owner.stage = "joining" /\ gen < MaxResets
    /\ queue' = queue \o Post(Owner, "timeout")
    /\ UNCHANGED <<kind, shut, gen, counter, value, task, owner, stack, crashed>>

\* The 45 seconds of the guard's join are over; the watcher's record goes.
JoinTimeout ==
    /\ InLoop /\ kind = "guard" /\ owner.stage = "joining" /\ gen < MaxResets
    /\ queue' = queue \o Post(Owner, "timeout")
    /\ owner' = [owner EXCEPT !.stage = "posted"]
    /\ UNCHANGED <<kind, shut, gen, counter, value, task, stack, crashed>>

\* Children close before a context tells its own waiters.
Closings == {n \o o : n \in Notices(Waiting),
                      o \in IF owner.stage \in {"joining", "waiting"} THEN {Post(Owner, "closed")}
                            ELSE {<<>>}}

\* Somebody closes the owner's context.
CloseOuter ==
    /\ InLoop /\ ~shut /\ owner.stage # "left"
    /\ shut' = TRUE
    /\ \E n \in Closings : queue' = queue \o n
    /\ task' = Told(Waiting)
    /\ owner' = IF owner.stage \in {"joining", "waiting"}
                THEN [owner EXCEPT !.stage = "posted"] ELSE owner
    /\ UNCHANGED <<kind, gen, counter, value, stack, crashed>>

\* The io_service runs the next handler.
Resume ==
    /\ InLoop /\ queue # <<>>
    /\ LET c == Head(queue).who
           r == Head(queue).res
       IN  /\ stack' = <<c>>
           /\ IF c = Owner
              THEN owner' = [stage |-> "running", told |-> r] /\ UNCHANGED task
              ELSE task' = [task EXCEPT ![c].stage = "running", ![c].told = r] /\ UNCHANGED owner
    /\ queue' = Tail(queue)
    /\ UNCHANGED <<kind, shut, gen, counter, value, crashed>>

-----------------------------------------------------------------------------

Init ==
    /\ kind \in {"trader", "opp", "guard"}
    /\ shut = FALSE /\ gen = 0 /\ crashed = FALSE
    /\ counter = 0 /\ value = TRUE
    /\ task = [t \in Tasks |-> [stage |-> "none", born |-> 0, told |-> "go"]]
    /\ owner = [stage |-> "running", told |-> "go"]
    /\ queue = <<>> /\ stack = <<Owner>>

\* A step of the coroutine in control
Step ==
    \/ \E c \in Tasks \cup {Owner} : Reset(c) \/ \E u \in Tasks : Spawn(c, u)
    \/ \E t \in Tasks : Wait(t) \/ Finish(t) \/ Fail(t)
    \/ Join \/ OwnWait \/ Leave

Next ==
    \/ Step \/ Resume
    \/ \E t \in Tasks : Complete(t)
    \/ CompleteOwner \/ JoinTimeout \/ CloseOuter

\* A coroutine runs until it suspends, and the loop runs posted handlers.
Spec == Init /\ [][Next]_vars /\ WF_vars(Step) /\ WF_vars(Resume)

-----------------------------------------------------------------------------
(* Properties *)

\* The counter is the number of strategies that have not ended, those of
\* earlier generations included, and the indicator is true exactly at zero.
CounterExact == counter = Cardinality(Running) /\ value = (counter = 0)

\* Where a coroutine stands
Stage(c) == IF c = Owner THEN owner.stage ELSE task[c].stage

\* A coroutine is resumed once for each time it suspends: it has one handler
\* in the queue when it is posted and none otherwise, whoever answered it
\* (the answer, a timeout, a closing context or the end of the last strategy).
ResumedOnce ==
    /\ \A j, k \in DOMAIN queue : queue[j].who = queue[k].who => j = k
    /\ {queue[k].who : k \in DOMAIN queue} = {c \in Coroutines : Stage(c) \in {"posted", "told"}}

\* Nobody waits under a closed context, and a join waits only for somebody.
NobodyForgotten ==
    /\ \A t \in Waiting : ~Cut(t)
    /\ owner.stage = "joining" => ~shut /\ Running # {}
    /\ owner.stage = "waiting" => ~shut

\* One thread runs the coroutines: those that run are on its stack, once.
OneThread ==
    /\ \A j, k \in DOMAIN stack : stack[j] = stack[k] => j = k
    /\ {stack[k] : k \in DOMAIN stack} = {c \in Coroutines : Stage(c) = "running"}

\* From the answer of a join until the owner goes on nobody runs or can begin.
JoinTold == owner.stage = "told" => Running = {}

\* How far strategies that may still do something can be from the frame they
\* refer to: when its owner is on the way out, all they get is the news of it.
FrameKept ==
    LET Closed(k) == queue[k].res = "closed"
    IN  kind = "trader" =>
        /\ owner.told \in {"go", "joined", "closed"}
        /\ owner.stage = "waiting" => Running = {}
        /\ \A k \in DOMAIN queue : queue[k].who = Owner =>
              \/ queue[k].res \in {"go", "joined", "closed"} /\ Running = {}
              \/ Closed(k) /\ shut /\ \A j \in DOMAIN queue : j > k => Closed(j)
        /\ owner.stage = "running" =>
              \/ Running = {}
              \/ owner.told = "go" /\ ~shut
              \/ owner.told = "closed" /\ shut /\ stack = <<Owner>> /\ \A k \in DOMAIN queue : Closed(k)
        /\ owner.stage = "left" =>
              /\ \A k \in DOMAIN queue : Closed(k)
              /\ \A t \in Tasks : task[t].stage = "running" => task[t].told = "closed"

\* The counter, the indicator, the contexts, the stack and who waits belong
\* together; generations only grow.
JoinInv ==
    /\ TypeOK /\ CounterExact /\ NobodyForgotten /\ OneThread /\ JoinTold /\ FrameKept
    /\ \A t \in Tasks : task[t].born <= gen

\* Strategies hold references into the frame of the trading strategy that
\* spawned them.  When one runs after that frame is gone it does so only to be
\* told that its context closed, which ends it.  (Of kind "opp" this is not
\* so: it may resume and leave before a strategy whose success is posted.)
FrameOutlivesUse ==
    kind = "trader" /\ owner.stage = "left" => \A t \in Tasks : InControl(t) => task[t].told = "closed"

\* The owner goes on after a successful join with nothing running, whatever
\* resets, errors and their handlers did in the meantime.
Group == INSTANCE TaskGroup WITH
    live <- Running,
    join <- CASE owner.stage = "joining" -> "pending"
              [] owner.stage = "told" -> "told"
              [] OTHER -> "idle"
ImplementsTaskGroup == Group!Spec

\* A strategy whose context closed ends, unless the program ended.
ClosedTasksEnd ==
    \A t \in Tasks : t \in Running /\ Cut(t) ~> t \notin Running \/ crashed

\* A join whose strategies have all been told to stop ends, unless one of them
\* spawned into the new generation before it heard of it.
ResetEndsJoin ==
    owner.stage = "joining" /\ (\A t \in Running : Cut(t))
        ~> owner.stage # "joining" \/ crashed \/ \E t \in Running : ~Cut(t)

\* Closing a context comes through to those who run under it and to the join.
ClosingComesThrough == ClosedTasksEnd /\ ResetEndsJoin

=============================================================================
