------------------------------ MODULE EventLoop ------------------------------
(****************************************************************************)
(* The virtual-time loop that drives everything: samples and strategies run *)
(*                                                                          *)
(*     while (true) { process_market(ios); ios.poll(); }                    *)
(*                                                                          *)
(* process_market (MarketService) picks the earliest of three kinds of      *)
(* work: a Task of the TaskService, a call or callback travelling through   *)
(* the backtester's EventBus with a fixed latency, or the next record of    *)
(* the data source with the least datetime.  poll runs the user's           *)
(* coroutines, which arm timers and start asynchronous operations.  The     *)
(* clock m_datetime is virtual: nothing but process_market assigns it.      *)
(*                                                                          *)
(* An asynchronous operation is modelled as the services of add_order.hpp,  *)
(* cancel_order.hpp and req_securities.hpp treat it: a request posted on    *)
(* the bus (none for a mere wait), a pending record, and (when a duration   *)
(* was given) a Task that completes the operation with a timeout.  Records  *)
(* are filed under an order id, all securities requests together, and an    *)
(* event completes every record it finds: another's answer may end an       *)
(* operation early.  The ids are left open: an event ends some set of the   *)
(* pending operations.  What the exchange answers is AsyncOrders' and       *)
(* MarketSimulator's subject; here only WHEN it is answered matters.        *)
(****************************************************************************)
EXTENDS Integers, Sequences

CONSTANTS
    Delay,      \* Backtester's delay: latency of the bus in each direction
    Sources,    \* the data sources, numbered in the order they were added
    Ops,        \* asynchronous operations the strategies may start
    NoOp,       \* owner of a task or bus entry that belongs to no operation
    Waits,      \* durations operations are started with
    Unlimited,  \* no duration was given (not_a_date_time)
    Recordings, \* bound: what the sources hold: first record's time, and how many
    Gaps,       \* bound: distances between the records of a source
    MaxReach,   \* bound: how far ahead of the clock a timer is set
    MaxPush,    \* bound: callbacks a record, or an answer beyond its first, pushes
    MaxTasks    \* bound: tasks ever scheduled

ASSUME DelayAssumption == Delay \in Nat
ASSUME SourcesAssumption == Sources \subseteq Nat /\ Sources # {}
ASSUME OpsAssumption == NoOp \notin Ops
ASSUME WaitsAssumption == Waits \subseteq Nat /\ Unlimited \notin Nat
ASSUME BoundsAssumption ==
    /\ Recordings \subseteq [Sources -> [first : Nat, records : Nat \ {0}]]
    /\ Gaps \subseteq Nat
    /\ MaxReach \in Nat /\ MaxPush \in Nat /\ MaxTasks \in Nat

VARIABLES
    phase,      \* where the loop is: "process", "poll", or "eof" once thrown
    awake,      \* user code got control in this turn and may act
    now,        \* MarketService::m_datetime
    feed,       \* per source: datetime of the record it will hand out next
    left,       \* per source: records not handed out yet; eof() at 0
    bus,        \* EventBus::m_events
    tasks,      \* TaskService::m_tasks
    taskId,     \* TaskService::m_task_id
    pending,    \* operations with a record in a service's m_orders
    outcome,    \* what an operation's handler was posted with; "success" is an
                \* answer, be it a refusal
    \* History variables, read by no guard:
    started,    \* per operation: the time it was started at ...
    budget,     \* ... and the duration it was given
    answered    \* operations whose request the exchange has answered

vars == <<phase, awake, now, feed, left, bus, tasks, taskId, pending, outcome,
          started, budget, answered>>

Task  == [at : Nat, id : Nat, born : Nat, op : Ops \cup {NoOp}]
Entry == [at : Nat, sent : Nat, kind : {"request", "reply"}, op : Ops]
             \cup [at : Nat, sent : Nat, kind : {"data"}, op : {NoOp}]
Outcomes == {"none", "success", "timeout", "closed"}

TypeOK ==
    /\ phase \in {"process", "poll", "eof"}
    /\ awake \in BOOLEAN
    /\ now \in Nat
    /\ feed \in [Sources -> Nat]
    /\ left \in [Sources -> Nat]
    /\ bus \in Seq(Entry)
    /\ tasks \subseteq Task
    /\ taskId \in Nat
    /\ pending \subseteq Ops
    /\ outcome \in [Ops -> Outcomes]
    /\ started \in [Ops -> Nat]
    /\ budget \in [Ops -> Waits \cup {Unlimited}]
    /\ answered \subseteq Ops

\* Mutant of Max2: the clock is set to whatever ran.
Max2Unguarded(a, b) == b

\* process_market turns the clock forward only: if (m_datetime < datetime).
Max2(a, b) == IF a < b THEN b ELSE a

-----------------------------------------------------------------------------
(* Reading the clocks *)

\* first_data_source: std::min_element keeps the first of equal elements.
IsFirstSource(s) ==
    \A r \in Sources : feed[s] < feed[r] \/ (feed[s] = feed[r] /\ s <= r)

\* MarketSimulator::datetime
MarketTime == CHOOSE t \in {feed[s] : s \in Sources} :
                  \A s \in Sources : t <= feed[s]

\* The condition EventBus::process and EventBus::datetime share.
BusDue == bus # <<>> /\ Head(bus).at <= MarketTime

\* eof() of a data source
Exhausted(s) == left[s] = 0

\* Mutant of RootTime: the market's clock, blind to what travels on the bus.
RootTimeNoBus == MarketTime

\* EventBus::datetime, which is m_root_market->datetime()
RootTime == IF BusDue THEN Head(bus).at ELSE MarketTime

\* Task::Order
Precedes(t, u) == t.at < u.at \/ (t.at = u.at /\ t.id <= u.id)

\* Mutant of TaskDue: < for <=.
TaskDueStrict == \E t \in tasks : t.at < RootTime

\* The test at the top of process_market.
TaskDue == \E t \in tasks : t.at <= RootTime

-----------------------------------------------------------------------------
(* Writing the queues *)

\* The operation's record is still in its service.
Waiting(o) == o \in pending

\* Mutant of Stamped: latency on the way back only.
StampedOneWay(kind, op, t) ==
    [at |-> IF kind = "request" THEN t ELSE t + Delay, sent |-> t,
     kind |-> kind, op |-> op]

\* EventBus::add_event: the stamp is get_now() + m_delay.
Stamped(kind, op, t) == [at |-> t + Delay, sent |-> t, kind |-> kind, op |-> op]

\* Mutant of Scheduled: the bus's latency is taken off.
ScheduledEarly(t, op) ==
    [at |-> t - Delay, id |-> taskId + 1, born |-> now, op |-> op]

\* add_task: TaskService::push numbers the tasks in the order they come.
Scheduled(t, op) == [at |-> t, id |-> taskId + 1, born |-> now, op |-> op]

\* Mutant of TasksWithout: the Task outlives the record.
TasksWithoutNone(over) == tasks

\* Records of operations go, and with them (their destructors) the Tasks they
\* own.
TasksWithout(over) == {t \in tasks : t.op \notin over}

\* The records an event completes: all those filed under its order id (or all
\* securities requests), whoever started them.  Which these are is left open,
\* but the answer to a request finds the record of the operation that asked.
Served(e) == {over \in SUBSET pending : Waiting(e.op) => e.op \in over}

\* Mutant of Executed: the task stays where it is.
ExecutedKept(t) == tasks

\* execute_first erases the task it runs.
Executed(t) == tasks \ {t}

-----------------------------------------------------------------------------
(* MarketService::process_market *)

\* m_tasks.execute_first().  A Task whose datetime lies in the past does not
\* turn the clock back.  An operation's Task completes it with a timeout.
RunTask ==
    /\ phase = "process"
    /\ \E t \in tasks :
         /\ t.at <= RootTime
         /\ \A u \in tasks : Precedes(t, u)
         /\ now' = Max2(now, t.at)
         /\ tasks' = Executed(t)
         /\ IF Waiting(t.op)
            THEN /\ pending' = pending \ {t.op}
                 /\ outcome' = [outcome EXCEPT ![t.op] = "timeout"]
            ELSE UNCHANGED <<pending, outcome>>
    /\ phase' = "poll" /\ awake' = TRUE
    /\ UNCHANGED <<feed, left, bus, taskId, started, budget, answered>>

\* The bus hands a request to the simulator, which drops it silently or answers
\* at once: the callback that completes the operation first, then any others
\* (the fills of an order), each an event of its own on its way back.
DeliverRequest ==
    /\ phase = "process" /\ ~TaskDue /\ BusDue
    /\ Head(bus).kind = "request"
    /\ now' = RootTime
    /\ LET o == Head(bus).op IN
         \/ /\ \E n \in 0..MaxPush :
                  bus' = Append(Tail(bus), Stamped("reply", o, now'))
                             \o [i \in 1..n |-> Stamped("data", NoOp, now')]
            /\ answered' = answered \cup {o}
         \/ /\ bus' = Tail(bus)
            /\ UNCHANGED answered
    /\ phase' = "poll"
    /\ UNCHANGED <<awake, feed, left, tasks, taskId, pending, outcome, started,
                   budget>>

\* The bus hands a callback to the asynchronous layer: an event completes all
\* the operations that wait for it, those of the strategy that asked and any
\* other's; market data and an event nobody waits for only wake subscribers.
DeliverCallback ==
    /\ phase = "process" /\ ~TaskDue /\ BusDue
    /\ Head(bus).kind \in {"reply", "data"}
    /\ now' = RootTime
    /\ bus' = Tail(bus)
    /\ \E over \in Served(Head(bus)) :
         /\ pending' = pending \ over
         /\ outcome' = [o \in Ops |-> IF o \in over THEN "success" ELSE outcome[o]]
         /\ tasks' = TasksWithout(over)
    /\ phase' = "poll" /\ awake' = TRUE
    /\ UNCHANGED <<feed, left, taskId, started, budget, answered>>

\* QshDataSource::process: the record's handlers run, every callback they make
\* goes on the bus, then the header of the next record is read.
ReadRecord ==
    /\ phase = "process" /\ ~TaskDue /\ ~BusDue
    /\ now' = RootTime
    /\ \E s \in Sources, n \in 0..MaxPush, gap \in Gaps :
         /\ IsFirstSource(s) /\ ~Exhausted(s)
         /\ bus' = bus \o [i \in 1..n |-> Stamped("data", NoOp, now')]
         /\ left' = [left EXCEPT ![s] = @ - 1]
         /\ feed' = IF left[s] > 1 THEN [feed EXCEPT ![s] = @ + gap] ELSE feed
    /\ phase' = "poll"
    /\ UNCHANGED <<awake, tasks, taskId, pending, outcome, started, budget,
                   answered>>

\* An exhausted source keeps the datetime of its last record; when it is
\* first again, process() throws EofQshException and the loop is left.
Eof ==
    /\ phase = "process" /\ ~TaskDue /\ ~BusDue
    /\ now' = RootTime
    /\ \E s \in Sources : IsFirstSource(s) /\ Exhausted(s)
    /\ phase' = "eof" /\ awake' = FALSE
    /\ UNCHANGED <<feed, left, bus, tasks, taskId, pending, outcome, started,
                   budget, answered>>

-----------------------------------------------------------------------------
(* What user code does when it gets control (ios.poll()) *)

UserTurn == phase = "poll" /\ awake /\ UNCHANGED <<phase, awake, now, feed, left>>

\* add_task(datetime, ...): Timer and Interval; the datetime is computed from
\* current_datetime() or given, and may already have passed.
SetTimer ==
    /\ UserTurn
    /\ taskId < MaxTasks
    /\ \E t \in 0..(now + MaxReach) : tasks' = tasks \cup {Scheduled(t, NoOp)}
    /\ taskId' = taskId + 1
    /\ UNCHANGED <<bus, pending, outcome, started, budget, answered>>

\* Task::cancel, or the destructor of the Timer that owns the Task
CancelTimer ==
    /\ UserTurn
    /\ \E t \in tasks : t.op = NoOp /\ tasks' = tasks \ {t}
    /\ UNCHANGED <<bus, taskId, pending, outcome, started, budget, answered>>

\* async_add_order, async_cancel_order and async_req_securities: a Task (its
\* datetime is m_root_market->datetime() + duration), a request and a record,
\* all in one call.  async_wait_order and async_wait_cancel send no request; a
\* wait the History answers at once leaves no record and is no step here; a
\* bare request (del_order) is a call that CloseOp ends at once.
StartOp ==
    /\ UserTurn
    /\ \E o \in Ops, w \in Waits \cup {Unlimited} :
         /\ o \notin pending /\ outcome[o] = "none"
         /\ IF w = Unlimited
            THEN UNCHANGED <<tasks, taskId>>
            ELSE /\ taskId < MaxTasks
                 /\ tasks' = tasks \cup {Scheduled(RootTime + w, o)}
                 /\ taskId' = taskId + 1
         /\ \/ bus' = Append(bus, Stamped("request", o, now))
            \/ UNCHANGED bus
         /\ pending' = pending \cup {o}
         /\ started' = [started EXCEPT ![o] = now]
         /\ budget' = [budget EXCEPT ![o] = w]
    /\ UNCHANGED <<outcome, answered>>

\* The context an operation runs under closes: on_ctx_closing.
CloseOp ==
    /\ UserTurn
    /\ \E o \in pending :
         /\ pending' = pending \ {o}
         /\ outcome' = [outcome EXCEPT ![o] = "closed"]
         /\ tasks' = TasksWithout({o})
    /\ UNCHANGED <<bus, taskId, started, budget, answered>>

\* ios.poll() returns when no handler is ready.
EndPoll ==
    /\ phase = "poll"
    /\ phase' = "process" /\ awake' = FALSE
    /\ UNCHANGED <<now, feed, left, bus, tasks, taskId, pending, outcome,
                   started, budget, answered>>

Finished == phase = "eof" /\ UNCHANGED vars

-----------------------------------------------------------------------------
\* init_market: m_datetime is the datetime of the first record.  The coroutines
\* spawned before the loop get control in its first poll.
Init ==
    /\ phase = "process" /\ awake = TRUE
    /\ \E r \in Recordings : /\ feed = [s \in Sources |-> r[s].first]
                            /\ left = [s \in Sources |-> r[s].records]
    /\ now = MarketTime
    /\ bus = <<>>
    /\ tasks = {} /\ taskId = 0
    /\ pending = {}
    /\ outcome = [o \in Ops |-> "none"]
    /\ started = [o \in Ops |-> 0]
    /\ budget = [o \in Ops |-> Unlimited]
    /\ answered = {}

ProcessMarket == RunTask \/ DeliverRequest \/ DeliverCallback \/ ReadRecord \/ Eof
UserCode == SetTimer \/ CancelTimer \/ StartOp \/ CloseOp
Next == ProcessMarket \/ UserCode \/ EndPoll \/ Finished

\* The loop itself never rests; nothing obliges user code to act.
Spec == Init /\ [][Next]_vars /\ WF_vars(ProcessMarket) /\ WF_vars(EndPoll)
-----------------------------------------------------------------------------
(* Properties *)

\* The instant a task can be run at: not before it was scheduled.
Due(t) == Max2(t.at, t.born)

\* EventBus looks only at the front of a plain FIFO queue.  That is a correct
\* schedule only because the stamps of the queued events never decrease.
BusSorted == \A i, j \in DOMAIN bus : i < j => bus[i].at <= bus[j].at

\* The timeout Task of an operation lives exactly as long as the operation's
\* record: none fires for an operation that is over, and no operation that was
\* given a duration waits without one.
TimeoutArmed ==
    /\ \A t \in tasks : t.op # NoOp => t.op \in pending
    /\ \A o \in pending :
         budget[o] # Unlimited <=> \E t \in tasks : t.op = o

\* An operation whose request is answered does not time out when its duration
\* exceeds one round trip, although the timeout and the answer are compared
\* with two different clocks (the Task's with RootTime, the answer's with the
\* stamps of the bus).
NoSpuriousTimeout ==
    \A o \in answered :
        outcome[o] = "timeout" => budget[o] # Unlimited /\ budget[o] <= 2 * Delay

\* When the data ends, everything that was due has been done: no answer or
\* timeout that lies within the recorded data is lost.
EverythingDueDone ==
    phase = "eof" =>
        /\ \A t \in tasks : now < t.at
        /\ \A i \in DOMAIN bus : now < bus[i].at

\* The clock never runs backwards.
ClockMonotone == [][now <= now']_vars

\* Whatever else the loop has to do in between, an answer completes operations
\* exactly one round trip after the operation it answers was started: its own
\* or, the records of an order being completed together, a later or earlier
\* one's.  And an operation whose request is answered waits no longer than its
\* own round trip, though others' events may end it sooner.
RoundTripLatency ==
    [][/\ \A o \in Ops :
            outcome'[o] = "success" /\ outcome[o] # "success"
                /\ Head(bus).kind = "reply"
                => now' = started[Head(bus).op] + 2 * Delay
       /\ (\A o \in answered \cap pending : now <= started[o] + 2 * Delay)']_vars

\* No operation times out before its duration has passed since it was started.
NoEarlyTimeout ==
    [][\A o \in Ops : outcome'[o] = "timeout" /\ outcome[o] # "timeout"
           => budget[o] # Unlimited /\ now' >= started[o] + budget[o]]_vars

\* A handler is posted once: an outcome, once reported, is never replaced by a
\* late answer, a timeout or the closing of the context.
OutcomeFinal ==
    [][\A o \in Ops : outcome[o] # "none" => outcome'[o] = outcome[o]]_vars

\* The backtest ends: neither timers nor traffic on the bus keep the loop from
\* reaching the end of the data.
BacktestEnds == <>(phase = "eof")

\* The loop is a virtual clock over everything still to be done.
Agenda == {feed[s] : s \in Sources}
              \cup {bus[i].at : i \in DOMAIN bus}
              \cup {Due(t) : t \in tasks}

Clock == INSTANCE VirtualTime WITH agenda <- Agenda

ImplementsVirtualTime == Clock!Spec
-----------------------------------------------------------------------------
(* The inductive invariant behind the safety properties *)

\* An operation is known to the rest of the system once it was started.
Known(o) == o \in pending \/ outcome[o] # "none"

\* An entry of the bus carries the time it was put there, which is the start
\* of its operation for a request and one latency later for the answer.
EntryInv(e) ==
    /\ e.at = e.sent + Delay /\ e.sent <= now /\ now <= e.at
    /\ e.kind = "request" => /\ Known(e.op)
                             /\ e.sent = started[e.op]
                             /\ outcome[e.op] = "timeout" =>
                                    budget[e.op] # Unlimited /\ budget[e.op] <= 2 * Delay
    /\ e.kind = "reply" => /\ Known(e.op)
                           /\ e.sent = started[e.op] + Delay

\* A task of an operation is its only one and lies at least the operation's
\* duration after its start.
TaskInv(t) ==
    /\ t.born <= now /\ now <= Due(t)
    /\ t.op # NoOp => /\ t.op \in pending
                      /\ budget[t.op] # Unlimited
                      /\ started[t.op] + budget[t.op] <= t.at
                      /\ \A u \in tasks : u.op = t.op => u = t

\* The answer a pending operation has been given is still on its way.
OpInv(o) ==
    /\ started[o] <= now
    /\ o \in pending =>
         /\ outcome[o] = "none"
         /\ budget[o] # Unlimited => \E t \in tasks : t.op = o
         /\ o \in answered =>
              \E i \in DOMAIN bus : bus[i].kind = "reply" /\ bus[i].op = o
    /\ o \in answered =>
         /\ Known(o)
         /\ outcome[o] = "timeout" => budget[o] # Unlimited /\ budget[o] <= 2 * Delay

IInv ==
    /\ TypeOK
    /\ now <= MarketTime
    /\ BusSorted
    /\ \A i \in DOMAIN bus : EntryInv(bus[i])
    /\ \A t \in tasks : TaskInv(t)
    /\ \A o \in Ops : OpInv(o)
    /\ EverythingDueDone
=============================================================================
