------------------------ MODULE AsyncMemoryProcessor ------------------------
(***************************************************************************)
(* core/memory/async_processor.py: long-term memory updates are put on a   *)
(* bounded asyncio queue and applied by a pool of worker coroutines that   *)
(* stop() shuts down with one None per worker.                             *)
(*                                                                         *)
(* All the coroutines run on one event loop, so a block of code between    *)
(* two suspension points is one action.  A coroutine is suspended in       *)
(* queue.get() on an empty queue, in queue.put() on a full one, in gather, *)
(* and in each call of the checker, the LTM port, the router and an        *)
(* asynchronous subscriber.                                                *)
(*                                                                         *)
(* The stores behind the LTM port and the router are not here: this module *)
(* keeps only whether a call returned or raised.  MemoryPipeline adds the  *)
(* stores to these very actions.                                           *)
(***************************************************************************)
EXTENDS Integers, Sequences, FiniteSets, SequenceFilters

CONSTANTS
    Tasks,           \* the MemoryTask objects callers may enqueue
    Type,            \* Type[t]: the task_type of t
    QueueMaxsize,    \* queue_maxsize, 1000 in the code
    WorkerCount,     \* worker_count, 2 in the code
    HasChecker,      \* a mem_update_checker was given
    HasRouter,       \* a tiered_router was given
    UseRedis,        \* the router has a redis_client: warm_cache() suspends in setex
    Controllers,     \* coroutines that call start() and stop(), one call at a time each
    MaxWorkers,      \* BOUND on the worker coroutines ever created
    MaxSubscribers,  \* BOUND on the calls of subscribe()
    Sentinel,        \* the None that stop() puts on the queue
    NoTask           \* a worker holds no task

TaskTypes == {"add", "delete", "update", "check_conflicts"}

WorkerIds == 1..MaxWorkers
SubscriberIds == 1..MaxSubscribers

ASSUME TasksAssumption == Sentinel \notin Tasks /\ NoTask \notin Tasks
ASSUME TypeAssumption == Type \in [Tasks -> TaskTypes]
ASSUME SizesAssumption == /\ QueueMaxsize \in Nat \ {0}
                          /\ WorkerCount \in Nat \ {0}
                          /\ MaxWorkers \in Nat
                          /\ MaxSubscribers \in Nat
ASSUME OptionsAssumption == HasChecker \in BOOLEAN /\ HasRouter \in BOOLEAN /\ UseRedis \in BOOLEAN

VARIABLES
    queue,       \* _queue: tasks and sentinels, oldest first
    running,     \* _running
    workers,     \* _workers: the worker coroutines of the list, in order
    spawned,     \* how many worker coroutines were ever created
    wpc,         \* wpc[w]: where the coroutine w is suspended
    wtask,       \* wtask[w]: the task w is processing, or NoTask
    wok,         \* wok[w]: the local variable success of _process
    wnext,       \* wnext[w]: how many subscribers w has notified of its task
    cpc,         \* cpc[c]: where the start() or stop() call of c is suspended
    cput,        \* cput[c]: how many sentinels the stop() call of c has put
    cwait,       \* cwait[c]: the workers the stop() call of c gathers
    subscribers, \* _subscribers: its length; subscribers are numbered in order
    inbox,       \* inbox[s]: the <<task, success>> events s received, in order
    \* What happened, for the properties only:
    accepted,    \* the tasks enqueue() put on the queue
    rejected,    \* the tasks whose last enqueue() raised ContextAgentError
    applied,     \* the tasks whose call of the LTM port returned
    done,        \* the tasks whose _process ended
    before,      \* before[c]: the tasks accepted when the stop() call of c began
    joined       \* joined[s]: the tasks already off the queue when s subscribed

workerVars == <<wpc, wtask, wok, wnext>>
controlVars == <<running, workers, spawned, cpc, cput, cwait, before>>
subscriberVars == <<subscribers, joined>>
historyVars == <<accepted, rejected, applied, done>>
vars == <<queue, workerVars, controlVars, subscriberVars, inbox, historyVars>>

\* The suspension points of _worker_loop and _process; "none" is a worker that
\* was not created yet and "exited" one that returned.
WorkerStates == {"none", "get", "check", "write", "search", "warm", "notify", "exited"}
ProcessStates == {"check", "write", "search", "warm", "notify"}
ControllerStates == {"idle", "put", "gather"}

IsFull == Len(queue) >= QueueMaxsize
Room == QueueMaxsize - Len(queue)
Alive(w) == wpc[w] \notin {"none", "exited"}

Least(a, b) == IF a <= b THEN a ELSE b
Most(a, b) == IF a <= b THEN b ELSE a
RangeOf(s) == {s[i] : i \in 1..Len(s)}

Init ==
    /\ queue = <<>>
    /\ running = FALSE
    /\ workers = <<>>
    /\ spawned = 0
    /\ wpc = [w \in WorkerIds |-> "none"]
    /\ wtask = [w \in WorkerIds |-> NoTask]
    /\ wok = [w \in WorkerIds |-> FALSE]
    /\ wnext = [w \in WorkerIds |-> 0]
    /\ cpc = [c \in Controllers |-> "idle"]
    /\ cput = [c \in Controllers |-> 0]
    /\ cwait = [c \in Controllers |-> {}]
    /\ subscribers = 0
    /\ inbox = [s \in SubscriberIds |-> <<>>]
    /\ accepted = {} /\ rejected = {} /\ applied = {} /\ done = {}
    /\ before = [c \in Controllers |-> {}]
    /\ joined = [s \in SubscriberIds |-> {}]

-----------------------------------------------------------------------------
(* enqueue() and subscribe(): plain calls that never suspend.              *)

\* Mutant: the queue is unbounded.
Enqueue_Unbounded(t) ==
    /\ t \notin accepted
    /\ queue' = Append(queue, t)
    /\ accepted' = accepted \cup {t}
    /\ rejected' = rejected \ {t}
    /\ UNCHANGED <<workerVars, controlVars, subscriberVars, inbox, applied, done>>

\* Mutant: the queue is last-in first-out.
Enqueue_Front(t) ==
    /\ t \notin accepted
    /\ ~IsFull
    /\ queue' = <<t>> \o queue
    /\ accepted' = accepted \cup {t}
    /\ rejected' = rejected \ {t}
    /\ UNCHANGED <<workerVars, controlVars, subscriberVars, inbox, applied, done>>

\* put_nowait succeeds, whether or not the processor is running.
Enqueue(t) ==
    /\ t \notin accepted
    /\ ~IsFull
    /\ queue' = Append(queue, t)
    /\ accepted' = accepted \cup {t}
    /\ rejected' = rejected \ {t}
    /\ UNCHANGED <<workerVars, controlVars, subscriberVars, inbox, applied, done>>

\* Mutant: QueueFull is logged and swallowed.
EnqueueFull_Swallowed(t) ==
    /\ t \notin accepted
    /\ IsFull
    /\ accepted' = accepted \cup {t}
    /\ UNCHANGED <<queue, workerVars, controlVars, subscriberVars, inbox,
                   rejected, applied, done>>

\* put_nowait raises QueueFull: the caller gets a ContextAgentError.
EnqueueFull(t) ==
    /\ t \notin accepted
    /\ IsFull
    /\ rejected' = rejected \cup {t}
    /\ UNCHANGED <<queue, workerVars, controlVars, subscriberVars, inbox,
                   accepted, applied, done>>

Held == {wtask[w] : w \in WorkerIds} \ {NoTask}

Subscribe ==
    /\ subscribers < MaxSubscribers
    /\ subscribers' = subscribers + 1
    /\ joined' = [joined EXCEPT ![subscribers + 1] = Held \cup done]
    /\ UNCHANGED <<queue, workerVars, controlVars, inbox, historyVars>>

-----------------------------------------------------------------------------
(* start() and stop().                                                     *)

\* start() never suspends; when _running is set it changes nothing.
Start(c) ==
    /\ cpc[c] = "idle"
    /\ ~running
    /\ spawned + WorkerCount <= MaxWorkers
    /\ running' = TRUE
    /\ spawned' = spawned + WorkerCount
    /\ workers' = workers \o [i \in 1..WorkerCount |-> spawned + i]
    /\ wpc' = [w \in WorkerIds |->
                 IF w \in (spawned + 1)..(spawned + WorkerCount) THEN "get" ELSE wpc[w]]
    /\ UNCHANGED <<queue, wtask, wok, wnext, cpc, cput, cwait, before,
                   subscriberVars, inbox, historyVars>>

\* Mutant: one sentinel too few.
PutSentinels_OneLess(c, i, n) ==
    /\ queue' = queue \o [j \in 1..(n - 1) |-> Sentinel]
    /\ IF i + n < Len(workers)
       THEN /\ cpc' = [cpc EXCEPT ![c] = "put"]
            /\ cput' = [cput EXCEPT ![c] = i + n]
            /\ UNCHANGED cwait
       ELSE /\ cpc' = [cpc EXCEPT ![c] = IF workers = <<>> THEN "idle" ELSE "gather"]
            /\ cput' = [cput EXCEPT ![c] = 0]
            /\ cwait' = [cwait EXCEPT ![c] = RangeOf(workers)]

\* From sentinel number i on, stop() puts n sentinels before it next suspends:
\* in put() if the queue got full, else in gather, which does not suspend when
\* there is no worker to wait for, so that stop() then returns.
PutSentinels(c, i, n) ==
    /\ queue' = queue \o [j \in 1..n |-> Sentinel]
    /\ IF i + n < Len(workers)
       THEN /\ cpc' = [cpc EXCEPT ![c] = "put"]
            /\ cput' = [cput EXCEPT ![c] = i + n]
            /\ UNCHANGED cwait
       ELSE /\ cpc' = [cpc EXCEPT ![c] = IF workers = <<>> THEN "idle" ELSE "gather"]
            /\ cput' = [cput EXCEPT ![c] = 0]
            /\ cwait' = [cwait EXCEPT ![c] = RangeOf(workers)]

BeginStop(c) ==
    /\ cpc[c] = "idle"
    /\ running' = FALSE
    /\ before' = [before EXCEPT ![c] = accepted]
    /\ PutSentinels(c, 0, Least(Len(workers), Room))
    /\ UNCHANGED <<workers, spawned, workerVars, subscriberVars, inbox, historyVars>>

\* The sentinel that waited for room goes first, even if another stop() has
\* cleared the list of workers in the meantime.
ResumeStop(c) ==
    /\ cpc[c] = "put"
    /\ ~IsFull
    /\ PutSentinels(c, cput[c], Most(1, Least(Len(workers) - cput[c], Room)))
    /\ UNCHANGED <<running, workers, spawned, before, workerVars, subscriberVars,
                   inbox, historyVars>>

\* Mutant: stop() does not wait for the workers.
FinishStop_NoGather(c) ==
    /\ cpc[c] = "gather"
    /\ workers' = <<>>
    /\ cpc' = [cpc EXCEPT ![c] = "idle"]
    /\ cwait' = [cwait EXCEPT ![c] = {}]
    /\ UNCHANGED <<queue, running, spawned, cput, before, workerVars,
                   subscriberVars, inbox, historyVars>>

\* gather() returns once every gathered worker has returned.
FinishStop(c) ==
    /\ cpc[c] = "gather"
    /\ \A w \in cwait[c] : wpc[w] = "exited"
    /\ workers' = <<>>
    /\ cpc' = [cpc EXCEPT ![c] = "idle"]
    /\ cwait' = [cwait EXCEPT ![c] = {}]
    /\ UNCHANGED <<queue, running, spawned, cput, before, workerVars,
                   subscriberVars, inbox, historyVars>>

-----------------------------------------------------------------------------
(* _worker_loop() and _process().                                          *)

\* Where _process first suspends, or would: a task of type check_conflicts has
\* no branch, so it succeeds at once and only its event is left.
FirstState(t) ==
    IF Type[t] = "check_conflicts" THEN "notify"
    ELSE IF Type[t] = "add" /\ HasChecker THEN "check"
    ELSE "write"

TakeTask(w) ==
    /\ wpc[w] = "get"
    /\ queue # <<>>
    /\ Head(queue) # Sentinel
    /\ queue' = Tail(queue)
    /\ wpc' = [wpc EXCEPT ![w] = FirstState(Head(queue))]
    /\ wtask' = [wtask EXCEPT ![w] = Head(queue)]
    /\ wok' = [wok EXCEPT ![w] = (Type[Head(queue)] = "check_conflicts")]
    /\ wnext' = [wnext EXCEPT ![w] = 0]
    /\ UNCHANGED <<controlVars, subscriberVars, inbox, historyVars>>

TakeSentinel(w) ==
    /\ wpc[w] = "get"
    /\ queue # <<>>
    /\ Head(queue) = Sentinel
    /\ queue' = Tail(queue)
    /\ wpc' = [wpc EXCEPT ![w] = "exited"]
    /\ UNCHANGED <<wtask, wok, wnext, controlVars, subscriberVars, inbox, historyVars>>

\* The checker answers or raises: either way the task goes on.
CheckEnds(w) ==
    /\ wpc[w] = "check"
    /\ wpc' = [wpc EXCEPT ![w] = "write"]
    /\ UNCHANGED <<queue, wtask, wok, wnext, controlVars, subscriberVars, inbox, historyVars>>

WriteSucceeds(w) ==
    /\ wpc[w] = "write"
    /\ wok' = [wok EXCEPT ![w] = TRUE]
    /\ wpc' = [wpc EXCEPT ![w] = IF HasRouter /\ Type[wtask[w]] = "add"
                                 THEN "search" ELSE "notify"]
    /\ applied' = applied \cup {wtask[w]}
    /\ UNCHANGED <<queue, wtask, wnext, controlVars, subscriberVars, inbox,
                   accepted, rejected, done>>

\* Mutant: an exception of the LTM port ends the worker.
WriteFails_KillsWorker(w) ==
    /\ wpc[w] = "write"
    /\ wpc' = [wpc EXCEPT ![w] = "exited"]
    /\ UNCHANGED <<queue, wtask, wok, wnext, controlVars, subscriberVars, inbox, historyVars>>

\* Mutant: success is set before the call of the LTM port.
WriteFails_Success(w) ==
    /\ wpc[w] = "write"
    /\ wok' = [wok EXCEPT ![w] = TRUE]
    /\ wpc' = [wpc EXCEPT ![w] = "notify"]
    /\ UNCHANGED <<queue, wtask, wnext, controlVars, subscriberVars, inbox, historyVars>>

WriteFails(w) ==
    /\ wpc[w] = "write"
    /\ wpc' = [wpc EXCEPT ![w] = "notify"]
    /\ UNCHANGED <<queue, wtask, wok, wnext, controlVars, subscriberVars, inbox, historyVars>>

\* Where the refresh next suspends after its search: in setex, when there is Redis
\* and something to cache.  Without Redis warm_cache() is a part of this block, and
\* after a search that raised only the event is left.
AfterSearch == IF UseRedis THEN {"warm", "notify"} ELSE {"notify"}

SearchEndsIn(w, next) ==
    /\ wpc[w] = "search"
    /\ next \in AfterSearch
    /\ wpc' = [wpc EXCEPT ![w] = next]
    /\ UNCHANGED <<queue, wtask, wok, wnext, controlVars, subscriberVars, inbox, historyVars>>

SearchEnds(w) == \E next \in AfterSearch : SearchEndsIn(w, next)

\* setex returned or raised: warm_cache() swallows its own errors.
WarmEnds(w) ==
    /\ wpc[w] = "warm"
    /\ wpc' = [wpc EXCEPT ![w] = "notify"]
    /\ UNCHANGED <<queue, wtask, wok, wnext, controlVars, subscriberVars, inbox, historyVars>>

\* The next subscriber gets the event; what it raises is swallowed.
Notify(w) ==
    /\ wpc[w] = "notify"
    /\ wnext[w] < subscribers
    /\ inbox' = [inbox EXCEPT ![wnext[w] + 1] = Append(@, <<wtask[w], wok[w]>>)]
    /\ wnext' = [wnext EXCEPT ![w] = @ + 1]
    /\ UNCHANGED <<queue, wpc, wtask, wok, controlVars, subscriberVars, historyVars>>

\* Every subscriber is notified: the loop goes back to queue.get().
EndTask(w) ==
    /\ wpc[w] = "notify"
    /\ wnext[w] = subscribers
    /\ done' = done \cup {wtask[w]}
    /\ wpc' = [wpc EXCEPT ![w] = "get"]
    /\ wtask' = [wtask EXCEPT ![w] = NoTask]
    /\ wok' = [wok EXCEPT ![w] = FALSE]
    /\ wnext' = [wnext EXCEPT ![w] = 0]
    /\ UNCHANGED <<queue, controlVars, subscriberVars, inbox, accepted, rejected, applied>>

-----------------------------------------------------------------------------
WorkerStep(w) ==
    \/ TakeTask(w) \/ TakeSentinel(w) \/ CheckEnds(w)
    \/ WriteSucceeds(w) \/ WriteFails(w)
    \/ SearchEnds(w) \/ WarmEnds(w)
    \/ Notify(w) \/ EndTask(w)

StopStep(c) == ResumeStop(c) \/ FinishStop(c)

Next ==
    \/ \E t \in Tasks : Enqueue(t) \/ EnqueueFull(t)
    \/ Subscribe
    \/ \E c \in Controllers : Start(c) \/ BeginStop(c) \/ StopStep(c)
    \/ \E w \in WorkerIds : WorkerStep(w)

Spec == Init /\ [][Next]_vars

\* The event loop resumes a coroutine whose awaited call has ended, and the
\* awaited calls do end.  Nothing obliges callers to enqueue, start or stop.
Fairness ==
    /\ \A w \in WorkerIds : WF_vars(WorkerStep(w))
    /\ \A c \in Controllers : WF_vars(StopStep(c))

FairSpec == Spec /\ Fairness
-----------------------------------------------------------------------------
(* Properties.                                                             *)

\* The shape of the state: the queue never exceeds its maxsize.
TypeOK ==
    /\ queue \in Seq(Tasks \cup {Sentinel})
    /\ Len(queue) <= QueueMaxsize
    /\ running \in BOOLEAN
    /\ workers \in Seq(WorkerIds)
    /\ spawned \in 0..MaxWorkers
    /\ wpc \in [WorkerIds -> WorkerStates]
    /\ wtask \in [WorkerIds -> Tasks \cup {NoTask}]
    /\ wok \in [WorkerIds -> BOOLEAN]
    /\ wnext \in [WorkerIds -> 0..MaxSubscribers]
    /\ cpc \in [Controllers -> ControllerStates]
    /\ cput \in [Controllers -> Nat]
    /\ cwait \in [Controllers -> SUBSET WorkerIds]
    /\ subscribers \in 0..MaxSubscribers
    /\ inbox \in [SubscriberIds -> Seq(Tasks \X BOOLEAN)]
    /\ accepted \subseteq Tasks
    /\ rejected \subseteq Tasks
    /\ applied \subseteq Tasks
    /\ done \subseteq Tasks
    /\ before \in [Controllers -> SUBSET Tasks]
    /\ joined \in [SubscriberIds -> SUBSET Tasks]

Queued == RangeOf(queue) \ {Sentinel}

\* However starts, stops and enqueues interleave, a task enqueue() accepted is
\* in exactly one place: at one position of the queue, in the hands of one
\* worker, or done.  No task is lost, taken twice or invented.
TaskConservation ==
    /\ accepted = Queued \cup Held \cup done
    /\ Queued \cap Held = {} /\ Queued \cap done = {} /\ Held \cap done = {}
    /\ \A i, j \in 1..Len(queue) : queue[i] = queue[j] /\ i # j => queue[i] = Sentinel
    /\ \A w, v \in WorkerIds : wtask[w] = wtask[v] /\ w # v => wtask[w] = NoTask

Received(s) == {inbox[s][i][1] : i \in 1..Len(inbox[s])}

\* Of each task taken after it subscribed, a subscriber gets exactly one event
\* by the time the task is done (a task already taken by then at most one), and
\* the success flag of the event tells whether the LTM call returned.
EventsOnce ==
    \A s \in SubscriberIds :
        /\ \A i, j \in 1..Len(inbox[s]) : inbox[s][i][1] = inbox[s][j][1] => i = j
        /\ \A i \in 1..Len(inbox[s]) :
              LET t == inbox[s][i][1] IN
              inbox[s][i][2] <=> (t \in applied \/ Type[t] = "check_conflicts")
        /\ s <= subscribers => done \ joined[s] \subseteq Received(s)

Returns(c) == cpc[c] # "idle" /\ cpc'[c] = "idle"

\* When stop() returns, every task accepted before it was called is done: the
\* sentinels are behind those tasks, and stop() waits for all the workers.
StopFinishesEarlierTasks ==
    [][\A c \in Controllers : Returns(c) => before[c] \subseteq done']_vars

\* stop() returns, even when it has to wait for room on a full queue.
StopReturns == \A c \in Controllers : cpc[c] # "idle" ~> cpc[c] = "idle"

\* Unless the processor is stopped for good, an accepted task gets done: the
\* other tasks, a failing LTM, a stop() and the next start() do not lose it.
AcceptedTasksGetDone ==
    []<>running => \A t \in Tasks : t \in accepted ~> t \in done

\* The processor is a bounded first-in first-out queue with at most worker_count
\* tasks in flight, across any number of starts and stops.
Abstract == INSTANCE MemoryTaskQueue
    WITH pending <- Keep(queue, Tasks), inflight <- Held, finished <- done,
         Capacity <- QueueMaxsize, Concurrency <- WorkerCount

ImplementsTaskQueue == Abstract!Spec
=============================================================================
