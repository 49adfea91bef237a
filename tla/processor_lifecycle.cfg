\* One controller, as in the server: start, stop, start, stop; every await of _process, and one
\* subscriber that joins at any time.
CONSTANTS
    t1 = t1
    t2 = t2
    t3 = t3
    c1 = c1
    Tasks = {t1, t2, t3}
    Type <- ThreeTypes
    QueueMaxsize = 2
    WorkerCount = 2
    HasChecker = TRUE
    HasRouter = TRUE
    UseRedis = TRUE
    Controllers = {c1}
    MaxWorkers = 4
    MaxSubscribers = 1
    Sentinel = Sentinel
    NoTask = NoTask
SPECIFICATION FairSpec
INVARIANTS TypeOK TaskConservation EventsOnce
PROPERTIES StopFinishesEarlierTasks StopReturns AcceptedTasksGetDone ImplementsTaskQueue
CHECK_DEADLOCK FALSE
