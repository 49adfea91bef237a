\* Two workers, the default, with Redis: a refresh overtakes another one.
CONSTANTS
    t1 = t1
    t2 = t2
    t3 = t3
    c1 = c1
    m1 = m1
    m2 = m2
    k1 = k1
    Tasks = {t1, t2}
    Type <- OnlyAdds
    Target <- OneMemory
    Memories = {m1}
    VariableOnes = {m1}
    TopK = 1
    LeavesNoneOut = TRUE
    UseRedis = TRUE
    Markers = {}
    QueueMaxsize = 2
    WorkerCount = 2
    HasChecker = FALSE
    HasRouter = TRUE
    Controllers = {c1}
    MaxWorkers = 2
    MaxSubscribers = 0
    Sentinel = Sentinel
    NoTask = NoTask
    Absent = Absent
SPECIFICATION PipelineSpec
INVARIANTS HotIsCurrentAtRest
CHECK_DEADLOCK FALSE
