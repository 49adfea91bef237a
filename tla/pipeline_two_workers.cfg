\* Two workers, the default, with Redis and record_usage() in between; a memory is added
\* and deleted while another one is added.
CONSTANTS
    t1 = t1
    t2 = t2
    t3 = t3
    c1 = c1
    m1 = m1
    m2 = m2
    k1 = k1
    Tasks = {t1, t2, t3}
    Type <- AddDelete
    Target <- ThirdIsOther
    Memories = {m1, m2}
    VariableOnes = {m1, m2}
    TopK = 2
    LeavesNoneOut = FALSE
    UseRedis = TRUE
    Markers = {k1}
    QueueMaxsize = 2
    WorkerCount = 2
    HasChecker = FALSE
    HasRouter = TRUE
    Controllers = {c1}
    MaxWorkers = 2
    MaxSubscribers = 0
    Sentinel = Sentinel
    NoTask = NoTask
    Absent = Absent
SPECIFICATION PipelineSpec
INVARIANTS LtmKeepsOrder
PROPERTIES RefreshBringsNothingBack
CHECK_DEADLOCK FALSE
