\* Three records in batches of two, an interval and a cooldown of two ticks, one restart.
CONSTANTS
    Records <- Samples
    Configs <- Thresholds
    OldAge = 2
    BatchSize = 2
    FlushInterval = 2
    MaxStarts = 2
    Orderly = TRUE
SPECIFICATION MonitoringSpec
PROPERTIES DeliversInOrder StopFlushesRemaining QuietInCooldown EveryBreachIsAlerted RecordsAreDelivered
CHECK_DEADLOCK FALSE
