\* Two calls at once through either plugin, a queue of one task, every wiring of the router.
CONSTANTS
    QueueSize = 1
    CallIds = {1, 2}
    Wirings = {"orchestrated", "unqueued", "plain", "none", "absent"}
    Sessions <- Talk
    Budgets <- Limits
SPECIFICATION PluginsSpec
INVARIANTS AnsweredIsKept TruncationKeepsTheEnd
CHECK_DEADLOCK FALSE
