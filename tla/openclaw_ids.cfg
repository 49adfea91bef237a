\* The service as it is built, with the ids of what assemble() injects.
CONSTANTS
    QueueSize = 1
    CallIds = {1, 2}
    Wirings = {"orchestrated"}
    Sessions <- Talk
    Budgets <- Limits
SPECIFICATION PluginsSpec
INVARIANTS ShownItemsAreNamed
CHECK_DEADLOCK FALSE
