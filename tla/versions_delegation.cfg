\* Two servers, a caller that delegates and one that does not.
CONSTANTS
    Servers = {s1, s2}
    Callers = {c1, c2}
    Delegators = {c1}
    MaxVersions = 2
    Limit = 20
    Idle = Idle
    Ttl = 1
    MaxTime = 2
    MaxResults = 2
    NoTicket = NoTicket
SYMMETRY Symmetric
SPECIFICATION DelegationSpec
INVARIANTS ListedIsRestorable DeletedIsGone ActiveIsRestorable ActiveIsExact
CHECK_DEADLOCK FALSE
