\* Two coroutines, two references and two places in the dict.
CONSTANTS
    r1 = r1
    r2 = r2
    source = source
    tool = tool
    Resolvers = {k1, k2}
    Refs = {r1, r2}
    Locators = {source, tool}
    Loc <- LocOfRefs
    Tools = {tool}
    Expires <- ExpiryOfRefs
    MaxEntries = 2
    JitTtl = 2
    ToolTtls = {1}
    MaxTime = 2
    MaxVersions = 2
    NoResult = NoResult
SPECIFICATION Spec
SYMMETRY Symmetric
INVARIANTS TypeOK ServedIsRecent
CHECK_DEADLOCK FALSE
