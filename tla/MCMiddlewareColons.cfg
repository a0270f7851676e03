SPECIFICATION Spec
CONSTANTS
    t1 = t1
    t2 = t2
    NoThread = NoThread
    NoKey = NoKey
    NoRequest = NoRequest
    NoCap = NoCap
    Threads <- MCThreads
    Keys <- MCKeys
    Requests <- CollidingRequests
    Agents <- MCAgents
    Scopes <- MCScopes
    ScopeMatches <- MCScopeMatches
    AllowDelegation = FALSE
    MaxEntries = 1
    TtlSeconds = 2
    MaxClock = 3
    MaxEvaluations = 2
    MaxHostOps = 1
    HostMay <- ReplayOps
    Setups <- ReplaySetups
INVARIANT
    ReplayRefusalJustified
CHECK_DEADLOCK FALSE
