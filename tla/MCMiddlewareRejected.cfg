SPECIFICATION Spec
CONSTANTS
    t1 = t1
    t2 = t2
    NoThread = NoThread
    NoKey = NoKey
    NoRequest = NoRequest
    NoCap = NoCap
    Threads <- MCThreads
    Keys <- MCKeys
    Requests <- GrantRequests
    Agents <- MCAgents
    Scopes <- MCScopes
    ScopeMatches <- MCScopeMatches
    AllowDelegation = FALSE
    MaxEntries = 1
    TtlSeconds = 2
    MaxClock = 0
    MaxEvaluations = 1
    MaxHostOps = 0
    HostMay <- GrantOps
    Setups <- GrantSetups
INVARIANT
    RejectedApprovesNothing
CHECK_DEADLOCK FALSE
