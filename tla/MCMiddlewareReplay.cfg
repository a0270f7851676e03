SPECIFICATION Spec
CONSTANTS
    t1 = t1
    t2 = t2
    NoThread = NoThread
    NoKey = NoKey
    NoRequest = NoRequest
    NoCap = NoCap
    Threads <- MCThreads
    Keys <- MCKeys
    Requests <- ReplayRequests
    Agents <- MCAgents
    Scopes <- MCScopes
    ScopeMatches <- MCScopeMatches
    AllowDelegation = FALSE
    MaxEntries = 1
    TtlSeconds = 2
    MaxClock = 3
    MaxEvaluations = 3
    MaxHostOps = 2
    HostMay <- ReplayOps
    Setups <- ReplaySetups
INVARIANTS
    MiddlewareTypeOK
    AtMostOncePerTtl
    ExecutedIsGuarded
    GuardedWasExecuted
    ReplayRefusalJustified
    ApprovalsCovered
SYMMETRY ThreadSymmetry
CHECK_DEADLOCK FALSE
