SPECIFICATION FairSpec
CONSTANTS
    t1 = t1
    t2 = t2
    NoThread = NoThread
    NoKey = NoKey
    NoRequest = NoRequest
    NoCap = NoCap
    Threads <- MCThreads
    Keys <- MCKeys
    Requests <- GrantRequests
    Agents <- MCAgents
    Scopes <- MCScopes
    ScopeMatches <- MCScopeMatches
    AllowDelegation = FALSE
    MaxEntries = 1
    TtlSeconds = 2
    MaxClock = 0
    MaxEvaluations = 2
    MaxHostOps = 2
    HostMay <- GrantOps
    Setups <- GrantSetups
INVARIANTS
    ApprovalsCovered
    DenialJustified
    AuthorizedIsComplete
PROPERTY
    EveryEvaluationReturns
CHECK_DEADLOCK FALSE
