SPECIFICATION StoreSpec
CONSTANTS
    t1 = t1
    t2 = t2
    k1 = k1
    k2 = k2
    k3 = k3
    NoThread = NoThread
    NoKey = NoKey
    Threads <- MCThreads
    Keys <- MCKeys
    MaxEntries = 2
    TtlSeconds = 2
    MaxClock = 5
INVARIANTS
    TypeOK
    HistoryMatchesMap
    WithinCapacity
    ExpiredAtFront
PROPERTY
    GuardSpec
