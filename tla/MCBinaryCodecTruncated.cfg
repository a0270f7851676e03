SPECIFICATION CodecSpec
CONSTANTS
    Base = 2
    MaxLength = 20
    Keys <- MCKeys
    Values <- MCValues
    EmptyString <- MCEmpty
    Headers <- MCHeaders
    Roles <- MCRoles
    ToolLists <- MCToolLists
    Garbage <- MCGarbage
    MaxPairs = 1
    MaxStatements = 1
    MaxBuffer = 56
INVARIANT
    NothingIsMadeUp
CHECK_DEADLOCK FALSE
