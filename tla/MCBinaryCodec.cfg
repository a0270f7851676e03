SPECIFICATION CodecSpec
CONSTANTS
    Base = 2
    MaxLength = 20
    Keys <- MCKeys
    Values <- MCValues
    EmptyString <- MCEmpty
    Headers <- MCHeaders
    Roles <- MCRoles
    ToolLists <- MCToolLists
    Garbage <- MCGarbage
    MaxPairs = 2
    MaxStatements = 2
    MaxBuffer = 56
INVARIANTS
    CodecTypeOK
    RoundTrip
    CutsLoseOnlyTheEnd
PROPERTIES
    OrderSpec
CHECK_DEADLOCK FALSE
