SPECIFICATION Spec
CONSTANTS
    Block = 4
    LengthBytes = 2
    DigestSize = 3
    MaxInput = 10
    Junk <- MCJunk
    Inputs <- MCInputs
    KeysAndMessages <- MCKeysAndMessages
INVARIANTS
    TypeOK
    NothingIsLost
    DigestIgnoresCuts
    HmacIsNested
CHECK_DEADLOCK FALSE
