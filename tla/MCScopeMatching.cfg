SPECIFICATION Spec
CONSTANTS
    TooMany = TooMany
    GrantPieces <- MCGrantPieces
    RequestPieces <- MCRequestPieces
    Letters = {"C"}
    kMaxPathSegments = 2
    MaxPieces = 6
INVARIANTS
    TypeOK
    NormalizesToResolved
    NormalizersAgree
    EscapesIffItLeaves
    WildcardsAreConfined
CHECK_DEADLOCK FALSE
