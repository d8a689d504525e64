CONSTANTS
    BufAddr <- MCBufAddr
    Params <- MCParams
    Token = {t1, t2}
    Hour = 1
    LogHours = 2
    UIntRange = 8
    LogCapacity = 1
    MaxTime = 3
    Exps = {2, 4}
    MaxIssued = 2
SYMMETRY TokenSymmetry
SPECIFICATION Spec
INVARIANTS
    TypeOK
    IndexInBounds
    BitsExact
    Nested
    OneFilterShort
    AnsweredUntilRotation
    MissedOnlyAfterRotation
    AnsweredByDepth
PROPERTY RebuildKeepsLogged
CHECK_DEADLOCK FALSE
