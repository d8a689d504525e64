CONSTANTS
    BufAddr <- MCSameAddr
    Params <- MCGoodParams
    Token = {t1}
    Hour = 2
    LogHours = 2
    UIntRange = 8
    LogCapacity = 1
    MaxTime = 5
    Exps = {3, 5}
    MaxIssued = 2
SPECIFICATION Spec
INVARIANT NoFalseNegative
CHECK_DEADLOCK FALSE
