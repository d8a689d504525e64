CONSTANTS
    Token = {t1, t2}
    NoToken = NoToken
    Params <- MCParams
    MaxTime = 2
    MaxWalks = 2
SPECIFICATION Spec
SYMMETRY Symmetry
INVARIANTS
    TypeOK
    Settled
    CleanWalkInBounds
    CleanWalkHolds
    HeldInOrder
    RotationsApart
PROPERTY ImplementsDepth
CHECK_DEADLOCK FALSE
