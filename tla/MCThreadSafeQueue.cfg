CONSTANTS
    Producers = {p1, p2, p3}
    Consumer = c
    Capacity = 3
    MaxSent = 2
SPECIFICATION FairSpec
INVARIANTS
    TypeOK
    NoSleepOnValue
    SleepersCovered
PROPERTY ImplementsFifo
