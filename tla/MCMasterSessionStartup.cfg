CONSTANTS
    Capacity = 1
    WireCapacity = 1
SPECIFICATION FairSpec
PROPERTY Reconnects
CHECK_DEADLOCK FALSE
