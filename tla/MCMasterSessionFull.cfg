CONSTANTS
    Capacity = 1
    WireCapacity = 1
SPECIFICATION FairSpec
PROPERTY ReconnectsOnceRunning
CHECK_DEADLOCK FALSE
