CONSTANTS
    Capacity = 2
    WireCapacity = 2
SPECIFICATION FairSpec
INVARIANTS
    TypeOK
    Supervised
    HelloAlone
    SocketOwned
PROPERTIES
    ImplementsLink
    StaysBlocked
    ReconnectsIfRead
CHECK_DEADLOCK FALSE
