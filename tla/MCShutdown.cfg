CONSTANTS
    Capacity = 1
    MaxPushes = 3
    MaxBreaks = 1
SPECIFICATION FairSpec
INVARIANTS
    TypeOK
    NoUseAfterDestruction
PROPERTIES
    NothingAcceptedTooLate
    HangsForGood
    EndsOrWaits
CHECK_DEADLOCK FALSE
