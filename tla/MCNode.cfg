CONSTANTS
    Token = {t1, t2}
    MaxDials = 3
SPECIFICATION FairSpec
INVARIANTS
    TypeOK
    UnansweredByChangeOrProxy
    AnswersAreToThisQuery
    OwnFiltersHoldTheLog
    NothingForwarded
PROPERTIES
    SlaveForGood
    ServerResumes
CHECK_DEADLOCK FALSE
