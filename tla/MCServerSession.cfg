CONSTANTS
    Client = {c1, c2}
    MaxRequests = 2
SPECIFICATION FairSpec
PROPERTY RequestsAnswered
CHECK_DEADLOCK FALSE
