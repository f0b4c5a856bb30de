SPECIFICATION FairSpec
CONSTANTS
    PageLimit = 2
    MaxReconnects = 3
    MaxDrops = 2
    MaxLog = 7
INVARIANTS
    ReceivedIsPrefix
    FailureIsReal
PROPERTY ClientReleased
CHECK_DEADLOCK FALSE
