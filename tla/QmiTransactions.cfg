SPECIFICATION FairSpec
CONSTANTS
    Callers = {c1, c2}
    IdSpace = 2
    TxQueueSize = 1
    MaxRecent = 1
    MaxRequests = 3
INVARIANTS TypeOK OwnResponse TableSound
PROPERTIES CloseReleases SentIsAnswered
CHECK_DEADLOCK FALSE
