SPECIFICATION FairSpec
CONSTANTS
    Reporters = {r1}
    Timers = {t1, t2}
    QueueCap = 2
    DedupWindow = 2
    QuietWindow = 2
    DeferDelay = 0
    DeferAgainDelay = 1
    BackoffBase = 1
    BackoffMax = 30
    BackoffJitter = 100
    BackoffFloor = 0
    OpenTime = 0
    MaxRecoverAttempts = 1
    MaxReports = 2
    MaxOthers = 0
PROPERTIES RecoveryConcludes
CHECK_DEADLOCK FALSE
