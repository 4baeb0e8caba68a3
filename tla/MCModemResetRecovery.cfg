SPECIFICATION FairSpec
CONSTANTS
    Reporters = {r1, r2}
    Timers = {t1, t2}
    QueueCap = 1
    DedupWindow = 2
    QuietWindow = 2
    DeferDelay = 0
    DeferAgainDelay = 1
    BackoffBase = 1
    BackoffMax = 30
    BackoffJitter = 100
    BackoffFloor = 0
    OpenTime = 2
    MaxRecoverAttempts = 1
    MaxReports = 2
    MaxOthers = 1
INVARIANTS TypeOK NoResetForgottenUnlessStranded OneRetry
PROPERTIES RecoveryConcludesWithRoom
CHECK_DEADLOCK FALSE
