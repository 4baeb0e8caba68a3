SPECIFICATION Spec
CONSTANTS
    Reporters = {r1, r2}
    Timers = {t1, t2}
    QueueCap = 1
    DedupWindow = 2
    QuietWindow = 2
    DeferDelay = 0
    DeferAgainDelay = 1
    BackoffBase = 1
    BackoffMax = 30
    BackoffJitter = 100
    BackoffFloor = 0
    OpenTime = 2
    MaxRecoverAttempts = 1
    MaxReports = 3
    MaxOthers = 1
SYMMETRY RecoverySymmetry
INVARIANTS NoResetForgotten
CHECK_DEADLOCK FALSE
