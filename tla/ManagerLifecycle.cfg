SPECIFICATION FairSpec
CONSTANTS
    Users = {u1}
    QueueCap = 2
    MaxStarts = 1
    MaxCalls = 1
    MaxStimuli = 2
INVARIANTS TypeOK DesiredIsPursued StopLeavesNothing ConnectedHasHandle
CHECK_DEADLOCK FALSE
PROPERTIES StopReturnsWithRoom KeepsDialing
