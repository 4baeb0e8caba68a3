SPECIFICATION FairSpec
CONSTANTS
    Users = {}
    QueueCap = 1
    MaxStarts = 1
    MaxCalls = 0
    MaxStimuli = 2
PROPERTIES StopReturns
CHECK_DEADLOCK FALSE
