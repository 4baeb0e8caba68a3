SPECIFICATION Spec
CONSTANTS
    Users = {u1}
    QueueCap = 2
    MaxStarts = 1
    MaxCalls = 1
    MaxStimuli = 1
INVARIANTS OneDial
CHECK_DEADLOCK FALSE
