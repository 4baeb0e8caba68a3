SPECIFICATION Spec
CONSTANTS
    Kinds = {reset, serving}
    Edge = edge
    IndicationQueueSize = 1
    MaxIndications = 5
INVARIANTS NewestSeenLast
CHECK_DEADLOCK FALSE
