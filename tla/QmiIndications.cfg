SPECIFICATION FairSpec
CONSTANTS
    Kinds = {reset, serving}
    Edge = edge
    IndicationQueueSize = 1
    MaxIndications = 4
INVARIANTS TypeOK NewestKept EdgesInOrder StoreSound
PROPERTIES NothingStuck StoredIsDelivered
CHECK_DEADLOCK FALSE
