SPECIFICATION HttpFairSpec
CONSTANTS
    SlotCount = 1
    MaxOpens = 1
    MaxLevels = 1
    MaxEvents = 1
    RxQueueMax = 1
    Reconnecting = {TRUE, FALSE}
    Pinging = {TRUE}
    MaxReqs = 1
INVARIANT RequestsSound
PROPERTY NothingLingers
CHECK_DEADLOCK FALSE
