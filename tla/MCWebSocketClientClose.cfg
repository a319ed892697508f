SPECIFICATION FairSpec
CONSTANTS
    SlotCount = 1
    MaxOpens = 1
    MaxLevels = 0
    MaxEvents = 1
    RxQueueMax = 1
    Reconnecting = {TRUE, FALSE}
    Pinging = {FALSE}
PROPERTY
    CloseIsHeard
CHECK_DEADLOCK FALSE
