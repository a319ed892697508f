SPECIFICATION Spec
CONSTANTS
    SlotCount = 1
    MaxOpens = 1
    MaxLevels = 0
    MaxEvents = 1
    RxQueueMax = 1
    Reconnecting = {TRUE, FALSE}
    Pinging = {FALSE}
PROPERTY
    NoErrorAfterClose
CHECK_DEADLOCK FALSE
