SPECIFICATION Spec
CONSTANTS
    SlotCount = 2
    MaxOpens = 2
    MaxLevels = 1
    MaxEvents = 1
    RxQueueMax = 1
    Reconnecting = {TRUE, FALSE}
    Pinging = {TRUE}
INVARIANT SocketsSound
INVARIANT StoryInOrder
PROPERTY ClosedNeverReconnects
CHECK_DEADLOCK FALSE
