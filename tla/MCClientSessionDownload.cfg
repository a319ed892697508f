SPECIFICATION Spec
CONSTANTS
    Blocks = 1
    Window = 2
    MaxReliable = 2
    MaxLevel = 1
    MaxRestarts = 1
    Restartable = {1}
    MaxChats = 0
    WithFile = {1}
    Capacity = 1
INVARIANT
    DownloadsBeforeWorld
CHECK_DEADLOCK FALSE
