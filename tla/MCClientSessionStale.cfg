SPECIFICATION FairSpec
CONSTANTS
    Blocks = 1
    Window = 1
    MaxReliable = 2
    MaxLevel = 3
    MaxRestarts = 0
    Restartable = {}
    MaxChats = 0
    WithFile = {1}
    Capacity = 1
PROPERTY MapLoadReaches
CHECK_DEADLOCK FALSE
