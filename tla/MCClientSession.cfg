SPECIFICATION FairSpec
CONSTANTS
    Blocks = 2
    Window = 2
    MaxReliable = 2
    MaxLevel = 3
    MaxRestarts = 1
    Restartable = {1, 2}
    MaxChats = 1
    WithFile = {1, 3}
    Capacity = 1
INVARIANT DownloadSound
INVARIANT NoCommandSkipped
INVARIANT InWorldOfItsLevel
PROPERTY NeverStuck
PROPERTY CommandsExecuted
CHECK_DEADLOCK FALSE
