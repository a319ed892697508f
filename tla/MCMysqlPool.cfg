SPECIFICATION FairSpec
CONSTANTS
    ConnectionCount = 2
    MaxId = 3
    ConnectFails = TRUE
    SpawnFails = TRUE
INVARIANT TasksSound
INVARIANT ResultsNotMixed
PROPERTY PoolServes
CHECK_DEADLOCK FALSE
