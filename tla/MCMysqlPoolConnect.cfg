SPECIFICATION FairSpec
CONSTANTS
    ConnectionCount = 2
    MaxId = 1
    ConnectFails = TRUE
    SpawnFails = FALSE
PROPERTY
    EveryQueryRuns
CHECK_DEADLOCK FALSE
