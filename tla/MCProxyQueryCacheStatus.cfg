SPECIFICATION CacheFairSpec
CONSTANTS
    MaxMap = 2
    MaxLate = 1
    MaxFaults = 0
PROPERTY
    StatusCatchesUp
