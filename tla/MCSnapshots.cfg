SPECIFICATION Spec
CONSTANTS
    Backup = 4
    Margin = 1
    RingSize = 1
    ClientRing = 1
    MaxEntities = 1
    Players = 0
    MaxLevel = 2
    MaxSequence = 5
    MaxMoves = 2
    MaxEntries = 2
INVARIANTS BaseIntact Readable
CHECK_DEADLOCK FALSE
