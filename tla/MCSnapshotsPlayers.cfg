SPECIFICATION Spec
CONSTANTS
    Backup = 4
    Margin = 1
    RingSize = 1
    ClientRing = 2
    MaxEntities = 0
    Players = 1
    MaxLevel = 1
    MaxSequence = 4
    MaxMoves = 2
    MaxEntries = 0
INVARIANT PlayersIntact
CHECK_DEADLOCK FALSE
