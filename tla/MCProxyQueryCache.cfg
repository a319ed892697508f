SPECIFICATION CacheFairSpec
CONSTANTS
    MaxMap = 2
    MaxLate = 2
    MaxFaults = 2
INVARIANT CachesSound
INVARIANT AnnouncedWhenServable
PROPERTY NeverBackwards
PROPERTY InfoCatchesUp
