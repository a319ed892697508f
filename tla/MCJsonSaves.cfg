\* Two files, three saves and three jobs; at most two at a time, one load held, and
\* one finished save kept.
SPECIFICATION SavesSpec
CONSTANTS
  Paths = {a, b}
  MaxPending = 2
  HeldLoads = 1
  KeepSaves = 1
  MaxVersion = 3
  MaxJobs = 3
INVARIANT JobsSound
INVARIANT NewestStays
PROPERTY EveryJobEnds
CHECK_DEADLOCK FALSE
