SPECIFICATION KindsSpec
CONSTANTS
    a1 = a1
    a2 = a2
    t1 = t1
    Threads = {t1}
    Addresses = {a1, a2}
    NoThread = NoThread
    NoAddress = NoAddress
    MaxBuckets = 2
    Hash <- MCHash
    Hashes <- MCHashes
    Burst = 2
    SmallBurst = 1
    Period = 2
    OutBurst = 1
    OutPeriod = 10
    IntHalf = 8
    MaxTime = 5
    ClockSteps = FALSE
INVARIANT MixedBound
CHECK_DEADLOCK FALSE
