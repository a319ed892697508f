SPECIFICATION LogSpec
CONSTANTS
    a1 = a1
    a2 = a2
    a3 = a3
    t1 = t1
    t2 = t2
    Threads = {t1, t2}
    Addresses = {a1, a2, a3}
    NoThread = NoThread
    NoAddress = NoAddress
    MaxBuckets = 2
    Hash <- MCHash
    Hashes <- MCHashes
    Burst = 1
    Period = 2
    OutBurst = 1
    OutPeriod = 2
    IntHalf = 4
    MaxTime = 4
    ClockSteps = TRUE
INVARIANT TableSound
INVARIANT LimitsHold
INVARIANT RefusedOnlyWhenBusy
CHECK_DEADLOCK FALSE
