SPECIFICATION FairSpec
CONSTANTS
    c1 = c1
    c2 = c2
    c3 = c3
    f1 = f1
    f2 = f2
    Clients = {c1, c2, c3}
    Fds = {f1, f2}
    NoClient = NoClient
    NoFd = NoFd
    SlotCount = 2
    Slot <- MCSlot
    MaxGen = 2
INVARIANTS
    ClientsSound
    OnlyOwnPackets
    SlotOwner
    SlotKept
    NoOrphanedLock
    EverySlotWoken
PROPERTY
    ShutdownReturns
CHECK_DEADLOCK FALSE
