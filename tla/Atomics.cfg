SPECIFICATION MCSpec
CONSTANTS
    h1 = h1
    h2 = h2
    a1 = a1
    a2 = a2
    Hart <- MCHart
    Dma = dma
    NoProc = noproc
    Addr <- MCAddr
    NoAddr = noaddr
    Val <- MCVal
    NoVal = noval
    AmoFns <- MCAmoFns
    LrScLimit = 3
    Quantum = 1
    HasDma = TRUE
    HasMMU = TRUE
    FetchOnBus = TRUE
    MaxStops = 0
SYMMETRY MCSymmetry
CHECK_DEADLOCK FALSE
INVARIANTS
    NoSwitchUnderLock
    AmoKeepsLockWithoutMMU
PROPERTY ImplementsAtomicMemory
