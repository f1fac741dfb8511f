SPECIFICATION Spec
CONSTANTS
    h1 = h1
    h2 = h2
    a1 = a1
    a2 = a2
    Hart <- MCHart
    Dma = dma
    NoProc = noproc
    Addr <- MCOneAddr
    NoAddr = noaddr
    Val <- MCVal
    NoVal = noval
    AmoFns <- MCAmoFns
    LrScLimit = 3
    Quantum = 1
    HasDma = FALSE
    HasMMU = TRUE
    FetchOnBus = FALSE
    MaxStops = 1
CHECK_DEADLOCK FALSE
INVARIANT AmoKeepsLock
