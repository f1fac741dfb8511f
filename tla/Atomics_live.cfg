SPECIFICATION MCFairSpec
CONSTANTS
    h1 = h1
    h2 = h2
    a1 = a1
    a2 = a2
    Hart <- MCHart
    Dma = dma
    NoProc = noproc
    Addr <- MCOneAddr
    NoAddr = noaddr
    Val <- MCOneVal
    NoVal = noval
    AmoFns <- MCOneAmoFn
    LrScLimit = 2
    Quantum = 1
    HasDma = TRUE
    HasMMU = TRUE
    FetchOnBus = TRUE
    MaxStops = 0
CHECK_DEADLOCK FALSE
PROPERTIES
    AccessCompletes
    KernelIsReleased
