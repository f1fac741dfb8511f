SPECIFICATION MCSpec
CONSTANTS
    NumberInterrupts = 3
    MaxPriority = 2
    Polling = FALSE
    Hart = {0, 1}
    NumIrq = 3
    MaxPrio = 1
    Wired = {1, 2}
    UsedContexts <- TwoContexts
INVARIANTS
    ScanFindsBest
    NoLostInterrupt
    FU540NoLostInterrupt
PROPERTIES
    InterruptServed
