SPECIFICATION Spec
CONSTANTS
    Hart = {0, 1}
    NumIrq = 3
    MaxPrio = 1
    Wired = {1, 2}
    UsedContexts <- ContextsOne
INVARIANTS
    HighestPriority
