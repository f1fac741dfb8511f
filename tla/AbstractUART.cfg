SPECIFICATION FairSpec
CONSTANTS
    Depth = 2
    Cnt = {0, 1}
    MaxTx = 3
    Inputs <- TwoInputs
INVARIANTS
    TxInOrder
    RxInOrder
    WatermarkNoticed
PROPERTIES
    EventuallyWritten
    ShutdownReturns
CHECK_DEADLOCK FALSE
