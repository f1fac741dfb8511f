SPECIFICATION FairSpec
CONSTANTS
    Depth = 2
    Cnt = {0}
    MaxTx = 1
    Inputs <- TwoInputs
PROPERTIES
    ShutdownCompletes
CHECK_DEADLOCK FALSE
