SPECIFICATION MCSpec
CONSTANTS
    Hart = {h1, h2}
    Scaler = 2
    TimeMod = 32
    MaxDelay = 2
    CmpValues = {0, 2, 18, 31}
    MtimeWrites = {6}
    MaxTime = 7
    Dividend = 3
    RealCmpValues = {1, 2}
    MaxUsec = 8
CHECK_DEADLOCK FALSE
INVARIANTS
    TimerNotLate
    TimerNotEarly
    RealTimerExact
PROPERTIES
    RunAdvances
