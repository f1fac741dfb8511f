SPECIFICATION FairSpec
CONSTANTS
    NumHarts = 2
    VConts <- MCVConts
PROPERTY AllHartsAreStopped
CHECK_DEADLOCK FALSE
