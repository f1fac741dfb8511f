SPECIFICATION FairSpec
CONSTANTS
    NumHarts = 2
    VConts <- MCVConts
INVARIANTS
    
    OnePacketAtATime
    VContFindsReason
PROPERTY RunThreadsReturns
CHECK_DEADLOCK FALSE
