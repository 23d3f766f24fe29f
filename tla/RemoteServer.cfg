SPECIFICATION FairServerSpec
CONSTANTS
    a1 = a1
    a2 = a2
    a3 = a3
    MaxLost = 1
    None = None
    Attempt <- MCAll
    Uploads <- MCTwo
    HasFlock = TRUE
INVARIANTS OneServer TokenFits NothingIsLeft
PROPERTIES EveryAttemptEnds
CHECK_DEADLOCK FALSE
