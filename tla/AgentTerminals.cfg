CONSTANTS
    a1 = a1
    a2 = a2
    t1 = t1
    t2 = t2
    Id <- MCId
    Terminal <- MCTerminal
    NoCard = NoCard
    NoTerminal = NoTerminal
    NoExecution = NoExecution
    NotWaiting = NotWaiting
    MaxLoad = 3
    MaxReloads = 1
SYMMETRY MCSymmetry
SPECIFICATION Spec
INVARIANTS
    LiveIsReachable
CHECK_DEADLOCK FALSE
PROPERTIES
    SurvivesOtherEnds
    CardsKeepPromises
