\* A job of every kind, two tickets: one runs while another one waits.
SPECIFICATION FairSpec
CONSTANTS
    Offered <- OneOfEachKind
    MaxTicket = 2
\* Once all tickets are given out and the window is gone, nothing is left to do.
CHECK_DEADLOCK FALSE
INVARIANTS
    ToldNothingRan
PROPERTIES
    Consent
    DecidedOnFreshFacts
    ClaimsAreVerified
    EveryTicketSettles
