CONSTANTS
    a1 = a1
    a2 = a2
    SessionId <- MCSessionId
    NoId = NoId
    MaxChanges = 2
    MaxRow = 1
    MaxAsked = 2
    MaxInbox = 1
SPECIFICATION FairViewSpec
INVARIANTS
    RovingTabStop
PROPERTIES
    EventuallyCurrent
CHECK_DEADLOCK FALSE
