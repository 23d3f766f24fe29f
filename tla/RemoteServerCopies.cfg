SPECIFICATION ServerSpec
CONSTANTS
    a1 = a1
    a2 = a2
    a3 = a3
    MaxLost = 0
    None = None
    Attempt <- MCTwo
    Uploads <- MCTwo
    HasFlock = TRUE
INVARIANT NoCopyStaysBehind
CHECK_DEADLOCK FALSE
