\* The order of activation when the clock is set back between sessions.
CONSTANTS
    file = file
    folder = folder
    other = other
    local = local
    h1 = h1
    h2 = h2
    NoEntry = NoEntry
    NoWindow = NoWindow
    Local = local
    Entry <- MCEntry
    HostsOf <- MCOneHost
    Edited <- MCOneEdited
    Reporting = {}
    MaxWindow = 2
    MaxTime = 3
    ClockMayGoBack = TRUE
SPECIFICATION Spec
INVARIANTS
    ActiveIsMostRecent
CHECK_DEADLOCK FALSE
