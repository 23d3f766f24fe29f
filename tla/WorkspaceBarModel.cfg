\* The entries of the bar over windows that open, change and close, and the order in
\* which they were active.
CONSTANTS
    file = file
    folder = folder
    other = other
    local = local
    h1 = h1
    h2 = h2
    NoEntry = NoEntry
    NoWindow = NoWindow
    Local = local
    Entry <- MCEntry
    HostsOf <- MCHostsOf
    Edited <- MCTwoEdited
    Reporting = {1}
    MaxWindow = 2
    MaxTime = 2
    ClockMayGoBack = FALSE
SPECIFICATION Spec
INVARIANTS
    EntriesMatchWindows
    ReorderMeetsComment
    ActiveIsMostRecent
PROPERTIES
    ChangesAreReported
CHECK_DEADLOCK FALSE
