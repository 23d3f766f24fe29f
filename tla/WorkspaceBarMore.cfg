\* What WorkspaceBarModel.cfg leaves out: types, order, binding and persistence.
CONSTANTS
    file = file
    folder = folder
    other = other
    local = local
    h1 = h1
    h2 = h2
    NoEntry = NoEntry
    NoWindow = NoWindow
    Local = local
    Entry <- MCEntry
    HostsOf <- MCHostsOf
    Edited <- MCTwoEdited
    Reporting = {1}
    MaxWindow = 2
    MaxTime = 2
    ClockMayGoBack = FALSE
SPECIFICATION Spec
CHECK_DEADLOCK FALSE
INVARIANTS TypeOK HostsContiguous PersistedCurrent PickNextMeetsComment
PROPERTIES KeepsWindow StableOrder
