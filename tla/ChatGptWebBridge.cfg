SPECIFICATION GuidedSpec
CONSTANTS
    Machines <- MCMachines
    MaxChanges = 1
    MaxAsks = 2
    MaxLines = 5
    Versions <- MCVersions
    Order <- MCOrder
INVARIANTS
    RowTellsOneStory
    CompactOffersOnce
    NewestRuns
PROPERTIES
    ReadsTheTopLevelKey
    RowCatchesUp
    GuideLeadsToReady
