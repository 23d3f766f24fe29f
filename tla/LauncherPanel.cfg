SPECIFICATION FairSpec
CONSTANTS
    Offered <- MCOffered
    Slots = {1, 2}
    Layouts = {"panel"}
    Machines <- MCMachines
    Saved <- MCSaved
    MaxQuestions = 2
    MaxChanges = 1
    MaxActs = 2
    None = None
INVARIANTS
    QuietMeansShown
    NothingRunsUnasked
    AskedScreenShows
PROPERTIES
    EveryRunEnds
