CONSTANTS
    NodeCount = 6
    PaperCount = 2
    Starts <- MCStarts
    Rows <- MCRows
    Trials <- MCTrials
    MaxRows = 4
SPECIFICATION WorkflowSpec
INVARIANT FoldMeetsReference CyclesAreBroken LayoutInvariants RoutesAreShortest
CHECK_DEADLOCK FALSE
