CONSTANTS
    a = a  b = b  p = p
    Node = {a, b}
    Paper = {p}
    Lens = {"solid"}
    NoNode = NoNode
    Graphs <- MCGraphs
    MaxUser = 2
    MaxSteps = 3
SPECIFICATION FairSpec
PROPERTY EventuallyTogether
CHECK_DEADLOCK FALSE
