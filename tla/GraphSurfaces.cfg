CONSTANTS
    a = a  b = b  p = p
    Node = {a, b}
    Paper = {p}
    Lens = {"solid"}
    NoNode = NoNode
    Graphs <- MCGraphs
    MaxUser = 2
    MaxSteps = 4
SPECIFICATION Spec
INVARIANT RouteStartsAtFocus QuietMeansCurrent
CHECK_DEADLOCK FALSE
