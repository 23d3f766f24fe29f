--------------------------- MODULE MCGraphSurfaces ---------------------------
EXTENDS GraphSurfaces
CONSTANTS a, b, p
MCPred == [n \in Node |-> IF n = b THEN {a} ELSE {}]
\* b depends on a, which is shown for that alone; then b is retired, and then
\* its paper is no longer selected.
MCGraphs == <<
    [nodes |-> {a, b}, active |-> {b}, pred |-> MCPred, papers |-> {p}],
    [nodes |-> {a, b}, active |-> {a}, pred |-> MCPred, papers |-> {p}],
    [nodes |-> {a}, active |-> {a}, pred |-> MCPred, papers |-> {}]>>
=============================================================================
