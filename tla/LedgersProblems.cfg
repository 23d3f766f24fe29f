CONSTANTS
    f1 = f1  f2 = f2  p1 = p1  p2 = p2
    File = {f1, f2}
    Papers = {p1, p2}
    PaperOf <- MCPaperOf
    AtStart = {f1}
    MaxLines = 2
    MaxEvents = 3
SPECIFICATION LedgerSpec

PROPERTY ProblemsAreCurrent
CHECK_DEADLOCK FALSE
