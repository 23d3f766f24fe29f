\* What the test of dispose says, while an operation still looks before it runs.
SPECIFICATION Spec
CONSTANTS
    Offered <- OneThatStarts
    MaxTicket = 2
CHECK_DEADLOCK FALSE
PROPERTIES
    NothingStartsWhenDisposed
