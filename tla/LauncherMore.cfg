\* What Launcher.cfg leaves out: types, and the queue.
SPECIFICATION Spec
CONSTANTS
    Offered <- OneOfEachKind
    MaxTicket = 2
\* Once all tickets are given out and the window is gone, nothing is left to do.
CHECK_DEADLOCK FALSE
INVARIANTS TypeOK OnePerKey NoIdleBacklog RunsOnce
