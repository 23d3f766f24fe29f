\* Presentation of windows: what holds in every state, and the timer of windows
\* that open in the background.
CONSTANTS
    w1 = w1
    w2 = w2
    u = u
    NoWindow = NoWindow
    Window <- MCWindow
    Unmanaged <- MCUnmanaged
    WithAux <- MCWithAux
SPECIFICATION FairSpec
INVARIANTS
    NeverWithoutWindow
    OneVisible
    UnmanagedStaysVisible
PROPERTY
    EventuallyOnScreen
\* The application may end up without windows to open.
CHECK_DEADLOCK FALSE
