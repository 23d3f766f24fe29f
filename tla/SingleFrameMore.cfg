\* What SingleFrame.cfg leaves out: types, and the windows around the presented one.
CONSTANTS
    w1 = w1
    w2 = w2
    u = u
    NoWindow = NoWindow
    Window <- MCWindow
    Unmanaged <- MCUnmanaged
    WithAux <- MCWithAux
SPECIFICATION Spec
\* The application may end up without windows to open.
CHECK_DEADLOCK FALSE
INVARIANTS TypeOK PresentedIsManaged NoStaleTimer AuxiliaryWindowsFollow
