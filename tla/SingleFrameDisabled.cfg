\* Disabling the single frame while a fullscreen window is being left.
CONSTANTS
    w1 = w1
    w2 = w2
    u = u
    NoWindow = NoWindow
    Window <- MCWindow
    Unmanaged <- MCUnmanaged
    WithAux <- MCWithAux
SPECIFICATION Spec
PROPERTY
    NothingHiddenWhenDisabled
CHECK_DEADLOCK FALSE
