\* What RemoteServer.cfg leaves out: types, the folder and the token file.
SPECIFICATION ServerSpec
CONSTANTS
    a1 = a1
    a2 = a2
    a3 = a3
    MaxLost = 1
    None = None
    Attempt <- MCAll
    Uploads <- MCTwo
    HasFlock = TRUE
CHECK_DEADLOCK FALSE
INVARIANTS ServerTypeOK WholeWhileAlone
PROPERTIES TokenIsKept
