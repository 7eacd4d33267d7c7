SPECIFICATION Spec
CONSTANTS
    Conns <- MCConns
    WS_MAX_CLIENTS = 2
    Kind <- MCKind
    Frames <- MCFrames
    INVALID_SOCKET = INVALID_SOCKET
    Paras = {p1, p2}
    Flags = {f1}
    Lengths = {1, 2}
    MaxTime = 2
INVARIANTS
    FramesInOrder
    NoFrameLost
    LuaKnowsClients
    NamesFitTimers
PROPERTIES
    ServesOn
