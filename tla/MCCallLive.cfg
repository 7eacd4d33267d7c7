SPECIFICATION FairSpec
CONSTANTS
    Trans = {t1, t2}
    None = None
    Bodies = {b1}
    Transports = {"UDP"}
    AppMay <- MCAppMay
PROPERTIES
    CallOutEnds
    AcceptEnds
CHECK_DEADLOCK FALSE
