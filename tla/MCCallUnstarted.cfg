SPECIFICATION Spec
CONSTANTS
    Trans = {t1, t2}
    None = None
    Bodies = {b1}
    Transports = {"UDP"}
    AppMay <- MCAppMay
INVARIANTS
    OutCallReportsFailure
CHECK_DEADLOCK FALSE
