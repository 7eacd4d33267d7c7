SPECIFICATION Spec
CONSTANTS
    Trans = {t1, t2}
    None = None
    Bodies = {b1}
    Transports = {"UDP", "TCP"}
    AppMay <- MCAppMay
INVARIANTS
    DeletedIsNotUsed
CHECK_DEADLOCK FALSE
