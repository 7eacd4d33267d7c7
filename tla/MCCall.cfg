SPECIFICATION Spec
CONSTANTS
    Trans = {t1, t2, t3, t4}
    None = None
    Bodies = {b1, b2}
    Transports = {"UDP"}
    AppMay <- MCAppMay
SYMMETRY Symmetry
INVARIANTS
    NoMisuse
    Ownership
    FreeChannelIsClean
    TimersFitCall
    EndOfCallReported
PROPERTIES
    RingingInviteIsAnswered
    ImplementsLeg
CHECK_DEADLOCK FALSE
