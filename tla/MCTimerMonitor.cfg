SPECIFICATION FairSpec
CONSTANTS
    Second <- MCSecond
    Lengths <- MCLengths
    MaxClock <- MCMaxClock
    Ids = {t1, t2}
    Owners = {o1}
    Flags = {f1, f2}
INVARIANTS
    LatenessBounded
PROPERTIES
    ImplementsTimerService
    EveryTimerEnds
CHECK_DEADLOCK FALSE
