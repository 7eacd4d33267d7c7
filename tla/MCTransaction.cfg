SPECIFICATION FairSpec
CONSTANTS
    T1 <- MCT1
    T2 <- MCT2
    T4 <- MCT4
    Slack <- MCSlack
INVARIANTS
    TypeOK
    NoTimerOutlivesTransaction
    TimersFitState
    RetransmissionBounded
    GivesUpOnlyAfterRetrying
    FinalToldOnce
PROPERTIES
    LingersForCopies
    TimedStatesEnd
CHECK_DEADLOCK FALSE
