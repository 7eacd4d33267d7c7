SPECIFICATION Spec
CONSTANTS
    T1 <- MCT1
    T2 <- MCT2
    T4 <- MCT4
    Slack <- MCSlack
INVARIANTS
    TimeoutIsReported
CHECK_DEADLOCK FALSE
