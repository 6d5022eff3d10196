SPECIFICATION Spec
CONSTANTS
    Environment <- MCEnvironment
    Timeout = 6
    Pause = 2
    PingTimeout = 3
    Never = Never
CHECK_DEADLOCK FALSE
INVARIANTS
    RetryIsBounded
    WorksSoundlyOrEnds
