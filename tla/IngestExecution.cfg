SPECIFICATION BatchSpec
CONSTANTS
    Execution = {e1, e2}
    None = None
    Traced = e1
    Total = 3
    Limit = 1
    Interval = 2
    MaxRetries = 1
    MaxDelay = 1
    Threshold = 40
CHECK_DEADLOCK FALSE
INVARIANTS
    OverlapIsReported
    Accounting
    ExitZeroIsEarned
    TwiceTheLimit
PROPERTIES
    ExecutionEnds
