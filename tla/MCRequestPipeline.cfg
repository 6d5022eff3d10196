SPECIFICATION Spec
CONSTANTS
    r1 = r1
    r2 = r2
    r3 = r3
    Request = {r1, r2, r3}
    Key <- MCKey
    NoKey = "none"
    Limit = 1
    Window = 3
    MaxDelay = 1
    MaxClock = 3
    Scenarios <- MCScenarios
    Hops = 1
    LB = "lb"
    MaxBody = 1
    MaxImage = 3
    Slack = 2
    Annotations <- MCAnnotations
CHECK_DEADLOCK FALSE
INVARIANTS
    LimitHolds
    RejectionIsEarned
    AnswersAreLogged
    RefusedUnread
    PaidCallIsCharged
    BestOfEachLogo
