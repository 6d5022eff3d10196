SPECIFICATION Spec
CONSTANTS
    Token = {t1, t2, t3}
    Request = {r1, r2}
    None = None
    AccessTTL = 1
    RefreshTTL = 2
    Grace = 0
    MaxClock = 2
SYMMETRY Symmetry
INVARIANTS
    OwnRequestsPassCsrf
    ConcurrentRefreshKeepsSession
    LogoutIsImmediate
    EndedSessionsFade
