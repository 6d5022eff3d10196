SPECIFICATION Spec
CONSTANTS
    Token = {t1, t2, t3}
    Family = {f1}
    Handler = {h1, h2}
    Cleaner = {c1}
    Null = Null
    TTL = 2
    Grace = 0
    MaxClock = 3
SYMMETRY Symmetry
INVARIANTS
    AtMostOneLive
    RevocationIsTotal
    ChainIsIntact
    RequestsNeverDeadlock
PROPERTIES
    DenialIsFinal
    ImplementsSessionFamily
