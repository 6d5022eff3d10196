SPECIFICATION CacheSpec
CONSTANTS
    Key = {k1, k2}
    Reader = {r1, r2}
    TTL = 1
    MaxVersion = 2
INVARIANTS
    StaleHasExcuse
PROPERTIES
    NoDirectRegress
    EventuallyCoherent
