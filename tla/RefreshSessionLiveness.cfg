SPECIFICATION FairSpec
CONSTANTS
    Token = {t1, t2}
    Family = {f1}
    Handler = {h1, h2}
    Cleaner = {c1}
    Null = Null
    TTL = 1
    Grace = 0
    MaxClock = 2
PROPERTY TransactionsEnd
