SPECIFICATION Spec
CONSTANTS
    Starts <- MCStarts
    Prices <- MCPrices
    MaxDay = 6
    OutputSize = 5
INVARIANTS
    HistoryIsTrue
    BarsMatchDays
CHECK_DEADLOCK FALSE
