SPECIFICATION ServeSpec
CONSTANTS
    Request = {q1, q2}
    Traced = q1
    A = A
    B = B
    C = C
    Malformed = Malformed
    Code = {A, B, C}
    Requests <- MCRequests
    Stocks <- MCStocks
    MaxCodes = 4
    MaxBars = 3
    Concurrency = 2
INVARIANTS
    ClientsOutliveRequests
    AnswerIsExact
    FailuresToldApart
PROPERTIES
    NeverHangs
    AcceptedIsAnswered
CHECK_DEADLOCK FALSE
