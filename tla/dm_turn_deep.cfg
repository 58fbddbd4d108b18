SPECIFICATION Spec
CONSTANTS
    greet = greet
    t1 = t1
    NoTurn = NoTurn
    Turns <- OneTurn
    Background <- Nobody
    Callers <- OneTurn
    MaxIter = 3
    MaxCalls = 2
    MaxAsides = 1
INVARIANTS
    TypeOK
    NoTxnWhileStreaming
    HistoryWellFormed
    AuditExact
    EventsTrue
CHECK_DEADLOCK FALSE
