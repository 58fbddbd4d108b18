SPECIFICATION FairSpec
CONSTANTS
    greet = greet
    t1 = t1
    NoTurn = NoTurn
    Turns <- TwoTurns
    Background <- Greeting
    Callers <- OneTurn
    MaxIter = 2
    MaxCalls = 1
    MaxAsides = 2
INVARIANTS
    LockExclusive
    TranscriptContiguous
PROPERTIES
    SerialSpec
    TurnEnds
CHECK_DEADLOCK FALSE
