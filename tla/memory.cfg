SPECIFICATION FairSpec
CONSTANTS
    first = first
    second = second
    Sessions <- OneSession
    EveryN = 2
    MaxTurns = 2
    MaxLines = 4
INVARIANTS
    MemoryInv
    OneCallPerTrigger
PROPERTIES
    StaleByLateFillOnly
    SummaryGrows
    TasksEnd
CHECK_DEADLOCK FALSE
