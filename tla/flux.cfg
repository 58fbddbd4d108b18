SPECIFICATION FluxSpec
CONSTANTS
    Poll = 6
    Threshold = 24
    ProbeTimeout = 12
    ReadTimeout = 36
    Backoff <- FiveFifteenFortyFive
    Answer = 6
INVARIANTS
    OutageNoticed
    RecoveryNoticed
