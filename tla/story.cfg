SPECIFICATION Spec
CONSTANTS
    monday = monday
    friday = friday
    r1 = r1
    r2 = r2
    gate = gate
    throne = throne
    betrayal = betrayal
    keep = keep
    cellar = cellar
    Nowhere = Nowhere
    Sessions <- Tables
    Requests <- Open2
    Beats <- Plot
    Secrets <- Hidden
    Names <- Lands
    Opening <- Given
    Retries = 3
    MaxCalls = 3
    MaxAsked = 2
    MaxTold = 1
INVARIANTS
    StoryInv
PROPERTIES
    BeatsStand
    LongGrows
SYMMETRY Swaps
CHECK_DEADLOCK FALSE
