SPECIFICATION Spec
CONSTANTS
    first = first
    second = second
    Sessions <- OneSession
    EveryN = 2
    MaxTurns = 4
    MaxLines = 4
PROPERTY ContentWhenCurrent
CHECK_DEADLOCK FALSE
