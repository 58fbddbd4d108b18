SPECIFICATION OrderSpec
CONSTANTS
    Participants <- FourParticipants
    Rolls <- TwoScores
    MaxRounds = 3
INVARIANT TypeOK
PROPERTIES NobodySkipped NobodyTwice FallKeepsActor
CHECK_DEADLOCK FALSE
