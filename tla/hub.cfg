SPECIFICATION FairSpec
CONSTANTS
    ann = ann
    bob = bob
    tab1 = tab1
    tab2 = tab2
    hero = hero
    Users <- TwoUsers
    Conns <- TwoConns
    Chars <- OneChar
    Owner <- OwnerOf
    Limit = 1
    MaxRows = 2
CONSTRAINT
    FirstIsAnn
INVARIANTS
    RosterInv
    WhispersPrivate
    LogTrue
    RosterFollows
PROPERTIES
    LeaversGo
CHECK_DEADLOCK FALSE
