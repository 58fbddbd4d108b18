SPECIFICATION Spec
CONSTANTS
    keep = keep
    cellar = cellar
    code = code
    spare = spare
    elara = elara
    ann = ann
    bob = bob
    r1 = r1
    r2 = r2
    Campaigns <- Lands
    Invites <- Codes2
    Characters <- Party
    Users <- People
    Requests <- Open2
    Grace = TRUE
    Never = Never
    Gone = Gone
    Roster = Roster
    NoPortrait = NoPortrait
    Nobody = Nobody
    MaxAsked = 7
INVARIANTS
    Consistent
PROPERTIES
    StaleByOverlapOnly
    RowsStand
SYMMETRY Swaps
CHECK_DEADLOCK FALSE
