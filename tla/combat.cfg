SPECIFICATION Spec
CONSTANTS
    hero = hero
    mage = mage
    monday = monday
    friday = friday
    dying = dying
    blessed = blessed
    Monster = Monster
    Nobody = Nobody
    Characters <- Party
    Sessions <- Tables
    Races <- Folk
    HitDie <- Dice
    Applicants <- Frail
    Amounts <- Blows
    Effects <- Marks
    DyingEffects <- Ending
    MaxCalls = 3
    MaxFights = 2
    MaxActions = 2
INVARIANTS
    SheetInv
    ActsForItsFight
PROPERTIES
    LostByOverlapOnly
    UpOnlySo
SYMMETRY TablesSwap
CHECK_DEADLOCK FALSE
