SPECIFICATION FairSpec
CONSTANTS
    pc1 = pc1
    npc1 = npc1
    bust = bust
    profile = profile
    scene = scene
    Pcs <- OnePc
    Npcs <- OneNpc
    Portraits <- TwoPortraits
    Scenes <- OneScene
    MaxJobs = 3
    MaxCrashes = 1
INVARIANTS
    StoreInv
    RendersOnce
    PortraitLinked
PROPERTIES
    LatestPortraitWins
    JobsFinish
CHECK_DEADLOCK FALSE
