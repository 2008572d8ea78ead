SPECIFICATION FairSpec
CONSTANTS
    NumLayers = 1
    NumExperts = 3
    Hosted <- Three
    Slots = 2
    Budget = 1
    Ring = 3
    Ahead = 2
    Routings <- FirstAndOther
    MaxSteps = 4
    Host = Host
    Torn = Torn
    None = None
INVARIANTS
    RingSafe
    TableSound
    NoSlotLost
PROPERTIES
    PromotionLands
    MemorySpec
    VictimCold
