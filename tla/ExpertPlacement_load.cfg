SPECIFICATION Spec
CONSTANTS
    Layers = {0, 1}
    NumExperts = 2
    Projection = {0, 1}
    Selections <- EveryOrSome
    Dense = {attn}
    RowBytes = 3
    DenseBytes = 4
    Align = 2
    MaxMeasures = 2
    None = None
    Modes = {"auto", "fixed", "off"}
    FixedSlots = 1
    Budgets = {5, 9, 40}
    TowerBytes = {0, 5}
    HostFrees <- HostRAM
    Availables = {0, 10, 19, 40}
    Reserves = {0, 7, 30}
CHECK_DEADLOCK FALSE
INVARIANTS
    PlacementKept
    MemoryKept
    StaticHoldsAll
PROPERTIES
    BuiltOnce
