SPECIFICATION Spec
CONSTANTS
    Bits <- TwoRungs
    r3 = r3
    r4 = r4
    g0 = g0
    g1 = g1
    Gen = Gen
    Tree = {t1, t2}
    Dirty = Dirty
    Devices <- OneOrTwoGpus
    Quantizes <- Everyday
    Retries = 1
    Idle = Idle
    None = None
    MaxCommands = 3
    MaxEvents = 2
CHECK_DEADLOCK FALSE
SYMMETRY Interchangeable
INVARIANTS
    RecordsKept
PROPERTIES
    ComparesOwn
    ExitHonest
