SPECIFICATION Spec
CONSTANTS
    r3 = r3
    r4 = r4
    other = other
    fp8 = fp8
    Rev = {r3, r4}
    Ref = {other}
    Thr = {fp8}
    Slices <- OneScored
    Composite = {"wild"}
    Series <- Everyday
    Stoppable = {"qbench", "upload"}
    Room = 3
    None = None
    MaxCommands = 3
    MaxEvents = 2
    MaxVersion = 2
CHECK_DEADLOCK FALSE
INVARIANTS
    PublishedSound
PROPERTIES
    ResultsKept
    SeriesScored
    LogitsKept
