SPECIFICATION Spec
CONSTANTS
    Composite <- TwoScored
    Diagnostic <- TwoDiagnostic
    Heldout = {h1, h2}
    Pool = {p1}
    Generators = {"uncalibrated", "bf16"}
    Available <- OwnVoiceAndRaw
    MeasureRows <- OwnVoiceOnly
    RowSpecs <- MoreRows
    MeasureChunk = 2
    Anchors = {"constant", "probe"}
    Seeds = 2
    Layers = 3
    LayersPerRun = {2}
    None = None
    MaxCommands = 3
    MaxEvents = 2
CHECK_DEADLOCK FALSE
INVARIANTS
    MeasurementWhole
PROPERTIES
    SelfHeldOut
    MadeAll
