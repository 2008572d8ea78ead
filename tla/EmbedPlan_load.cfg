SPECIFICATION Spec
CONSTANTS
    Checkpoints <- EveryCheckpoint
    Flags <- EverySetting
    MaxStarts = 2
    MaxFaults = 2
    None = None
CHECK_DEADLOCK FALSE
INVARIANTS
    Agree
    EmbeddingServed
    GraphFitsKey
