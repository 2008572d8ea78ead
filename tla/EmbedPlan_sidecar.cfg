SPECIFICATION Spec
CONSTANTS
    Checkpoints <- Sidecars
    Flags <- EverySetting
    MaxStarts = 1
    MaxFaults = 1
    None = None
CHECK_DEADLOCK FALSE
INVARIANTS
    SidecarHonoured
