SPECIFICATION CacheFairSpec
CONSTANTS
    text = text
    vision = vision
    Proc = {p1, p2}
    PidOf <- OwnPids
    Model = {"ckpt"}
    Local = {"ckpt"}
    Tensor = {text, vision}
    Size <- UnevenSizes
    Limit = 2
    Overlap = FALSE
    MaxLoads = 3
    MaxRewrites = 1
    MaxMishaps = 1
    Nothing = Nothing
CHECK_DEADLOCK FALSE
INVARIANTS
    ServesOwn
    DirectoryKept
PROPERTIES
    OnlyRivalsTakeIt
    EveryLoadServed
