CONSTANTS
    HadBlock = 4
    Tile = 2
    VocabPad = 2
    Tolerance = 15
    Layers <- MCLayers
    Checkpoints <- MCCheckpoints
SPECIFICATION Spec
CHECK_DEADLOCK FALSE
INVARIANTS
    RanksPartition
    SlicesSound
    ExpertsMeet
    ExactServed
