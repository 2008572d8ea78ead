SPECIFICATION ComposeSpec
CONSTANTS
  Base = "base"
  Donors = {"hi", "orig", "tune"}
  Checkpoints <- MCCheckpoints
  Home <- MCHome
  Shards = {1, 2}
  HeadModules <- MCHead
  VisionModules <- MCVision
  Alike = {"hi", "orig", "tune"}
  Faithful = {"orig"}
  Selectors = {"quantized", "body", "head", "vision", "all"}
  Recipes <- MCRecipes
  Sample = 2
  MaxRules = 5
INVARIANTS
    PlanKept
    OutputSound
    SourcesKept
