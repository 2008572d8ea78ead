SPECIFICATION Spec
CONSTANTS
  Suite <- MCSuite
  TierOf <- MCTierOf
  Sibling <- MCSibling
  Broken = {"broken"}
  Derived = {"blockq"}
  Shapes <- MCShapes
  Serves <- MCServes
  EncoderOf <- MCEncoderOf
  Logs <- MCLogs
  MaxSource = 3
  MaxEnv = 2
  MaxCommands = 3
  MaxChanges = 2
CHECK_DEADLOCK FALSE
INVARIANTS
    PassHonest
    BlessWhole
    CapturesFresh

