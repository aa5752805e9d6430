SPECIFICATION Spec
CONSTANTS
  Unit = 1
  IntMod = 16384
  OffMod = 4096
  Bounds <- MCBounds
  MaxTags = 1
  Ihls = {0, 5, 6}
  Doffs = {0, 5, 6}
  OptLens = {0, 1, 255}
INVARIANTS
  L3FlagTellsProtocol
