SPECIFICATION FairSpec
CONSTANTS
  AccountN = 32
  XferN = 20
  VL = 8
  BalMod = 1024
  DeltaScale = 256
  RawXfers <- MCRawXfers
INVARIANTS
  SerialEquivalence
PROPERTIES
  Returns
