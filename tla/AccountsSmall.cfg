SPECIFICATION Spec
CONSTANTS
  AccountN = 8
  XferN = 4
  VL = 3
  BalMod = 16
  DeltaScale = 5
  RawXfers <- MCRawXfers
INVARIANTS
  TypeOK
  SerialEquivalence
  Conservation
PROPERTIES
  BatchesAreMaximal
