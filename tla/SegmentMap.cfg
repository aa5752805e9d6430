SPECIFICATION Spec
CONSTANTS
  PageLens = {1, 2}
  MaxLen = 4
  MaxCalls = 2
  MaxMeddles = 1
  Files <- MCFiles
  Args <- MCArgs
  Given <- MCGiven
INVARIANTS
  TypeOK
  NoStrayDescriptor
  MappedAsDescribed
  InsideFile
  CreatedLongEnough
PROPERTIES
  OnlyAsAsked
