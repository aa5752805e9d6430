SPECIFICATION FairSpec
CONSTANTS
  Len = 7
  MaxChunk = 3
  FileLens = {0, 2, 3, 5, 7, 9}
INVARIANTS
  TypeOK
  NoDescriptorLeak
  SuccessIsExact
PROPERTIES
  Returns
