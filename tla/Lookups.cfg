SPECIFICATION Spec
CONSTANTS
  N = 2
  W = 4
  IdxBits = 5
  Tables <- MCTables
  Indices <- MCIndices
INVARIANTS
  BitLookupsExact
  GathersInBounds
  ElementsExact
  Transposed
