SPECIFICATION Spec
CONSTANTS
  PageLens = {1, 2}
  MaxLen = 4
  MaxCalls = 1
  MaxMeddles = 0
  Files <- MCFiles
  Args <- MCArgs
  Given <- MCGiven
INVARIANTS
  AllocationFailureReported
