SPECIFICATION Spec
CONSTANTS
  NL = 3
  WordLen = 4
  Tests <- MCTests
  Sizes <- MCSizes
  Dseg = 100
INVARIANTS
  HashesAgree
  HashReadsInside
