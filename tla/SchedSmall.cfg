SPECIFICATION FairSpec
CONSTANTS
  QLen = 7
  Lookahead = 4
  BatchMax = 2
  NHash = 3
  Queues <- MCAllQueues
INVARIANTS
  TypeOK
  Accounted
  HashOrder
  LookaheadBound
PROPERTIES
  Greedy
  Packing
  OldestPromptly
  ImplementsKeyedDispatch
  EveryEventDispatched
