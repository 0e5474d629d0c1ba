SPECIFICATION Spec
CONSTANTS
  c1 = c1
  c2 = c2
  b1 = b1
  b2 = b2
  b3 = b3
  Null = Null
  Consumers <- TwoConsumers
  Blocks <- ThreeBlocks
  BLOCK_SIZE = 2
  W = 16
  InitialIndexSize = 2
  MaxIndexSize = 4
  Start = 14
  MAX_SUBQUEUE_SIZE = 4
  MaxItems = 5
  Counts = {1, 3}
  Sizes = {3}
SYMMETRY Symmetry
INVARIANTS
  TypeOK
  LookupRight
  BlocksReclaimed
PROPERTIES
  ImplementsSubQueue
  AloneGetsAll
