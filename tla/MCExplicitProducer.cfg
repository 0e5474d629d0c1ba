SPECIFICATION Spec
CONSTANTS
  c1 = c1
  c2 = c2
  b1 = b1
  b2 = b2
  b3 = b3
  b4 = b4
  Null = Null
  Consumers <- TwoConsumers
  Blocks <- ThreeBlocks
  BLOCK_SIZE = 2
  W = 16
  MAX_SUBQUEUE_SIZE = 4
  Start = 14
  MaxItems = 5
  Counts = {1, 3}
  Sizes = {3}
  InitialIndexSize = 2
  MaxIndexSize = 4
  LateFailures = FALSE
SYMMETRY Symmetry
INVARIANTS
  TypeOK
  LookupRight
  RoomInIndex
  DestructorExact
PROPERTIES
  ImplementsSubQueue
