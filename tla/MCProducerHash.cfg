SPECIFICATION FairSpec
CONSTANTS
  f1 = f1
  f2 = f2
  f3 = f3
  Other = Other
  Fibers <- ThreeFibers
  Ending <- OneFiberEnds
  Hash <- Colliding
  InitialSize = 4
  MaxProducers = 3
  MaxFailures = 1
INVARIANTS
  TypeOK
  OneFiber
  RoomLeft
PROPERTIES
  SameProducer
  CallsEnd
