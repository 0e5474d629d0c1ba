SPECIFICATION ScheduledSpec
CONSTANTS
  Fibers <- Cast
  Ending <- EndingCast
  Other <- NoFiber
  Hash <- ZeroHash
  Rounds = 14
  InitialSize = 8
  MaxProducers <- OneEach
  MaxFailures = 0
INVARIANT
  SlotFree
