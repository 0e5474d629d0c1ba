SPECIFICATION FairSpec
CONSTANTS
  a = a
  b = b
  Callers <- TwoCallers
  kRaftApplyBatch = 2
  MaxTasks = 2
  MaxTerm = 1
INVARIANTS
  TypeOK
  LaunchedInOrder
  TermsMatch
  NoneForgotten
PROPERTIES
  EventuallySettled
