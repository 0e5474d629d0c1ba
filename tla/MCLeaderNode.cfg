SPECIFICATION LeaderSpec
CONSTANTS
  a = a
  b = b
  u = u
  Callers <- OneCaller
  kRaftApplyBatch = 2
  MaxTasks = 2
  MaxTerm = 2
  Peers <- TwoServers
  PeerOrder <- InOrder
  MaxIndex = 2
  MaxEdits = 1
CHECK_DEADLOCK FALSE
INVARIANTS
  BallotsOfTheLog
  OneTicket
