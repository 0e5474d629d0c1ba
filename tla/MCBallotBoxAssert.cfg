SPECIFICATION Spec
CONSTANTS
  a = a
  b = b
  c = c
  Peers <- ThreeServers
  Confs <- Versioned
  MaxIndex = 2
CHECK_DEADLOCK FALSE
INVARIANT BallotsAvailable
