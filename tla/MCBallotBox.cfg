SPECIFICATION Spec
CONSTANTS
  a = a
  b = b
  c = c
  Peers <- ThreeServers
  Confs <- Mixed
  MaxIndex = 3
CHECK_DEADLOCK FALSE
INVARIANTS
  TypeOK
  HintInRange
  QuorumExact
  InversionHarmless
