SPECIFICATION FairSpec
CONSTANTS
  s1 = s1
  s2 = s2
  w1 = w1
  w2 = w2
  Signallers <- TwoSignallers
  Waiters <- TwoWaiters
  InitialCount = 0
  MaxSignal = 2
  MaxTake = 2
  MaxCount = 2
INVARIANTS
  TypeOK
  Accounting
PROPERTIES
  RefinesCountingSemaphore
  NoLostWakeup
  Settles
