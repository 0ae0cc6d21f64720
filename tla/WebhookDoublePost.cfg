SPECIFICATION Spec
CHECK_DEADLOCK FALSE
CONSTANTS
  w1 = w1
  w2 = w2
  Workers <- TwoWorkers
  InlineMax = 2
  RedriveDelay = 1
  RedriveMax = 2
  Base = 1
  Cap = 2
  Batch = 2
  Lease = 2
  Timeout = 1
  MaxDeliveries = 2
  MaxFaults = 2
INVARIANTS
  NoDoublePost
