SPECIFICATION FairSpec
CONSTANTS
  Replicas = {r1, r2}
  Free = Free
  Orphan = Orphan
  FaultKinds = {"crash", "stop", "session", "network"}
  MaxFaults = 3
  MaxSecret = 2
  Broken = {1}
  Batch = 2
  Gated = TRUE
  MaxDue = 2
INVARIANTS
  LeadersHoldTheLock
  HolderWillRelease
  RotatedOncePerDue
PROPERTIES
  LeaderEmerges
  DueIsRotated
