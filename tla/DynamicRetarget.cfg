SPECIFICATION Spec
CONSTANTS
  w1 = w1
  w2 = w2
  w3 = w3
  billing = billing
  db1 = db1
  db2 = db2
  Workers <- TwoWorkers
  Reapers <- LastReaper
  Roles <- OneRole
  Targets <- TwoTargets
  Home <- OneHome
  Templates <- BothTemplates
  Retarget = TRUE
  Batch = 1
  TTL = 1
  MaxLeases = 2
  MaxNow = 1
  MaxFaults = 2
INVARIANTS
  RevokedMeansGone
