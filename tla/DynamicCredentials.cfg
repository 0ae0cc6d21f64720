SPECIFICATION FairSpec
CONSTANTS
  w1 = w1
  w2 = w2
  w3 = w3
  billing = billing
  db1 = db1
  db2 = db2
  Workers <- ThreeWorkers
  Reapers <- LastReaper
  Roles <- OneRole
  Targets <- OneTarget
  Home <- OneHome
  Templates <- BothTemplates
  Retarget = FALSE
  Batch = 2
  TTL = 1
  MaxLeases = 2
  MaxNow = 1
  MaxFaults = 1
INVARIANTS
  RevokedMeansGone
  AccountsAreAccounted
PROPERTIES
  ExpiredAreReaped
