SPECIFICATION FairSpec
CONSTANTS
  w1 = w1
  w2 = w2
  w3 = w3
  billing = billing
  db1 = db1
  db2 = db2
  Workers <- TwoWorkers
  Reapers <- LastReaper
  Roles <- OneRole
  Targets <- OneTarget
  Home <- OneHome
  Templates <- Unforgiving
  Retarget = FALSE
  Batch = 2
  TTL = 1
  MaxLeases = 3
  MaxNow = 1
  MaxFaults = 2
PROPERTIES
  ExpiredAreReaped
