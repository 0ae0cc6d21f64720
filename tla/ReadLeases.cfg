SPECIFICATION Spec
SYMMETRY Symmetry
CONSTANTS
  Clients = {c1, c2}
  Requesters = {app, job}
  None = None
  Skew <- SameClock
  Policies <- TwoPolicies
  Expiries = {0, 1}
  MaxLeases = 2
  MaxNow = 1
INVARIANTS
  ServedWithinCap
  AllowancesDoNotOverlap
  DecisionsHold
PROPERTIES
  OwnAllowanceOnly
