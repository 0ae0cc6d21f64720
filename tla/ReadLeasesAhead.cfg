SPECIFICATION Spec
SYMMETRY Symmetry
CONSTANTS
  Clients = {c1, c2}
  Requesters = {app, job}
  None = None
  Skew <- AheadOfDatabase
  Policies <- OnePolicy
  Expiries = {0, 2}
  MaxLeases = 2
  MaxNow = 2
INVARIANTS
  AllowancesDoNotOverlap
  DecisionsHold
