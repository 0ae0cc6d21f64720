SPECIFICATION Spec
SYMMETRY Symmetry
VIEW View
CONSTANTS
  Replicas = {r1, r2}
  Requests = {q1, q2}
  None = None
  Limit = 2
  Slice = 1
  Skew = 1
  Retention = 2
  MaxWindow = 3
  MaxFaults = 1
INVARIANTS
  BudgetIsShared
