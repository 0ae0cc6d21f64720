SPECIFICATION Spec
CONSTANTS
  Replicas = {r1, r2}
  Keys = {k1, k2}
  Rows <- MixedRows
  Table <- MixedTable
  None = None
  Batch = 2
  AddsKeys = TRUE
  Rolling = FALSE
INVARIANTS
  RetiredIsDecommissionable
