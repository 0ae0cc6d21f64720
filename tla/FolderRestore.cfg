SPECIFICATION Spec
CONSTANTS
  Writers = {w1}
  Names = {a, b}
  Keys = {k}
  Secrets = {s1}
  None = None
  Quiet = TRUE
  MaxDepth = 2
  MaxFolders = 4
PROPERTY
  RestoredAreReachable
