SPECIFICATION Spec
SYMMETRY Symmetry
VIEW View
CONSTANTS
  Writers = {w1, w2}
  Names = {a, b}
  Keys = {k}
  Secrets = {s1}
  None = None
  Quiet = TRUE
  MaxDepth = 2
  MaxFolders = 4
INVARIANTS
  PathsFollowParents
  MrnIsCurrent
  LiveAreReachable
