SPECIFICATION ImportsSpec
SYMMETRY Symmetry
CONSTANTS
  Folders = {f1, f2, f3, f4}
  Creators = {c1}
  NoFolder = NoFolder
  MaxDepth = 1
  Positions = {0}
  MaxEdges = 4
  MaxGone = 1
INVARIANTS
  CyclesNeedARoute
