SPECIFICATION ImportsSpec
SYMMETRY Symmetry
CONSTANTS
  Folders = {f1, f2, f3}
  Creators = {c1, c2}
  NoFolder = NoFolder
  MaxDepth = 2
  Positions = {0}
  MaxEdges = 3
  MaxGone = 1
INVARIANTS
  NoCircleByCreation
