SPECIFICATION RevealsSpec
CONSTANTS
  Folders = {f1, f2, f3}
  Creators = {}
  Readers = {r1}
  NoFolder = NoFolder
  Absent = Absent
  Templates <- OneReference
  Grants <- OneForbidden
  MaxDepth = 2
  MaxRefDepth = 2
  Positions = {0, 1}
  MaxEdges = 2
  MaxLinks = 2
  MaxGone = 0
INVARIANTS
  ReturnedIsGrantedAndLogged
  NearestHolderWins
PROPERTIES
  RevealsEnd
