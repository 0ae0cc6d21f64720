SPECIFICATION TransitSpec
SYMMETRY Symmetry
CONSTANTS
  Clients = {c1, c2}
  Names = {n1}
  NoKey = NoKey
  MaxKeys = 2
  MaxVersion = 3
  MaxTokens = 2
INVARIANTS
  TokensKeepOpening
  RotationsNumberApart
PROPERTIES
  FloorFallsOnRequest
