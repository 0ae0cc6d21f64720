SPECIFICATION Spec
SYMMETRY Symmetry
CONSTANTS
  c1 = c1
  c2 = c2
  Clients = {c1, c2}
  Secrets = {s1, s2}
  Addresses = {a1}
  Values = {v1, v2}
  None = None
  DefaultKeep = 1
  KeepChoices = {0, 2}
  Policies = {FALSE}
  Windows <- MCWindows
  Skew <- MCSkew
  MaxVersion = 3
  MaxNow = 1
INVARIANTS
  CurrentIsNewest
  OneLivePerAddress
  ReadsAreFresh
PROPERTIES
  NumbersNeverReused
  RetentionIsExact
  DeletedIsFrozen
  WindowIsKept
  ImplementsStore
