SPECIFICATION Spec
SYMMETRY Symmetry
CONSTANTS
  c1 = c1
  c2 = c2
  Clients = {c1, c2}
  Secrets = {s1}
  Addresses = {a1}
  Values = {v1, v2}
  None = None
  DefaultKeep = 1
  KeepChoices = {0, 2}
  Policies = {FALSE}
  Windows <- MCWindows
  Skew <- MCSkew
  MaxVersion = 1
  MaxNow = 1
PROPERTIES
  WindowIgnoresProcessClocks
