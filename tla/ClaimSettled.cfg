SPECIFICATION Spec
CONSTANTS
  Clients = {c1, c2}
  Flushers = {c1}
  FT = ft
  CL = cl
  Keys = {1}
  SoftLimit = 1
  HardLimit = 2
  MaxWrites = 2
INVARIANT SettledLookup
