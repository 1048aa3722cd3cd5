SPECIFICATION FairSpec
CONSTANTS
  Clients = {c1, c2}
  Flushers = {}
  FT = ft
  CL = cl
  Keys = {1}
  SoftLimit = 1
  HardLimit = 2
  MaxWrites = 4
INVARIANTS RootNewest StaleOnlyInTransit
PROPERTIES CycleEnds
