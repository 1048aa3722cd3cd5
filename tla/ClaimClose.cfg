SPECIFICATION FairSpec
CONSTANTS
  Clients = {c1}
  Flushers = {}
  FT = ft
  CL = cl
  Keys = {1}
  SoftLimit = 1
  HardLimit = 2
  MaxWrites = 1
PROPERTY CloseReturns
