SPECIFICATION Spec
CONSTANTS
  Clients = {c1, c2}
  Flushers = {c1, c2}
  FT = ft
  CL = cl
  Keys = {1}
  SoftLimit = 1
  HardLimit = 2
  MaxWrites = 3
SYMMETRY ClientSymmetry
INVARIANTS TypeOK NoLostWrites WriteBufNewest BatchAnnounced ClosedDurable
PROPERTIES FlushReaches ImplementsStore
