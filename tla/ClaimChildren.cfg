SPECIFICATION Spec
CONSTANTS
  BufferThreshold = 2
  Keys = {1, 2, 3, 4}
  Ops = {}
  SoftLimit = 2
  Sizes = {1}
  MAX_FANOUT = 2
  MaxWrites = 4
  MaxSessions = 1
  CrashPoints = "idle"
INVARIANT NoDanglingChild
