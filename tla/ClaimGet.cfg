SPECIFICATION Spec
CONSTANTS
  BufferThreshold = 2
  Keys = {1, 2}
  Ops = {}
  SoftLimit = 2
  Sizes = {1}
  MAX_FANOUT = 3
  MaxWrites = 3
  MaxSessions = 1
  CrashPoints = "idle"
INVARIANT GetSeesNewest
