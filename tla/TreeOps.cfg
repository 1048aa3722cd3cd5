SPECIFICATION Spec
CONSTANTS
  BufferThreshold = 2
  Keys = {1, 2, 3}
  Ops = {"remove", "flush"}
  SoftLimit = 2
  Sizes = {1}
  MAX_FANOUT = 3
  MaxWrites = 4
  MaxSessions = 1
  CrashPoints = "idle"
INVARIANTS GetLatest ScanFindsLive Durable
