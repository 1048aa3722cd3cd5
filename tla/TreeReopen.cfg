SPECIFICATION Spec
CONSTANTS
  BufferThreshold = 2
  Keys = {1, 2, 3}
  Ops = {"flush"}
  SoftLimit = 2
  Sizes = {1}
  MAX_FANOUT = 2
  MaxWrites = 4
  MaxSessions = 2
  CrashPoints = "unsaved"
INVARIANTS TypeOK Recoverable TreeIntact GetLatest NoGarbage
