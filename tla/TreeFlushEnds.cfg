SPECIFICATION FaultFairSpec
CONSTANTS
  BufferThreshold = 2
  Keys = {1, 2}
  Ops = {}
  SoftLimit = 2
  Sizes = {1}
  MAX_FANOUT = 2
  MaxWrites = 6
  MaxSessions = 2
  CrashPoints = "saving"
  MaxFailures = 1
PROPERTIES FlushTerminates
