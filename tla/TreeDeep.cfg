SPECIFICATION FaultSpec
CONSTANTS
  BufferThreshold = 2
  Keys = {1, 2, 3}
  Ops = {}
  SoftLimit = 2
  Sizes = {1}
  MAX_FANOUT = 2
  MaxWrites = 6
  MaxSessions = 1
  CrashPoints = "idle"
  MaxFailures = 1
INVARIANTS AnswersOrThrows SavedFilesExist SavedRootValid TreeIntact EntriesOnPath NoGarbage InsertIntoEmptied
PROPERTIES LeafFilesImmutable
