SPECIFICATION BatchSpec
CONSTANTS
  BufferThreshold = 2
  Keys = {1, 2, 3}
  kMaxHeight = 3
  MaxSeq = 4
  MaxKids = 3
INVARIANTS LevelsSorted FindsNewest MergeKeepsNewest PartitionKeepsAll PartitionFollowsPath
PROPERTIES ImplementsSorted
CHECK_DEADLOCK FALSE
