SPECIFICATION Spec
CONSTANTS
  BufferThreshold = 2
  Keys = {1, 2, 3}
  ByteBits = 2
  Align = 4
  BitsPerEntry = 3
  MaxHashes = 2
  WordSize = 16
  HashPairs <- SomePairs
  Ranges <- SomeRanges
  SPARSE_STEP = 2
  MaxSeq = 3
INVARIANTS ReadBack HeaderFilterComplete LookupComplete RangeCovers IndexPoints
