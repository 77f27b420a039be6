CONSTANTS
  LongLen = 4
  ShortLen = 2
  ChunkMax = 4
  MaxPosts = 4
  MaxBreaks = 1
SPECIFICATION Spec
INVARIANTS TypeOK ParsedWhole ParsedInOrder
CHECK_DEADLOCK FALSE
