CONSTANTS
  LongLen = 4
  ShortLen = 2
  ChunkMax = 4
  MaxPosts = 4
  MaxBreaks = 0
SPECIFICATION Spec
INVARIANTS ReceivedIsPassedOn
CHECK_DEADLOCK FALSE
