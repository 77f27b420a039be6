SPECIFICATION PathFairSpec
CONSTANTS
  QueueLen = 2
  MaxSockets = 3
  MaxPosts = 2
  MaxRefusals = 0
  MaxBreaks = 1
PROPERTIES WaitingIsFound
CHECK_DEADLOCK FALSE
