SPECIFICATION FairSpec
CONSTANTS
  QueueLen = 2
  MaxSockets = 3
  MaxPosts = 6
  MaxRefusals = 1
  MaxBreaks = 3
INVARIANTS TypeOK InOrder NoLossWhileUp
PROPERTIES ImplementsChannel Reconnects Drains
CHECK_DEADLOCK FALSE
