SPECIFICATION FairSpec
CONSTANTS
  N = 3
  None = none
  Room = 1
  MaxLost = 3
  MaxFaults = 2
INVARIANTS TypeOK RankBoundsName NamesDiffer
PROPERTY Settles
CHECK_DEADLOCK FALSE
