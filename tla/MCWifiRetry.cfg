CONSTANTS
  Retries = 3
  MaxDrops = 10
  MaxIPs = 3
SPECIFICATION FairSpec
INVARIANTS TypeOK IdleOnlyGivenUp
PROPERTIES NoEarlyGiveUp FailureIsReal ConnectReturns
CHECK_DEADLOCK FALSE
