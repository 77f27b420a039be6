SPECIFICATION FairSpec
CONSTANTS
  Callers = {c1, c2}
  Slots = {a, b}
  None = none
  QueueLen = 2
  Timeout = 1
  Resend = 1
  W = 4
  MaxPackets = 1
INVARIANTS TypeOK NoUseAfterFree GivesUpLate
PROPERTY QueryReturns
CHECK_DEADLOCK FALSE
