CONSTANTS
  NumSensors = 3
  PulledUp = TRUE
  MaxFaults = 1
  MaxBoots = 1
SPECIFICATION Spec
INVARIANTS DifferentAddresses
CHECK_DEADLOCK FALSE
