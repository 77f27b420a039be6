CONSTANTS
  NumSensors = 3
  PulledUp = TRUE
  MaxFaults = 3
  MaxBoots = 3
SPECIFICATION Spec
INVARIANTS TypeOK OwnAddressOrNone AliveIsAlone CleanBootFindsAll
CHECK_DEADLOCK FALSE
