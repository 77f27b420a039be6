SPECIFICATION Spec
CONSTANTS
  NumSensors = 2
  AliveSets <- AllSensors
  MaxTries = 2
  CountMod = 3
  MaxCycles = 2
  MaxFaults = 0
INVARIANTS StampCorrect
