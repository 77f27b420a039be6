SPECIFICATION FairSpec
CONSTANTS
  NumSensors = 3
  AliveSets <- OneDead
  MaxTries = 2
  CountMod = 3
  MaxCycles = 4
  MaxFaults = 2
INVARIANTS TypeOK NoFrameSkipped OneSpoiltPostPerFault OneFramePerFault
PROPERTIES FreshFrames StampFromSecond CyclesGoOn
