SPECIFICATION ServerFairSpec
CONSTANTS
  Clients = {b1, b2}
  Threshold = 3
  MaxFaults = 2
INVARIANTS
  NothingOutlivesWhatItUses
  ExitIsClean
PROPERTIES
  ShutdownEnds
CHECK_DEADLOCK FALSE
