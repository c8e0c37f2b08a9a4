CONSTANTS
  Imports = {"sample1", "portal1"}
  KindOf <- MCKindOf
  DestOf <- MCDestOf
  Capacity = 2
  MaxFaults = 2
  MaxRestarts = 1
SPECIFICATION ImportsFairSpec
INVARIANTS
  StageLastsAsLongAsItsWork
  HistoryIsTruthful
PROPERTIES
  EndedRecordsLast
  EveryImportEnds
CHECK_DEADLOCK FALSE
