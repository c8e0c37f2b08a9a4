SPECIFICATION Spec
CONSTANTS
  p = p
  g = g
  s = s
  c = c
  NoAnalysis = NoAnalysis
  Analyses = {g, s, c}
  Kind <- MCKind
  Parent <- MCParent
  Supersedes <- NothingSuperseded
  Capacity = 1
  Stimuli = {"clear", "close", "delete", "badProgress", "crash"}
  MaxFaults = 1
  MaxRestarts = 1
INVARIANTS
  IInv
  EveryProcessIsWanted
  ClosingIsAwaited
PROPERTIES
  ImplementsLifecycle
CHECK_DEADLOCK FALSE
