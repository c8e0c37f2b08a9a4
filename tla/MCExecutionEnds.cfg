SPECIFICATION FairSpec
CONSTANTS
  p = p
  g = g
  s = s
  c = c
  NoAnalysis = NoAnalysis
  Analyses = {p, g, s}
  Kind <- MCKind
  Parent <- MCParent
  Supersedes <- SupersededByGroup
  Capacity = 1
  Stimuli = {"clear", "delete", "stop", "crash"}
  MaxFaults = 0
  MaxRestarts = 1
INVARIANTS
  NoWorkIsLost
PROPERTIES
  EverySubmissionEnds
  TruthfulShutdown
CHECK_DEADLOCK FALSE
