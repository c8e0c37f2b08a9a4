SPECIFICATION FairSpec
CONSTANTS
  t = t
  c = c
  n = n
  NoAnalysis = NoAnalysis
  Analyses = {t, c, n}
  KindOf <- MCKindOf
  ParentOf <- MCParentOf
  Unchecked = {c}
  Replaces <- MCReplaces
  Readers = {"r1", "r2"}
  Scenes <- MCScenes
  NoOne = NoOne
  User = User
  Slots = 1
  MaxDisturbances = 1
INVARIANTS
  InputsLast
  ResultsAreThere
  NothingIsLeft
PROPERTIES
  EverythingEnds
CHECK_DEADLOCK FALSE
