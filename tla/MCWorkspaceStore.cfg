SPECIFICATION StoreSpec
CONSTANTS
  n1 = n1
  n2 = n2
  f1 = f1
  f2 = f2
  tab = tab
  Nodes = {n1, n2}
  Tabs = {tab}
  Sources = {f1, f2}
  NoPlan = NoPlan
  HistoryLimit = 1
  MaxGeneration = 3
SYMMETRY MCSymmetry
INVARIANTS
  CommittedLoads
PROPERTIES
  ImplementsAtomic
