CONSTANTS
  Users = {"ann", "bob"}
  Workspaces = {"a1", "a2", "a3", "b1"}
  OwnerOf <- MCOwnerOf
  Existing = {"a1", "a2", "b1"}
  Ops = {"o1", "o2", "o3"}
  KindsOf <- MCKindsOf
  Sizes = {1, 3}
  Limit = 3
  MaxWork = 1
  MaxFaults = 1
SPECIFICATION RuntimeFairSpec
INVARIANTS
  CapacityIsExact
  OneIsOpen
  MemoryIsCommitted
PROPERTIES
  ClosingEnds
CHECK_DEADLOCK FALSE
