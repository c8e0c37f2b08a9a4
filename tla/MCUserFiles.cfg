SPECIFICATION FilesFairSpec
CONSTANTS
  ann = ann
  bob = bob
  o1 = o1
  o2 = o2
  o3 = o3
  Ops = {o1, o2, o3}
  Users = {ann, bob}
  UserOf <- MCUserOf
  KindsOf <- MCKindsOf
  Unlimited = Unlimited
  NoOp = NoOp
  FirstPolicy <- MCFirstPolicy
  Policies = {3, 4, Unlimited}
  HaveFolder = {ann}
  MaxUpload = 2
  MaxSnapshots = 1
  Disk = 7
  MinFree = 2
  MaxDisturbances = 1
INVARIANTS
  LimitsHold
  AccountsBalance
PROPERTIES
  EveryRequestEnds
CHECK_DEADLOCK FALSE
