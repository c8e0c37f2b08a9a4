SPECIFICATION SchedulerFairSpec
CONSTANTS
  u1 = u1
  u2 = u2
  w1 = w1
  w2 = w2
  w3 = w3
  Users = {u1, u2}
  Workspaces = {w1, w2, w3}
  Items = {1, 2, 3, 4}
  NoUser = NoUser
  Capacity = 2
  Owner <- MCOwner
  Home <- MCHome
INVARIANTS
  SleepsOnlyWithoutWork
PROPERTIES
  NoUserIsServedTwiceAheadOfAWaiter
  WaitingWorkMoves
CHECK_DEADLOCK FALSE
