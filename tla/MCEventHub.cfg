SPECIFICATION HubFairSpec
CONSTANTS
  a = a
  b = b
  x = x
  u = u
  Streams = {a, b}
  Sessions = {x}
  Users = {u}
  SessionOf <- MCSessionOf
  UserOf <- MCUserOf
  QueueSize = 2
  MaxSeq = 5
INVARIANTS
  LossesAreAnnounced
  LoggedOutStreamsAreClosed
PROPERTIES
  EndedStreamsEnd
CHECK_DEADLOCK FALSE
