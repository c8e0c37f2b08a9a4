SPECIFICATION AccessFairSpec
CONSTANTS
  a1 = a1
  a2 = a2
  e1 = e1
  e2 = e2
  c1 = c1
  c2 = c2
  s1 = s1
  s2 = s2
  login1 = login1
  login2 = login2
  g1 = g1
  g2 = g2
  g3 = g3
  k1 = k1
  k2 = k2
  q1 = q1
  NoUser = NoUser
  Emails = {e1, e2}
  Accounts <- MCAccounts
  Credentials <- MCCredentials
  States <- MCStates
  ExpiryOf <- MCExpiryOf
  AccountOf <- MCAccountOf
  EmailOf <- MCEmailOf
  Starts <- MCStarts
  StateOf <- MCStateOf
  Callbacks <- MCCallbacks
  ProofOf <- MCProofOf
  Visits <- MCVisits
  Calls <- MCCalls
  CookieOf <- MCCookieOf
  SessionHours = 2
  StateMinutes = 1
  MaxNow = 3
  MaxCrashes = 1
INVARIANTS
  CallsAreEntitled
  ProofsAreUsedOnce
PROPERTIES
  LoginsEndAndDeadSessionsGo
CHECK_DEADLOCK FALSE
