SPECIFICATION FairSpec
CONSTANTS
  a1 = a1
  l1 = l1
  l2 = l2
  c1 = c1
  c2 = c2
  p1 = p1
  Accounts = {a1}
  Stored = {a1}
  Logins = {l1}
  Profiles = {p1}
  Calls = {c1, c2}
  None = None
  MaxPending = 1
  MaxPolls = 1
  MaxFaults = 1
INVARIANTS
  CredentialsMatchRows
PROPERTIES
  CancelledStaysOut
  CompletionReturns
CHECK_DEADLOCK FALSE
