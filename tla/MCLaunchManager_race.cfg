SPECIFICATION Spec
CONSTANTS
  l1 = l1
  l3 = l3
  p1 = p1
  p2 = p2
  Launches = {l1, l2}
  Profiles = {p1, p2}
  ProfileOf <- TwoOfOne
  None = None
  MaxFinished = 1
  GiveUp = 1
  MayStop = {l1}
  MaxFaults = 1
INVARIANTS
  TypeOK
  OneLaunchPerProfile
  RecordsAreFound
  NothingIsHeld
CHECK_DEADLOCK FALSE
