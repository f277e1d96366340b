SPECIFICATION FairSpec
CONSTANTS
  l1 = l1
  l3 = l3
  p1 = p1
  p2 = p2
  Launches = {l1}
  Profiles = {p1, p2}
  ProfileOf <- TwoOfOne
  None = None
  MaxFinished = 2
  GiveUp = 2
  MayStop = {l1}
  MaxFaults = 1
PROPERTIES
  EndIsReported
  CommandsReturn
CHECK_DEADLOCK FALSE
