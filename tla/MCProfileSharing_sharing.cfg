SPECIFICATION FairSpec
CONSTANTS
  s = s
  b = b
  None = None
  Profiles = {s, b}
  Standard = s
  Worlds = {1}
  Writers = {s}
  MaxFinished = 2
  MaxSynced = 2
  Bounds <- MCBounds
CONSTRAINT NoLapse
INVARIANTS
  GamesSeeLatest
PROPERTIES
  ServersFollow
  ChangesArrive
CHECK_DEADLOCK FALSE
