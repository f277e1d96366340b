SPECIFICATION FairSpec
CONSTANTS
  p1 = p1
  api = api
  None = None
  Profiles = {p1}
  Mods = {api}
  Homes = {p1}
  Launched = {p1}
  Foreign = {0}
  MaxBuild = 2
  MaxCrashes = 1
  MaxEdits = 1
  RestoreFails = FALSE
INVARIANTS
  RecordsHold
PROPERTIES
  GameHasClient
  LaunchesEnd
