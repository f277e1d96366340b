SPECIFICATION Spec
CONSTANTS
  p1 = p1
  api = api
  None = None
  Profiles = {p1}
  Mods = {api}
  Homes = {}
  Launched = {p1}
  Foreign = {0}
  MaxBuild = 2
  MaxCrashes = 1
  MaxEdits = 0
  RestoreFails = FALSE
PROPERTY
  NeverHostage
