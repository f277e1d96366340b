SPECIFICATION Spec
SYMMETRY Interchangeable
CONSTANTS
  None = None
  h1 = h1
  h2 = h2
  Folded <- MCFolded
  Reserved <- MCReserved
  NativeLimits <- MCNativeLimits
  MaxNativeCrashes = 1
  PackLimits <- MCPackLimits
  Profile <- MCProfile
  Shas <- MCShas
  TransferLimits <- MCTransferLimits
  MaxChanges = 1
  TrustedKeys <- MCTrusted
  Origin = "set"
  ComponentLimits <- MCComponentLimits
  Platform <- MCPlatform
  SupportedJava = {17, 21, 25}
  MaxArtifact = 2
  MaxAsset = 2
  Holes <- MCHoles
  MaxRepublished = 1
  s1 = s1
  s2 = s2
  j = j
  c1 = c1
  b1 = b1
  b2 = b2
  Callers = {b1, b2}
  Major = 21
  Builds <- MCBuilds
  SystemJavas <- MCSystemJavas
  MaxJavaCrashes = 2
  MaxSwaps = 2
  t1 = t1
  t2 = t2
  Tasks = {t1, t2}
  Jar = j
  Components = {FALSE, TRUE}
  Contents = {c1}
  Runtimes <- MCRuntimes
  Sizes <- MCSizes
  Concurrency = 1
  MaxRevisions = 4
  MaxHarm = 1
  PathOf <- MCPathOf
  Runnable = {"hx"}
  NeoLimits <- MCNeoLimits
  p1 = p1
  p2 = p2
  Paths = {p1, p2}
  Managed = Managed
  UserContents = {"own"}
  TargetsOf <- MCTargetsOf
  Points = {"rp"}
  Settings = {1, 2}
  MaxEdits = 2
  MaxCopies = 1
  MaxBackupCrashes = 1
  w1 = w1
  w2 = w2
  Writers = {w1, w2}
  Values = {"plain", "java"}
  JavaValues = {"java"}
  Defaults = "default"
  MaxSaves = 3
  MaxSettingsCrashes = 1
  Unresolved = Unresolved
  Fields = {"f", "g"}
  FieldValues = {"1", "2"}
  v1 = v1
  v2 = v2
  Windows = {v1, v2}
  Names = {"n1", "n2"}
  Name1 = "n1"
  MaxTokens = 2
  MaxCommands = 3
  MaxBridgeFaults = 1
  MaxBridgeCrashes = 1
PROPERTY InstallKeepsContent
INVARIANTS
  DocumentsAreFollowed
  IntakeIsVerified
  UsedFilesAreWhole
  BackupsHold
  ChoiceSurvives
  MergeKeepsChanges
  PlayerIsShown
