SPECIFICATION Spec
CONSTANTS
  A = A
  B = B
  C = C
  P = P
  Q = Q
  c1 = c1
  Wide = FALSE
  None = None
  Rank <- MCRank
  IsPack <- MCIsPack
  World <- MCWorld
  AtStart <- Start
  Calls = {c1}
  MaxItems = 5
INVARIANTS
  LockFollowsIntent
  LocksAreSound
PROPERTIES
  ApplyAllOrNothing
