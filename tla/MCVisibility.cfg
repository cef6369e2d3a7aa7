SPECIFICATION Spec
CONSTANTS
  Conns = {c1, c2}
  Places <- MCPlaces
  Spawn = 0
  Eids = {e1, e2}
  MAX_AGE = 1
  PICK_AGE = 1
  MAX_FAR = 0
  MaxSpawn = 1
  MaxMoves = 2
INVARIANTS Mutual ScreensTrue DriftBounded
PROPERTIES RefreshedOnJoin ItemsGoUnlessStarved
CHECK_DEADLOCK FALSE
