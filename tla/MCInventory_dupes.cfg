SPECIFICATION Spec
CONSTANTS
  Kinds = {stone, dirt}
  Main <- MCMain
  Hotbar <- MCWide
  MAX = 2
  BYTE = 5
  Ground = 1
  Gifts = {1}
  MaxItems = 3
SYMMETRY Symmetry
PROPERTIES NothingFromNothing
CHECK_DEADLOCK FALSE
