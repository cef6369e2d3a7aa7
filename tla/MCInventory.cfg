SPECIFICATION Spec
CONSTANTS
  Kinds = {stone, dirt}
  Main <- MCMain
  Hotbar <- MCHotbar
  MAX = 2
  BYTE = 5
  Ground = 1
  Gifts = {0, 1, 3}
  MaxItems = 3
SYMMETRY Symmetry
INVARIANTS ClientSeesTruth DragHasItems
PROPERTIES ItemsConserved
CHECK_DEADLOCK FALSE
