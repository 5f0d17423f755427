SPECIFICATION Spec
CONSTANTS
  MaxNumber = 9
  SlotCount = 3
  AssetsFiles <- UprightFiles
  Displays <- UprightDisplays
  MaxKeys = 3
INVARIANT BarMoves
CHECK_DEADLOCK FALSE
