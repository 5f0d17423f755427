SPECIFICATION Spec
CONSTANTS
  MaxNumber = 9
  SlotCount = 3
  AssetsFiles <- GraphicalFiles
  Displays <- BltOnlyDisplays
  MaxKeys = 3
INVARIANT MenuIsSeen
CHECK_DEADLOCK FALSE
