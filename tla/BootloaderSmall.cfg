SPECIFICATION Spec
CONSTANTS
  MaxNumber = 9
  SlotCount = 3
  AssetsFiles <- SmallFiles
  Displays <- SmallDisplays
  MaxKeys = 3
INVARIANT RowsApart
CHECK_DEADLOCK FALSE
