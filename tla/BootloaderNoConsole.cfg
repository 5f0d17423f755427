SPECIFICATION Spec
CONSTANTS
  MaxNumber = 9
  SlotCount = 3
  AssetsFiles <- TextFiles
  Displays <- NoConsoleDisplays
  MaxKeys = 3
INVARIANT NeverCrashes
CHECK_DEADLOCK FALSE
