SPECIFICATION Spec
CONSTANTS
  MaxNumber = 9
  SlotCount = 3
  AssetsFiles <- WideFiles
  Displays <- WideDisplays
  MaxKeys = 3
INVARIANT LabelsFitBuffers
CHECK_DEADLOCK FALSE
