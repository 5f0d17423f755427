SPECIFICATION Spec
CONSTANTS
  MaxNumber = 9
  SlotCount = 3
  AssetsFiles <- MCAssetsFiles
  Displays <- MCDisplays
  MaxKeys = 3
INVARIANTS TypeOK HighlightIsSelection RowsFit PointersValid MokHandedOver OnlyKeysSeen
PROPERTIES KeyStopsCountdown ImplementsBootMenu UnattendedBoots
CHECK_DEADLOCK FALSE
