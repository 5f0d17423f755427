SPECIFICATION Spec
CONSTANTS
  f1 = f1
  b1 = b1
  Procs = {p1}
  Paths = {1, 2}
  ChangingPaths = {2}
  KindOf <- MCFiles
  Filesets = {f1}
  FilesetPaths <- MCFilesetPaths
  Backups = {b1}
  BackupFileset <- MCBackupFileset
  Carriers = {1, 2}
  CarrierBackup <- MCCarrierBackup
  StartCarriers = {2}
  MaxVersion = 2
  MaxNumber = 3
  MaxWrites = 2
  AllowGrowth = TRUE
  p1 = p1
INVARIANTS
  RecordedIsOnCarrier
