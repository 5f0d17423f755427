SPECIFICATION SpecOldCopies
CONSTANTS
  f1 = f1
  b1 = b1
  Procs = {p1}
  Paths = {1}
  ChangingPaths = {1}
  KindOf <- MCFiles
  Filesets = {f1}
  FilesetPaths <- MCFilesetPaths
  Backups = {b1}
  BackupFileset <- MCBackupFileset
  Carriers = {2}
  CarrierBackup <- MCCarrierBackup
  StartCarriers = {2}
  MaxVersion = 2
  MaxNumber = 2
  MaxWrites = 3
  AllowGrowth = FALSE
  p1 = p1
PROPERTIES
  RestoreExact
