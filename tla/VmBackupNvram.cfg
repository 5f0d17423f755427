SPECIFICATION Spec
CONSTANTS
  d1 = d1
  d2 = d2
  Disks = {d1, d2}
  Pools = {d1, d2}
  PoolOf <- MCPoolOf
  MaxRuns = 3
  Nvrams = {"missing", "there"}
  Windows = {}
INVARIANTS
  NvramOfBackup
