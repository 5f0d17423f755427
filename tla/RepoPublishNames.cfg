SPECIFICATION Spec
CONSTANTS
  Server = "server"
  Developers = {"developer"}
  Packages = {1, 2}
  Suites = {1, 2}
  SuitesOf <- MCSuitesOf
  MaxCommit = 2
  VersionOf <- MCVersionOf
  Glob <- MCGlobTurned
  MaxBroken = 1
  MaxManual = 0
PROPERTIES
  OnlyOlderRemoved
CHECK_DEADLOCK FALSE
