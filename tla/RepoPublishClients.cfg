SPECIFICATION Spec
CONSTANTS
  Server = "server"
  Developers = {"developer"}
  Packages = {1, 2}
  Suites = {1, 2}
  SuitesOf <- MCSuitesOf
  MaxCommit = 2
  VersionOf <- MCVersionOf
  Glob <- MCGlob
  MaxBroken = 0
  MaxManual = 0
INVARIANTS
  ClientsSeeMatch
CHECK_DEADLOCK FALSE
