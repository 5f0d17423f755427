SPECIFICATION Spec
CONSTANTS
  Server = "server"
  Developers = {"developer"}
  Packages = {1, 2}
  Suites = {1, 2}
  SuitesOf <- MCSuitesOf
  MaxCommit = 2
  VersionOf <- MCVersionOf
  Glob <- MCGlob
  MaxBroken = 1
  MaxManual = 1
PROPERTIES
  BadUploadRefused
CHECK_DEADLOCK FALSE
