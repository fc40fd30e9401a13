SPECIFICATION Spec
CONSTANTS
  Sources <- MCSources
  MaxIncludes = 3
  MaxExpand = 4
  MaxSyntaxDepth = 2
  MaxFields = 64
  MaxCode = 4
  MaxAliasDepth = 2
  ArenaUnits = 12
  MinUnits = 2
  SmallPart = 2
  MaxResponse = 48
  Gap = 8
  MaxRows = 2
  DefaultSize = 2
  Packages = {"a", "b"}
  Listing <- MCListing
  Servers <- MCServers
  Home = "s2"
  Versions = {1, 2}
  MaxRev = 2
  Deps <- MCDeps
  FilesOf <- MCFilesOf
  DirsOf <- MCDirsOf
  MaxDepth = 2
  MaxEdits = 1
  MaxPublish = 2
  MaxCommands = 3
  MaxFaults = 3
INVARIANTS
  ReadsAsWritten
  AlgorithmsRight
  NothingLost
  EndsConsistent
PROPERTY DependenciesFirst
CHECK_DEADLOCK FALSE
