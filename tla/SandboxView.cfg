CONSTANTS
  Names <- MCNames
  Paths <- MCPaths
  Dirs <- MCDirs
  Files <- MCFiles
  Links <- MCLinks
  Runtime <- MCRuntime
  Requests <- MCRequests
SPECIFICATION Spec
CHECK_DEADLOCK FALSE
INVARIANTS
  HiddenStaysHidden
  WritableExactly
  PrivateShowsOnlyTheChosen
  OnlyCachesOfCargoHome
  ReadOnlyStaysVisible
  AcceptedMeansStartable
