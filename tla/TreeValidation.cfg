CONSTANTS
  Paths <- MCPaths
  Hosts <- MCHosts
  Requests <- MCRequests
SPECIFICATION Spec
CHECK_DEADLOCK FALSE
INVARIANTS
  AccessStaysInside
  RefusedForCause
