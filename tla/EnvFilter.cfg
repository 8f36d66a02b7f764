SPECIFICATION Spec
CONSTANTS
  Hosts <- AllHosts
  Requests <- AllRequests
  Extra <- Changing
  MaxMoves = 1
  Secrets <- Both
INVARIANTS RemovalsWin SecretsStayOut OnlyWhatWasGiven
CHECK_DEADLOCK FALSE
