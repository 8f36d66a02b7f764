SPECIFICATION Spec
CONSTANTS
  Names <- MCNames
  Cases <- TreeCases
  NoCode = NoCode
  Entries <- OthersPut
INVARIANT WorkspaceAsNormal
CHECK_DEADLOCK FALSE
