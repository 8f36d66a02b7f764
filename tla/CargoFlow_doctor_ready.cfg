SPECIFICATION Spec
CONSTANTS
  Names <- MCNames
  Cases <- OneCase
  NoCode = NoCode
  Entries <- OthersPut
INVARIANT ReadyMeansPreparable
CHECK_DEADLOCK FALSE
