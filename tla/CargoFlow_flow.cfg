SPECIFICATION Spec
CONSTANTS
  Names <- MCNames
  Cases <- AllCases
  NoCode = NoCode
  Entries <- OthersPut
INVARIANTS BuildWritesOnlyItsOwn SuccessIsEarned CargoSeesWhatWasMeant
PROPERTY CreatesInOwnWorkspace
CHECK_DEADLOCK FALSE
