CONSTANTS
  Callers = {c1}
  Bwrap = bwrap
  Kids = {kid}
  Outside = outside
  None = none
  Poisoned = poisoned
  Faults = {}
SPECIFICATION Spec
INVARIANT MountsValidatedAtCallerLimits
