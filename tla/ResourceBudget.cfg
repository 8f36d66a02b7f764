SPECIFICATION Spec
CONSTANTS
  s0 = s0
  s1 = s1
  s2 = s2
  MaxProfile <- MCMaxProfile
  MinMemory <- MCMinMemory
  WordMax <- MCWordMax
  Unlimited <- MCUnlimited
  MaxTries = 2
  MaxCalls = 2
  Scenes <- MCScenes
INVARIANTS StartsWithinBudget InheritedAsReported FailureLeavesNoGroup
  GroupsAreFresh
PROPERTY HardLimitsNeverRise
SYMMETRY Symmetry
CHECK_DEADLOCK FALSE
