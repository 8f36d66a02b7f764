\* One call, and everything that can go wrong in it.
CONSTANTS
  Callers = {c1}
  Bwrap = bwrap
  Kids = {kid}
  Outside = outside
  None = none
  Poisoned = poisoned
  Faults = {"setup", "restore", "kill", "scan", "late", "monitor", "panic",
            "oom", "crash", "memory", "pids", "flood"}
SPECIFICATION FairSpec
INVARIANTS
  SupervisorSparesItself
  NoMaskedLimitEvent DeliveredStatusIsGenuine NoTruncatedCapture
  ErrorLeavesNothing
PROPERTIES ImplementsPromise EveryCallReturns OrphansDie
