\* Two threads of one process call run at the same time; the supervisor may
\* fail to move back and a thread may panic.
CONSTANTS
  Callers = {c1, c2}
  Bwrap = bwrap
  Kids = {kid}
  Outside = outside
  None = none
  Poisoned = poisoned
  Faults = {"restore", "panic"}
SPECIFICATION Spec
SYMMETRY CallerSymmetry
INVARIANTS BornInOwnCgroup SupervisorComesHome
