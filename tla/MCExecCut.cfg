CONSTANTS
  NThreads = 3
  NProcs = 3
SPECIFICATION Spec
INVARIANTS
  ExecUncut
