CONSTANTS
  NThreads = 5
  NProcs = 4
  Program <- AnyProgram
SPECIFICATION Spec
INVARIANTS
  NoNullProcessSwitch
