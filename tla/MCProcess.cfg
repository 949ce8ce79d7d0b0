CONSTANTS
  NThreads = 5
  NProcs = 4
  Program <- MixedProgram
SPECIFICATION FairSpec
INVARIANTS
  TypeOK
  ProcLockExclusion
  DeadLockExclusion
  EndedThreadListedOnce
  QueueIntegrity
  NoLostWakeup
  NoLostNotify
  FreedOnce
  IdsAccounted
  LivePageDirectory
PROPERTIES
  InitReaps
