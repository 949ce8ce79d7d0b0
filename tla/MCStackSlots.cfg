CONSTANTS
  Threads = {t1, t2, t3}
  TotalBits = 3
  WordBits = 2
  FreeLocks = TRUE
SYMMETRY ThreadSymmetry
SPECIFICATION Spec
INVARIANTS
  UniqueIds
  BitsExact
  FailsOnlyWhenFull
