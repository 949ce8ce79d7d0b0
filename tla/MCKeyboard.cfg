CONSTANTS
  NThreads = 4
  NProcs = 2
  Keys = {a}
  BufSize = 2
  MaxEvents = 3
SPECIFICATION FairSpec
INVARIANTS
  RingIsFifo
  NoMissedKey
  OneQueue
  SectionKept
PROPERTIES
  ReaderServed
