CONSTANTS
  FS_BLOCK_SIZE = 8
  SECTOR_SIZE = 4
  BITS = 6
  DIRECT = 3
  NBLOCKS = 4
  INODE_TABLE_BLOCKS = 5
  TOTAL_BLOCKS = 14
  short = short
  long = long
  Names = {short, long, a, b, c}
  Cut <- MCCut
  Dot = dot
  DotDot = dotdot
  Sizes <- MCSizes
  Ranges <- MCRanges
  UINT = 65536
SYMMETRY Symmetry
SPECIFICATION Spec
INVARIANTS
  ReadBack
  ListingExact
  BitmapsExact
