CONSTANTS
  HeaderSize = 1
  FooterSize = 1
  PageSize = 4
  MinEnd = 12
  MaxEnd = 20
  IndexNum = 8
  Sizes = {1, 2, 5}
SPECIFICATION Spec
INVARIANTS
  Tiled
  OwnedSafe
  IndexExact
  Coalesced
  PlainExpansionServes
