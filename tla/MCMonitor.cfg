CONSTANTS
  VGA_WIDTH = 4
  VGA_HEIGHT = 3
  TabStop = 2
  Threads = {t1, t2}
  Texts <- MCTexts
  PanicTexts <- MCPanicTexts
  MaxPrints = 4
SYMMETRY Symmetry
SPECIFICATION Spec
INVARIANTS
  ScreenIsPaper
  PrintsWhole
  
