CONSTANTS
  Procs = {p1, p2, p3}
  First = p1
  Pages = {v1}
  Frames = {f1, f2, f3, f4, f5}
  Values = {zero, x}
  Zero = zero
  None = None
  KernelPages = {}
SYMMETRY Symmetry
SPECIFICATION Spec
INVARIANTS
  CopiedPageFree
