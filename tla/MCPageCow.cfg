CONSTANTS
  Procs = {p1, p2, p3}
  First = p1
  Pages = {v1, v2}
  KernelPages = {v2}
  Frames = {f1, f2, f3}
  Values = {zero, x}
  Zero = zero
  None = None
SYMMETRY Symmetry
SPECIFICATION Spec
INVARIANTS
  RefCounts
  WritableIsPrivate
PROPERTIES
  MemoryIsPrivate
