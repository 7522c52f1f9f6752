SPECIFICATION Spec
CONSTANTS
  p1 = p1
  p2 = p2
  x1 = x1
  x2 = x2
  x3 = x3
  x4 = x4
  x5 = x5
  x6 = x6
  x7 = x7
  None = None
  Junk = Junk
  Proc = {p1, p2}
  Page = {x1, x2, x3, x4, x5, x6, x7}
  Val = {0, 1}
  Zero = 0
  PTESPAN = 1
  MaxSz = 2
  MaxRef = 3
  InitProc = p1
  InitSz = 1
SYMMETRY Symmetry
CHECK_DEADLOCK FALSE
INVARIANTS
  NoUseAfterFree
PROPERTIES
  CowIsPrivate
