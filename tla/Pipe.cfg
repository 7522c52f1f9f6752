SPECIFICATION Spec
CONSTANTS
  p1 = p1
  p2 = p2
  p3 = p3
  b1 = b1
  b2 = b2
  Proc = {p1, p2, p3}
  NoProc = NoProc
  PIPESIZE = 2
  UINT = 4
  Byte = {b1, b2}
  Count = {0, 1, 3}
SYMMETRY Symmetry
CHECK_DEADLOCK FALSE
INVARIANTS
  FreedOnce
  SleepersBlocked
PROPERTIES
  IsFifo
