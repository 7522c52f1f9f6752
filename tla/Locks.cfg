SPECIFICATION LocksSpec
CONSTANTS
  c1 = c1
  c2 = c2
  NoCpu = NoCpu
  CPU = {c1, c2}
  Lock = {1, 2}
  p1 = p1
  p2 = p2
  k1 = k1
  k2 = k2
  k3 = k3
  k4 = k4
  b1 = b1
  b2 = b2
  b3 = b3
  v0 = v0
  v1 = v1
  Process = {p1, p2}
  NoProc = NoProc
  Buf = {b1, b2, b3}
  NoBuf = NoBuf
  Block = {k1, k2, k3, k4}
  NoBlock = NoBlock
  Value = {v0, v1}
  InitialValue = v0
  MaxPinned = 1
SYMMETRY Symmetry
INVARIANTS
  MutualExclusion
  NoPanic
  IntrDiscipline
  
PROPERTIES
  IsBlockStore
