SPECIFICATION Spec
CONSTANTS
  c1 = c1
  c2 = c2
  CPU = {c1, c2}
  NPROC = 3
  NoCpu = NoCpu
  MaxPid = 3
  KillPid = {2}
SYMMETRY Symmetry
INVARIANTS
  StacksExclusive
  ParentsCanWait
  
