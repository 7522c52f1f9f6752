SPECIFICATION LiveSpec
CONSTANTS
  A = 2
  Q = 3
  R = 1
  NCPU = 2
  NPROC = 3
  StaticPriority = {60, 100}
  NanNiceness <- MCNanNiceness
  MaxTicks = 2
INVARIANTS
  PicksTheBest

  
