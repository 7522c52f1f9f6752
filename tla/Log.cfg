SPECIFICATION FairSpec
CONSTANTS
  o1 = o1
  o2 = o2
  b1 = b1
  b2 = b2
  v1 = v1
  v2 = v2
  NoBuf = NoBuf
  Op = {o1, o2}
  Block = {b1, b2}
  Val = {v1, v2}
  MAXOPBLOCKS = 2
  LOGSIZE = 4
  NLog = 3
INVARIANTS
  LogFits
PROPERTIES
  CrashAtomic
  SleepersWake
