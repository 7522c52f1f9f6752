SPECIFICATION FsSpec
CONSTANTS
  p1 = p1
  p2 = p2
  f1 = f1
  f2 = f2
  Writer = {p1, p2}
  Host = Host
  Undef = Undef
  HostLen <- MCHostLen
  File = {f1, f2}
  Inum <- MCInum
  BSIZE = 3
  NDIRECT = 1
  NBLOCK = 7
  BPB = 1
  MAXOPBLOCKS = 6
  LOGSIZE = 18
  Size = {2, 5}
  MaxCalls = 3
  MaxCrashes = 1
SYMMETRY Symmetry
CHECK_DEADLOCK FALSE
INVARIANTS
  BlocksOwned
  CrashConsistent
  OpFits
PROPERTIES
  IsByteStore
