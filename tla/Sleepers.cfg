SPECIFICATION SleepersSpec
CONSTANTS
  h1 = h1
  h2 = h2
  r1 = r1
  r2 = r2
  Hart = {h1, h2}
  Timer = h1
  NPROC = 2
  UINT = 3
  MaxSleep = 2
  Reader = {r1, r2}
  NoReader = NoReader
  INPUT_BUF_SIZE = 3
  CONSUINT = 6
  Char = {"a"}
  MaxRead = 2
INVARIANTS
  TimesFit
  ReaderWaits
PROPERTIES
  IsLineQueue
  EofIsSeen
CHECK_DEADLOCK FALSE
