SPECIFICATION TrapSpec
CONSTANTS
  r1 = r1
  r2 = r2
  r3 = r3
  Reg = {r1, r2, r3}
  Interval = {0, 1, 2, 3}
  MaxIdle = 3
  MaxDepth = 2
  Rearms = FALSE
  ExitsArmed = FALSE
  q1 = q1
  q2 = q2
  Printer = {q1, q2}
  UART_TX_BUF_SIZE = 2
  TXUINT = 4
  FIFO = 3
  MaxTyped = 1
  MaxPrints = 1
  ShPid = {1, 2, 3, 4, 5, 6, 7}
  NOFILE = 5
  MAXARGS = 3
  Word = {"cat", "cd", "echo", "f", "g"}
  Sessions <- MCSessions
INVARIANTS
  
  FifoFits
  RunsAsWritten
  ParsesRight
PROPERTIES
  
  KeepsFiring
  TxIsFifo
  TxDrains
  PromptReturns
CHECK_DEADLOCK FALSE
