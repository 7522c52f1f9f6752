SPECIFICATION Spec
CONSTANTS
  p1 = p1
  p2 = p2
  f1 = f1
  Process = {p1, p2}
  Initproc = p1
  Nobody = Nobody
  NoFile = NoFile
  NINODES = 3
  Name <- MCName
  Calls <- Dotted
  NewPath <- TreeNew
  File = {f1}
  NOFILE = 2
  MaxLink = 3
INVARIANTS
  NoPanic
