SPECIFICATION LiveSpec
CONSTANTS
  p1 = p1
  p2 = p2
  p3 = p3
  Process = {p1, p2, p3}
  NoProc = NoProc
  NUM = 8
  U16 = 16
INVARIANTS
  DescriptorsOwned
PROPERTIES
  RequestsReturn
