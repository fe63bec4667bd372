SPECIFICATION LiveSpec
CONSTANTS
  h1 = h1
  h2 = h2
  n1 = n1
  b1 = b1
  b2 = b2
  None = None
  Handle = {h1, h2}
  Writers = {h1}
  Readers = {h2}
  Sweepers = {}
  Node = {n1}
  Box = {b1, b2}
  ThreadStart = {"on"}
  GarbCap = 1
  Threshold = 1
  MaxClaim = 2
  MaxEpoch = 2
  MaxTail = 1
  MaxCrash = 1
PROPERTIES RoundEnds TakeOver
CHECK_DEADLOCK FALSE
