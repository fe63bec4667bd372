SPECIFICATION Spec
CONSTANTS
  h1 = h1
  h2 = h2
  n1 = n1
  b1 = b1
  b2 = b2
  None = None
  Handle = {h1, h2}
  Writers = {h1}
  Readers = {h2}
  Sweepers = {h2}
  Node = {n1}
  Box = {b1, b2}
  ThreadStart = {"on"}
  GarbCap = 1
  Threshold = 2
  MaxClaim = 3
  MaxEpoch = 2
  MaxTail = 3
  MaxCrash = 1
SYMMETRY Symmetry
INVARIANTS TokenSafe FreeOnce OneLeader RingWindow LeakBound
CHECK_DEADLOCK FALSE
