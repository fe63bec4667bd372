SPECIFICATION Spec
CONSTANTS
  h1 = h1
  h2 = h2
  n1 = n1
  b1 = b1
  b2 = b2
  None = None
  Handle = {h1, h2}
  Writers = {h1}
  Readers = {h1, h2}
  Sweepers = {h2}
  Node = {n1}
  Box = {b1, b2}
  ThreadStart = {"on"}
  GarbCap = 2
  Threshold = 2
  MaxClaim = 2
  MaxEpoch = 2
  MaxTail = 2
  MaxCrash = 0
SYMMETRY Symmetry
INVARIANTS TypeOK TokenSafe ValueSafe
PROPERTIES DrainInOrder
CHECK_DEADLOCK FALSE
