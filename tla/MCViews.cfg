SPECIFICATION Spec
CONSTANTS
  v1 = v1
  v2 = v2
  Values = {v1, v2}
  Blank = Blank
  Ops <- AllOps
  MaxNode = 3
  MaxCalls = 2
  MaxBox = 3
  Crashes = TRUE
SYMMETRY Interchangeable
INVARIANTS TypeOK ReadAtomic EvenAtRest CallTakesEffect
CHECK_DEADLOCK FALSE
