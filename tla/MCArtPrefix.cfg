SPECIFICATION Spec
CONSTANTS
  None = None
  v1 = v1
  v2 = v2
  Values = {v1}
  Families <- SmallFamilies
  Slash = 1
  C2 = 7
  B7 = 6
  PrefixMax = 3
  Cap <- SmallCap
  Budgets = {0, 9}
INVARIANTS PrefixRefExact
CHECK_DEADLOCK FALSE
