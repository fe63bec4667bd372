SPECIFICATION Spec
CONSTANTS
  p1 = p1
  p2 = p2
  p3 = p3
  Unknown = Unknown
  Proc = {p1, p2, p3}
  SlotN = 2
  MaxClaim = 3
  Worlds <- Tame
INVARIANTS TypeOK OwnerKept ClaimKept RefusedReaps
CHECK_DEADLOCK FALSE
