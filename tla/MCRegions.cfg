SPECIFICATION Spec
CONSTANTS
  Proc = {p1, p2}
  NoOne = NoOne
  MaxSize = 3
  Crashes = TRUE
SYMMETRY Alike
INVARIANT TypeOK
INVARIANT FilesCover
INVARIANT AttachInitialised
 
INVARIANT AllocMapped
\* The processes may all have died, or wait for a dead one.
CHECK_DEADLOCK FALSE
