SPECIFICATION Spec
CONSTANTS
  Children <- Few
  MaxCoord = 8
INVARIANT ListedOnce
\* The listing ends.
CHECK_DEADLOCK FALSE
