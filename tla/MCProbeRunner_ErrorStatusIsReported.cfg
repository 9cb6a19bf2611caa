CONSTANTS
  Bodies <- AllBodies
  MaxTime = 2

SPECIFICATION Spec

INVARIANT ErrorStatusIsReported

\* A probe ends.
CHECK_DEADLOCK FALSE
