CONSTANTS
  W = 4
  Sources <- MCSources
SPECIFICATION Spec
INVARIANT EndsOnRuneBoundary
CHECK_DEADLOCK FALSE
