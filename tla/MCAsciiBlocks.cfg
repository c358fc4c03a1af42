CONSTANTS
  W = 2
  Sources <- MCSources
SPECIFICATION Spec
INVARIANTS TypeOK LoadsInBounds CountedPrefix
PROPERTY KeepsPromise
CHECK_DEADLOCK FALSE
