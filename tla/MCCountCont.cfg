CONSTANTS
  W = 4
  Sources <- MCSources
SPECIFICATION Spec
INVARIANTS TypeOK AccExact
PROPERTY KeepsPromise
CHECK_DEADLOCK FALSE
