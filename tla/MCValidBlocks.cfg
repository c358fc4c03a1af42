CONSTANTS
  W = 4
  Sources <- MCSources
SPECIFICATION Spec
INVARIANTS TypeOK ErrExact CarryBounded RegsExact
PROPERTY KeepsPromise
CHECK_DEADLOCK FALSE
