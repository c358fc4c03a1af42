SPECIFICATION Spec
CONSTANTS
  W = 32
  Targets = {"AVX2"}
  Sources <- MCSources
  Left <- MCLeft
INVARIANT ResultExact
PROPERTY ImplementsLoop
CHECK_DEADLOCK FALSE
