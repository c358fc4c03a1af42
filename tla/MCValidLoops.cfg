SPECIFICATION Spec
CONSTANTS
  W = 16
  Targets = {"SSE", "NEON", "VSX", "VX"}
  Sources <- MCSources
  Left <- MCLeft
INVARIANTS TypeOK ConstantsKept ResultExact
PROPERTY ImplementsLoop
CHECK_DEADLOCK FALSE
