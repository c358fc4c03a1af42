CONSTANTS
  B = 4
  Machines <- Supported
  Sources <- MCSources
SPECIFICATION Spec
INVARIANT RuneStartAsDocumented
CHECK_DEADLOCK FALSE
