CONSTANTS
  B = 4
  Machines <- Baseline
  Sources <- MCSources
SPECIFICATION Spec
INVARIANT NoIllegalInstruction
CHECK_DEADLOCK FALSE
