CONSTANTS
  B = 4
  Machines <- Kinds
  Sources <- MCSources
SPECIFICATION WholeSpec
INVARIANTS WholeTypeOK LoadsInside KernelsAnswer NoIllegalInstruction
PROPERTIES CallsInContract ImplementsDrivers DropIn
CHECK_DEADLOCK FALSE
