CONSTANTS
  Word = 2
  Sources <- MCSources
SPECIFICATION Spec
INVARIANTS TypeOK OnlyAsciiTaken Maximal
PROPERTY Returns
CHECK_DEADLOCK FALSE
