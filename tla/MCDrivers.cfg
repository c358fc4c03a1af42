CONSTANTS
  B = 4
  Machines <- Every
  Sources <- MCSources
SPECIFICATION Spec
INVARIANTS TypeOK KernelBounds CutAtRune CountedOnce TrapsWhereUngated
PROPERTY RightIfReturned
CHECK_DEADLOCK FALSE
