CONSTANT
  Sources <- MCSources
SPECIFICATION Spec
INVARIANTS TypeOK StopsAtStarts PrefixJudged
PROPERTY Decodes
CHECK_DEADLOCK FALSE
