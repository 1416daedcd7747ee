CONSTANTS
  Terminator = {t1}
SPECIFICATION Spec
CHECK_DEADLOCK FALSE
INVARIANT PulledImageIsThere
PROPERTY FailedStartCleansUp
PROPERTY ForceRemoves
