CONSTANTS
  Terminator = {t1, t2, t3}
SPECIFICATION FairSpec
CHECK_DEADLOCK FALSE
INVARIANT TypeOK
INVARIANT LostOnlyByFault
INVARIANT NilMeansRemoved
PROPERTY ImplementsCalls
PROPERTY CallsReturn
