CONSTANTS
  Worker = {w1, w2}
  Timeout = 2
  MaxStall = 2
  Nil = Nil
SPECIFICATION FairSpec
INVARIANTS TypeOK OfflineAsOfNow
PROPERTY SilentWorkerReported
