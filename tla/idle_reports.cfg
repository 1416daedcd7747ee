CONSTANTS
  Worker = {w1}
  IdleTimeout = 1
  MaxStall = 1
  MaxInFlight = 2
  Nil = Nil
  NoWorker = NoWorker
SPECIFICATION FairSpec
INVARIANT TypeOK
PROPERTY PastRequestLeaves
