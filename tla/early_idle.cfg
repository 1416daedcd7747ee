CONSTANTS
  Worker = {w1}
  IdleTimeout = 1
  MaxStall = 1
  MaxInFlight = 1
  Nil = Nil
  NoWorker = NoWorker
SPECIFICATION FairSpec
PROPERTY IdleLongEnough
