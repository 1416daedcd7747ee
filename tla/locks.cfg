CONSTANTS
  GPU = {g1, g2}
  Reader = {s1, s2, s3}
  Writer = {a1}
  NoCall = NoCall
  NoGPU = NoGPU
SPECIFICATION FairSpec
CHECK_DEADLOCK FALSE
INVARIANT StuckBetweenWriters
PROPERTY EveryCallReturns
