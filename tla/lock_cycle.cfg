CONSTANTS
  GPU = {g1, g2}
  Reader = {s1, s2}
  Writer = {a1, a2}
  NoCall = NoCall
  NoGPU = NoGPU
SPECIFICATION FairSpec
CHECK_DEADLOCK FALSE
PROPERTY EveryCallReturns
