CONSTANTS
  g1 = g1
  g2 = g2
  g3 = g3
  w1 = w1
  w2 = w2
  w3 = w3
  w4 = w4
  m1 = m1
  m2 = m2
  GPU = {g1, g2, g3}
  Worker = {w1, w2, w3, w4}
  Model = {m1, m2}
  NoGPU = NoGPU
  TotalVRAM <- TotalVRAMDef
  ModelOf <- ModelOfDef
  VRAMRequirement <- VRAMRequirementDef
SPECIFICATION Spec
CHECK_DEADLOCK FALSE
INVARIANTS
  TypeOK
  NilOverlooksNothing
  WarmPreferred
PROPERTY FreestIfUndisturbed
