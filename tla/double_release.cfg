CONSTANTS
  GPU = {g1}
  Worker = {w1, w2}
  Delete = {d1, d2}
  MaxWorkers = 2
  TrafficReported = FALSE
  NoGPU = NoGPU
  NoWorker = NoWorker
  TheModel = m
  GPUSize = 4
  Requirement = 2
  Model <- ModelSet
  TotalVRAM <- TotalVRAMDef
  ModelOf <- ModelOfDef
  VRAMRequirement <- RequirementDef
SPECIFICATION Spec
SYMMETRY WorkerSymmetry
CHECK_DEADLOCK FALSE
INVARIANT LedgerExact
