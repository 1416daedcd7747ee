CONSTANTS
  GPU = {g1}
  Worker = {w1}
  Delete = {}
  MaxWorkers = 1
  TrafficReported = FALSE
  NoGPU = NoGPU
  NoWorker = NoWorker
  TheModel = m
  GPUSize = 3
  Requirement <- UnvalidatedRequirement
  Model <- ModelSet
  TotalVRAM <- TotalVRAMDef
  ModelOf <- ModelOfDef
  VRAMRequirement <- RequirementDef
SPECIFICATION Spec
CHECK_DEADLOCK FALSE
INVARIANT ReportedVRAMPossible
