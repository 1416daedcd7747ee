CONSTANTS
  GPU = {g1}
  Worker = {w1}
  Delete = {}
  MaxWorkers = 1
  TrafficReported = FALSE
  NoGPU = NoGPU
  NoWorker = NoWorker
  TheModel = m
  GPUSize = 3
  Requirement = 2
  Model <- ModelSet
  TotalVRAM <- TotalVRAMDef
  ModelOf <- ModelOfDef
  VRAMRequirement <- RequirementDef
SPECIFICATION Spec
CHECK_DEADLOCK FALSE
PROPERTY AcceptedIsStarting
