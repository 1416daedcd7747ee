CONSTANTS
  GPU = {g1}
  Worker = {w1}
  Delete = {d1}
  MaxWorkers = 1
  TrafficReported = TRUE
  NoGPU = NoGPU
  NoWorker = NoWorker
  TheModel = m
  GPUSize = 3
  Requirement = 2
  Model <- ModelSet
  TotalVRAM <- TotalVRAMDef
  ModelOf <- ModelOfDef
  VRAMRequirement <- RequirementDef
  MaxStarts = 2
  BufferSize = 2
SPECIFICATION ProcessSpec
CHECK_DEADLOCK FALSE
PROPERTY DeleteSurvivesShutdown
