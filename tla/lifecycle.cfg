CONSTANTS
  GPU = {g1}
  Worker = {w1}
  Delete = {d1, d2, d3}
  MaxWorkers = 2
  TrafficReported = TRUE
  NoGPU = NoGPU
  NoWorker = NoWorker
  TheModel = m
  GPUSize = 3
  Requirement = 2
  Model <- ModelSet
  TotalVRAM <- TotalVRAMDef
  ModelOf <- ModelOfDef
  VRAMRequirement <- RequirementDef
SPECIFICATION FairSpec
CHECK_DEADLOCK FALSE
PROPERTY DeletedWorkerLeaves
PROPERTY DeletedContainerGoes
PROPERTY AcceptedWorkerSettles
PROPERTY IdleWorkerLeaves
