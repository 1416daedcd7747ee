CONSTANTS
  GPU = {g1, g2}
  Worker = {w1, w2}
  Delete = {d1}
  MaxWorkers = 1
  TrafficReported = TRUE
  NoGPU = NoGPU
  NoWorker = NoWorker
  TheModel = m
  GPUSize = 3
  Requirement = 2
  Model <- ModelSet
  TotalVRAM <- MixedVRAMDef
  ModelOf <- ModelOfDef
  VRAMRequirement <- MixedRequirementDef
SPECIFICATION Spec
CHECK_DEADLOCK FALSE
INVARIANT TypeOK
INVARIANT VRAMWithinTotal
INVARIANT LedgerExactWhenMatched
INVARIANT NoOrphanContainer
INVARIANT ServingIsBacked
INVARIANT StartedWorkerFreesVRAM
INVARIANT CounterNeverOverstates
PROPERTY ImplementsMachine
PROPERTY DepartsOnlyAsKnown
