CONSTANTS
  w1 = w1
  w2 = w2
  w3 = w3
  alpha = alpha
  beta = beta
  gpt = gpt
  bert = bert
  GPU = {g1, g2}
  TotalVRAM = 1
  DefaultVRAM = 1
  Requirement = {0, 1, 2}
  NoTenant = NoTenant
  NoWorker = NoWorker
  Worker <- WorkerSet
  Tenant <- TenantSet
  Model <- ModelSet
  TenantOf <- TenantOfDef
  ModelOf <- ModelOfDef
  MemoryAllocatedMB <- MemoryDef
SPECIFICATION Spec
CHECK_DEADLOCK FALSE
INVARIANT TypeOK
INVARIANT WarmHitIfSteady
INVARIANT ColdOnlyIfNoneSteady
INVARIANT ExhaustedIsReal
