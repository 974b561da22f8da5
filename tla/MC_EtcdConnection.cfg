CONSTANTS
  Listeners = {l1}
  Configs <- MCConnectionConfigs
  MaxLoads = 2
  MaxListenerOps = 1
  OneShot = {}
  CompatSection = "compat"
  ReloadAfterClose = TRUE
  NoClient = NoClient
  InitialWaitDelay = 1
  MaxWaitDelay = 3
  MaxSyncFailures = 4
  MaxOutages = 2

SPECIFICATION Spec

INVARIANT TypeOK
INVARIANT BackoffSchedule
 

CHECK_DEADLOCK FALSE
