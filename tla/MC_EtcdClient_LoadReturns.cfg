CONSTANTS
  Listeners = {l1, l2}
  Configs <- MCConfigs
  MaxLoads = 3
  MaxListenerOps = 2
  OneShot = {l1}
  CompatSection = "compat"
  ReloadAfterClose = TRUE
  NoClient = NoClient

SPECIFICATION Spec

PROPERTY LoadReturns


CHECK_DEADLOCK FALSE
