CONSTANTS
  Listeners = {l1, l2}
  Configs <- MCConfigs
  MaxLoads = 3
  MaxListenerOps = 3
  OneShot = {}
  CompatSection = "compat"
  ReloadAfterClose = TRUE
  NoClient = NoClient

SPECIFICATION Spec

INVARIANT NotifiedOncePerClient


CHECK_DEADLOCK FALSE
