CONSTANTS
  Listeners = {l1, l2}
  Configs <- MCConfigs
  MaxLoads = 3
  MaxListenerOps = 2
  OneShot = {}
  CompatSection = "compat"
  ReloadAfterClose = FALSE
  NoClient = NoClient

SPECIFICATION Spec

INVARIANT NoOpenClientAfterClose


CHECK_DEADLOCK FALSE
