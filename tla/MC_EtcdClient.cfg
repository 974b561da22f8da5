CONSTANTS
  Listeners = {l1, l2}
  Configs <- MCConfigs
  MaxLoads = 3
  MaxListenerOps = 2
  OneShot = {}
  CompatSection = "compat"
  ReloadAfterClose = TRUE
  NoClient = NoClient

SPECIFICATION Spec

INVARIANT TypeOK
INVARIANT NoLeakedClient
PROPERTY ListenerLearnsCurrentClient

CHECK_DEADLOCK FALSE
