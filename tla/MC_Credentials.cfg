CONSTANTS
  Materials = {m1, m2}
  Partial = Partial
  LoaderAttached = TRUE
  MaxReplacements = 2
  MaxWaits = 2

SPECIFICATION Spec

INVARIANT TypeOK
PROPERTY ReplaceFileReturns
PROPERTY ChangeEventuallyLoaded

CHECK_DEADLOCK FALSE
