CONSTANTS
  Values = {v1, v2}
  MaxEvents = 3

SPECIFICATION Spec

INVARIANT TypeOK
PROPERTY KeyWatchSpec
PROPERTY StreamErrorReturned
CHECK_DEADLOCK FALSE
