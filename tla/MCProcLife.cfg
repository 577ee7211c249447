CONSTANTS
  N = 3
  WithCount = TRUE
  BadPointer = TRUE
SPECIFICATION Spec
INVARIANTS
  TypeOK
  NoOrphan
  NoLostWakeup
  PidsAreDistinct
CHECK_DEADLOCK FALSE
