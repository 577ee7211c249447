CONSTANTS
  N = 3
  WithCount = TRUE
  BadPointer = FALSE
SPECIFICATION Spec
INVARIANT NoLockCycle
