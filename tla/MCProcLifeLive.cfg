CONSTANTS
  N = 3
  WithCount = FALSE
  BadPointer = FALSE
SPECIFICATION FairSpec
INVARIANTS
  NoLockCycle
  AssertionsHold
PROPERTY ZombiesReaped
