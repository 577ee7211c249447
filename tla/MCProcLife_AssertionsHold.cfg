CONSTANTS
  N = 3
  WithCount = FALSE
  BadPointer = TRUE
SPECIFICATION Spec
INVARIANT AssertionsHold
