CONSTANTS
  Procs = {p1}
  Blocks = {b1, b2}
  Values = {0, 1}
  LOGSIZE = 4
  MAXOPBLOCKS = 2
  OPBLOCKS = 1
  nlog = 4
  KeepsRecovered = FALSE
SPECIFICATION Spec
INVARIANT QuietMeansDurable
