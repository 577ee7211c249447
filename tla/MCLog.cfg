CONSTANTS
  Procs = {p1, p2}
  Blocks = {b1, b2, b3}
  Values = {0, 1}
  LOGSIZE = 4
  MAXOPBLOCKS = 2
  OPBLOCKS = 1
  nlog = 4
  KeepsRecovered = TRUE
SPECIFICATION FairSpec
INVARIANTS
  TypeOK
  QuietMeansDurable
  OneCommitter
  LogNeverOverflows
PROPERTIES
  CallsAreAtomic
  SleepersWake
