CONSTANTS
  Messages = {m1, m2, m3}
  CPUs = {c0, c1}
  EMPTY = EMPTY
  CPU_MESSAGE_BOX_SIZE = 4
  CounterBits = 3
SPECIFICATION FairSpec
INVARIANT TypeOK
PROPERTIES
  IsFifo
  AllTaken
