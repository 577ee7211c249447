CONSTANTS
  Procs = {p1, p2}
  Bufs = {u1, u2}
  Blocks = {b1, b2, b3}
  Values = {0, 1}
  InLog = {b1}
  RefBits = 3
SPECIFICATION Spec
INVARIANT UsersKeepTheirBuffer
