CONSTANTS
  CPUs = {c0, c1, c2}
  BootCpu = c0
  Procs = {init, p1, p2}
  InitProc = init
  NoProc = NoProc
  MAX_PROC_GROUP_NUM = 3
SPECIFICATION Spec
INVARIANT IncWaitsForCpu
