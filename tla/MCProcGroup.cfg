CONSTANTS
  CPUs = {c0, c1, c2}
  BootCpu = c0
  Procs = {init, p1, p2}
  InitProc = init
  NoProc = NoProc
  MAX_PROC_GROUP_NUM = 3
SYMMETRY Symmetry
SPECIFICATION Spec
INVARIANTS
  TypeOK
  GroupInvariant
  MembersAgree
  NoProcLost
  OnOwnCpu
  FreeCpusCovered
  ScanFindsSlot
  NoKernelPanic
PROPERTY OnlyDefaultGivesCpus
