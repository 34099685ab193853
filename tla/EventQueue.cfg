CONSTANTS
  Procs = {p1, p2, p3}
  NR = 2
  BATCH = 2
  IDMAX = 3
  FRAGS = 2
  MAXINDEX = 3
SPECIFICATION HSpec
INVARIANTS SlotsAccounted ReleaseNeverRefused PolledOnce SerialExact
SYMMETRY ProcSymmetry
CHECK_DEADLOCK FALSE
