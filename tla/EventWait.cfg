CONSTANTS
  Procs = {p1}
  Threads = {t1, t2}
  NR = 1
  BATCH = 1
  IDMAX = 3
  FRAGS = 1
  MAXINDEX = 2
  MAXUSER = 1
  MAXEVENTS = 2
SPECIFICATION BFairSpec
INVARIANTS NoLostWakeup
 
CHECK_DEADLOCK FALSE
