CONSTANTS
  t1 = t1
  t2 = t2
  t3 = t3
  NoThread = none
  Threads = {t1, t2, t3}
  Configs <- MCConfigs
SPECIFICATION MSpec
INVARIANTS NothingMatchable NotOvertaken DeliveredOnceWhole 
CHECK_DEADLOCK FALSE
