CONSTANTS
  a = a
  b = b
  Nodes = {a, b}
  Configs <- MCConfigs
  SESSIONS = 2
  SEQNUMS = 16
  SESNUMS = 2
  EARLY_MAX = 2
  RESENDS_MAX = 1
  NETMAX = 2
SPECIFICATION CFairSpec
INVARIANTS SessionsExact DeliveredInOrder 
PROPERTIES EveryConnectCompletes
CHECK_DEADLOCK FALSE
