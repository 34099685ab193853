CONSTANTS
  a = a
  b = b
  Nodes = {a, b}
  Frags <- Few
  SEQNUMS = 4
  EARLY_MAX = 1
  NOT_ACKED_MAX = 1
  RESENDS_MAX = 1
  Closers = {}
  BASE = 2
  NETMAX = 2
  FAULTS = 1
SPECIFICATION PFairSpec
PROPERTIES ChannelSpec EverySendCompletes
CHECK_DEADLOCK FALSE
