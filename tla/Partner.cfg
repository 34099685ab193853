CONSTANTS
  a = a
  b = b
  Nodes = {a, b}
  Frags <- Mix
  SEQNUMS = 6
  EARLY_MAX = 2
  NOT_ACKED_MAX = 2
  RESENDS_MAX = 1
  Closers = {b}
  BASE = 4
  NETMAX = 2
  FAULTS = 1
SPECIFICATION PSpec
INVARIANTS AckedWasReceived ThrottledOnlyWhenFull QueuesBounded
PROPERTIES ChannelSpec
CHECK_DEADLOCK FALSE
