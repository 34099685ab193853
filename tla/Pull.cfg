SPECIFICATION PullSpec
CONSTANTS
  PAGE_SIZE = 4
  SKB_FRAGS = 1
  Handles = {h1, h2}
  BHs = {b1, b2}
  Configs <- MCConfigs
  PulledSegs <- MCPulledSegs
  REPLY_MAX = 2
  PER_BLOCK = 2
  DESCS = 2
  SEQMOD = 4
  SLOTS = 1
  GENS = 2
  COPY_MAX = 1
  MAXTRIES = 1
  NULL = NULL
INVARIANTS FramesAccounted HandlesAccounted OutcomeExact 
CHECK_DEADLOCK FALSE
SYMMETRY MCSym
