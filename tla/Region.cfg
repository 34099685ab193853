CONSTANTS
  NULL = NULL
  r1 = r1
  r2 = r2
  u1 = u1
  u2 = u2
  Objs <- MCObjs
  Users <- MCUsers
  Ids <- MCIds
  Layouts <- MCLayouts
  Pulls <- MCPulls
  Configs <- MCConfigs
  PAGE_SIZE = 2
  SKB_FRAGS = 2
  CHUNK_MIN = 1
  CHUNK_MAX = 2
  VMALLOC = 1
  MAXCREATE = 2
  MAXRARE = 1
SPECIFICATION RSpec
SYMMETRY Sym
INVARIANTS RegionsConsistent PagesExactUnlessInvalidated UsedIsPinned CopyExact
CHECK_DEADLOCK FALSE
