SPECIFICATION EpSpec
CONSTANTS
  Files = {f1, f2}
  Tasks = {t1, t2}
  BHs = {b1}
  Ifaces = {i1, i2}
  Indexes = {1}
  Admin = Admin
  NULL = NULL
INVARIANTS EndpointsAccounted LookupsFindOpen 
SYMMETRY MCSym
CHECK_DEADLOCK FALSE
