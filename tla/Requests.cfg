CONSTANTS
  NOREQ = NOREQ
  SEQNUMS = 4
  p1 = p1
  p2 = p2
  Partners = {p1, p2}
  Configs <- MCConfigs
SPECIFICATION Spec
INVARIANTS RequestsConsistent BufferKept SendsInOrder ReportsFindTheirRequest 
CHECK_DEADLOCK FALSE
