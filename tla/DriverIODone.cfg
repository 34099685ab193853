CONSTANTS
  A = A
  B = B
  a1 = a1
  a2 = a2
  b1 = b1
  c1 = c1
  NULL = NULL
  Hosts = {A, B}
  Addrs = {a1, a2, b1, c1}
  PeerMax = 3
  QueueMax = 1
  Configs <- TwoBoards
SPECIFICATION IOSpec
INVARIANTS CompletionAlways
CHECK_DEADLOCK FALSE
