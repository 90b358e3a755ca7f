SPECIFICATION FairSpec
CONSTANTS
  a = a
  b = b
  e1 = e1
  e2 = e2
  w1 = w1
  Sites = {a, b}
  Envs = {e1, e2}
  Sweeps = {w1}
  Fragile = {e1, e2}
  Retried <- MCRetried
  MaxQueue = 2
INVARIANTS OnePreviewPerSite NoStrayEnvironment
PROPERTIES CloseEnds SweptOrUsed
CHECK_DEADLOCK FALSE
