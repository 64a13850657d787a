CONSTANTS
  w1 = w1
  w2 = w2
  p1 = p1
  p2 = p2
  User = {u1}
  Worker = {w1, w2}
  Proc = {p1, p2}
  Placement <- Placements
  TTL_BASE = 2
  TTL_JITTER = 1
  TTL_EMPTY = 1
  L1_TTL = 1
  MaxLag = 1
SPECIFICATION CacheSpec
INVARIANT RemovedStopsReceiving SilentOnlyBriefly
PROPERTY GetAnswers
CHECK_DEADLOCK FALSE
