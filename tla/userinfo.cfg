CONSTANTS
  w1 = w1
  w2 = w2
  w3 = w3
  p1 = p1
  p2 = p2
  Profile = {n1, n2}
  Worker = {w1, w2, w3}
  Proc = {p1, p2}
  Home <- Threads
  Free = Free
  Miss = Miss
  TTL_BASE = 2
  TTL_JITTER = 1
  L1_TTL = 1
  MaxLag = 1
SYMMETRY Symmetry
SPECIFICATION Spec
INVARIANT ShownIsRecent
CHECK_DEADLOCK FALSE
